------------------------------ MODULE QtClient ------------------------------
(* The Qt client (src/qt_client) against the engine's control API: the timers *)
(* and buttons of its pages, ApiClient's requests, which have no timeout and  *)
(* no order among them, and what a page does with a reply.                    *)
(*                                                                            *)
(* The pages share the engine and nothing else: a behaviour follows one page, *)
(* the others only make replies later. Of the three limits of the form there  *)
(* is max_position_ratio, in units of 0.00000001: the form takes eight        *)
(* decimals, a reply shows six. Labels, tables' contents, languages and the   *)
(* form of the grid are left out.                                             *)
EXTENDS Naturals, FiniteSetsExt

CONSTANTS
    Typed,          \* ratios a user may type
    FormDefault,    \* the ratio the form starts with and is reset to
    StartRatio,     \* the engine's ratio when the client is started
    MaxRows,        \* rows a table of the logs page keeps
    MaxInFlight,    \* bound on requests of one route under way: nothing limits them
    MaxInputs       \* bound on what users do, here and elsewhere

One == 100000000    \* a ratio of 1.0

Accepts(n) == n > 0 /\ n <= One

ASSUME RatiosAssumption ==
    /\ Typed \subseteq Nat
    /\ FormDefault \in Nat /\ Accepts(FormDefault)
    /\ StartRatio \in Nat /\ Accepts(StartRatio)
ASSUME ClientBoundsAssumption ==
    MaxRows \in Nat \ {0} /\ MaxInFlight \in Nat \ {0} /\ MaxInputs \in Nat

VARIABLES
    page,           \* the page followed
    client,         \* off, on, or crashed
    ratio,          \* the form's ratio
    banner,         \* the dashboard's warning is shown
    rows,           \* rows of a logs table
    asked,          \* requests under way to the engine
    answered,       \* replies under way to the client, and failed requests
    up,             \* the engine runs
    inForce,        \* its max_position_ratio
    known,          \* ratios that have been in force (history)
    taken,          \* orders it has taken
    confirmed,      \* orders the user has confirmed (history)
    inputs          \* what users have done so far

screen == <<ratio, banner, rows>>
engine == <<up, inForce, known, taken>>
users == <<confirmed, inputs>>
clientVars == <<page, client, screen, asked, answered, engine, users>>

\* GET /config/effective fares like the runtime's, GET /events like the orders'.
Polled == [dashboard |-> {"health", "runtime"}, strategy |-> {"limits"},
           trading |-> {}, logs |-> {"orders"}]

Pages == DOMAIN Polled

Routes == (UNION {Polled[p] : p \in Pages}) \union {"apply", "order"}

Slots == 1..MaxInFlight

Ok(code) == code >= 200 /\ code < 300

----------------------------------------------------------------------------
\* What a number printed with an exponent is multiplied by when reading stops at
\* the exponent: its first digit becomes its units.
Dropped(n) == One \div Max({d \in {1, 10, 100, 1000} : d <= n})

\* A number as the request's body has it and the router reads it: below 0.0001
\* it is printed with an exponent.
Parsed(n) == IF n \in 1..9999 THEN n * Dropped(n) ELSE n

\* A ratio in force as a reply prints it and the form, whose six digits are enough
\* for that, shows it: with six decimals. (An exact half goes up here; in the code
\* its binary digits decide.)
Shown(n) == ((n + 50) \div 100) * 100

FreeSlots(route) == Slots \ {q.slot : q \in {r \in asked \union answered : r.route = route}}

\* ApiClient::get and post: a request is under way, without a timeout.
Send(route, value) ==
    /\ FreeSlots(route) # {}
    /\ asked' = asked \union {[route |-> route, slot |-> Min(FreeSlots(route)), value |-> value]}
    /\ UNCHANGED answered

ClientInit ==
    /\ page \in Pages
    /\ client = "off"
    /\ ratio = FormDefault /\ banner = FALSE /\ rows = 0
    /\ asked = {} /\ answered = {}
    /\ up \in BOOLEAN
    /\ inForce = StartRatio /\ known = {StartRatio} /\ taken = 0
    /\ confirmed = 0 /\ inputs = 0

\* MainWindow. The strategy page gives three fields their validators before it
\* creates them: it calls through pointers that are not initialized.
Launch ==
    /\ client = "off"
    /\ client' \in {"on", "crashed"}
    /\ UNCHANGED <<page, screen, asked, answered, engine, users>>

\* A timer of the page fires, or its refresh button is pressed.
Poll(route) ==
    /\ client = "on" /\ route \in Polled[page]
    /\ Send(route, 0)
    /\ UNCHANGED <<page, client, screen, engine, users>>

Input == inputs < MaxInputs /\ inputs' = inputs + 1

Edit(n) ==
    /\ client = "on" /\ page = "strategy" /\ Input
    /\ ratio' = n
    /\ UNCHANGED <<page, client, banner, rows, asked, answered, engine, confirmed>>

\* The risk form is posted as it is: nothing checks it.
Apply ==
    /\ client = "on" /\ page = "strategy" /\ Input
    /\ Send("apply", ratio)
    /\ UNCHANGED <<page, client, screen, engine, confirmed>>

\* The order button with its checks passed and its question answered Yes.
ConfirmOrder ==
    /\ client = "on" /\ page = "trading" /\ Input
    /\ confirmed' = confirmed + 1
    /\ Send("order", 0)
    /\ UNCHANGED <<page, client, screen, engine>>

\* Another client of the API changes the ratio. Only the strategy page asks for it.
ApplyElsewhere(n) ==
    /\ page = "strategy" /\ up /\ Accepts(n) /\ Input
    /\ inForce' = n
    /\ known' = known \union {n}
    /\ UNCHANGED <<page, client, screen, asked, answered, up, taken, confirmed>>

----------------------------------------------------------------------------
\* What handling a request changes in the engine.
Effect(q) ==
    /\ IF q.route = "apply" /\ Accepts(Parsed(q.value))
       THEN inForce' = Parsed(q.value) /\ known' = known \union {Parsed(q.value)}
       ELSE UNCHANGED <<inForce, known>>
    /\ taken' = IF q.route = "order" THEN taken + 1 ELSE taken

\* /health is answered with 503 when ticks have stopped, and at times by a fresh
\* engine, too, when an unsigned difference wraps: Health has when.
Code(q, stale) ==
    IF q.route = "health" /\ stale THEN 503
    ELSE IF q.route = "apply" /\ ~Accepts(Parsed(q.value)) THEN 400
    ELSE 200

\* A reply carries the limits when they were asked for; what was asked for is
\* kept with the others. A failed request has code 0 and no body.
Body(q, code) ==
    IF q.route # "limits" THEN q.value ELSE IF Ok(code) THEN Shown(inForce) ELSE 0

Replied(q, code) ==
    /\ asked' = asked \ {q}
    /\ answered' = answered \union
         {[route |-> q.route, slot |-> q.slot, value |-> Body(q, code), code |-> code]}

Serve(q) ==
    /\ up /\ q \in asked
    /\ Effect(q)
    /\ \E stale \in BOOLEAN : Replied(q, Code(q, stale))
    /\ UNCHANGED <<page, client, screen, up, users>>

\* The engine dies idle, or between a request's effect and its reply; until it
\* is started again requests are refused.
EngineDies ==
    /\ up /\ up' = FALSE
    /\ \/ UNCHANGED <<asked, answered, inForce, known, taken>>
       \/ \E q \in asked : Effect(q) /\ Replied(q, 0)
    /\ UNCHANGED <<page, client, screen, users>>

Refuse(q) ==
    /\ ~up /\ q \in asked
    /\ Replied(q, 0)
    /\ UNCHANGED <<page, client, screen, engine, users>>

\* A start puts limits in force that have been, not always the last ones:
\* RuntimeState has why.
EngineStarts ==
    /\ ~up /\ up' = TRUE
    /\ inForce' \in known
    /\ UNCHANGED <<page, client, screen, asked, answered, known, taken, users>>

----------------------------------------------------------------------------
\* Mutants: the limits of any reply are shown, or only in a form not filled yet;
\* only a failure moves the banner; a failed request is sent again; rows are
\* never removed.
RatioOfAnyReply(a) == IF a.route = "limits" THEN a.value ELSE ratio

RatioFilledOnce(a) ==
    IF a.route = "limits" /\ Ok(a.code) /\ ratio = FormDefault THEN a.value ELSE ratio

BannerOnce(a) ==
    IF a.route \in Polled["dashboard"] THEN banner \/ ~Ok(a.code) ELSE banner

ResendFailed(a) ==
    IF a.code = 0 THEN {[route |-> a.route, slot |-> a.slot, value |-> a.value]} ELSE {}

RowsUntrimmed(a) == IF a.route = "orders" THEN rows + 1 ELSE rows

\* The pages' handlers of responseReady and requestMetric.
RatioAfter(a) == IF a.route = "limits" /\ Ok(a.code) THEN a.value ELSE ratio

BannerAfter(a) == IF a.route \in Polled["dashboard"] THEN ~Ok(a.code) ELSE banner

RowsAfter(a) == IF a.route = "orders" THEN Min({rows + 1, MaxRows}) ELSE rows

\* What a reply makes ApiClient send: nothing, failed requests included.
SentAfter(a) == {}

Deliver(a) ==
    /\ client = "on" /\ a \in answered
    /\ answered' = answered \ {a}
    /\ asked' = asked \union SentAfter(a)
    /\ ratio' = RatioAfter(a)
    /\ banner' = BannerAfter(a)
    /\ rows' = RowsAfter(a)
    /\ UNCHANGED <<page, client, engine, users>>

At(set, route, slot) == {q \in set : q.route = route /\ q.slot = slot}

AnswerAt(route, slot) == \E q \in At(asked, route, slot) : Serve(q) \/ Refuse(q)

DeliverAt(route, slot) == \E a \in At(answered, route, slot) : Deliver(a)

ClientNext ==
    \/ Launch
    \/ \E route \in Routes : Poll(route)
    \/ \E n \in Typed \union {FormDefault} : Edit(n)
    \/ Apply \/ ConfirmOrder
    \/ \E n \in Typed : ApplyElsewhere(n)
    \/ EngineDies \/ EngineStarts
    \/ \E route \in Routes, slot \in Slots : AnswerAt(route, slot) \/ DeliverAt(route, slot)

\* Timers fire; a connection waits its turn in the engine's accept queue and
\* then is answered or refused; a reply that is there is handled. Users, ticks
\* and the engine's starts and ends are up to the world.
ClientFairness ==
    \A route \in Routes :
        /\ WF_clientVars(Poll(route))
        /\ \A slot \in Slots : /\ WF_clientVars(AnswerAt(route, slot))
                               /\ WF_clientVars(DeliverAt(route, slot))

ClientSpec == ClientInit /\ [][ClientNext]_clientVars /\ ClientFairness

----------------------------------------------------------------------------
Request == [route: Routes, slot: Slots, value: Nat]

(* Every variable keeps its type, a table keeps its size, and no two requests *)
(* of a route under way share a place.                                        *)
ClientTypeOK ==
    /\ client \in {"off", "on", "crashed"}
    /\ ratio \in Nat /\ banner \in BOOLEAN /\ rows \in 0..MaxRows
    /\ \A q \in asked : q \in Request
    /\ \A q, r \in asked \union answered :
          q.route = r.route /\ q.slot = r.slot => q = r
    /\ Accepts(inForce)

(* The form never shows junk: its ratio is the default, one the user typed,   *)
(* or one that has been in force, to the decimals of a reply, whatever        *)
(* requests fail and however their replies overtake each other.               *)
FormNeverJunk == ratio \in {FormDefault} \union Typed \union {Shown(n) : n \in known}

(* The engine takes no more orders than the user confirmed: a request that    *)
(* failed, whose order may have been taken, is not sent again.                *)
OrdersConfirmed == taken <= confirmed

(* Once the engine stays up, the form comes to show the limits in force, to   *)
(* the decimals of a reply, for all that replies arrive out of order, old     *)
(* ones after a change included.                                              *)
FormConverges ==
    page = "strategy" => (<>[]up => <>[](client = "on" => ratio = Shown(inForce)))

HealthAnswersOk == \A a \in answered : a.route = "health" => Ok(a.code)

(* Once the engine stays up and answers /health with 200, the dashboard's     *)
(* warning goes away for good, whatever failed before. Ticks alone are not    *)
(* enough: with a wrapped difference /health may answer 503 again and again   *)
(* (AlarmsExplained of Health).                                               *)
BannerClears == <>[](up /\ HealthAnswersOk) => <>[]~banner

(* "After an update the risk limits take effect at once" (docs/               *)
(* config_vs_client_mutability.md): limits posted and answered with 200 have  *)
(* been in force.                                                             *)
AppliedAsTyped ==
    \A a \in answered : a.route = "apply" /\ Ok(a.code) => a.value \in known
=============================================================================
