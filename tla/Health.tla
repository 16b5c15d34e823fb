------------------------------- MODULE Health -------------------------------
(***************************************************************************)
(* GET /health and those who depend on it: the tick handler that stores    *)
(* last_tick_ms, the router that reads the clock and then last_tick_ms,    *)
(* the control thread that may be busy with somebody else, the timer that  *)
(* runs deploy/healthcheck.sh, and another process that may have the port. *)
(*                                                                         *)
(* Moments are kept as ages, how long ago the clock showed them, up to Cap *)
(* (older moments look alike to every comparison): time is unbounded, the  *)
(* states are not.                                                         *)
(***************************************************************************)
EXTENDS Integers

CONSTANTS
    Feeds,          \* the two market threads
    Threshold,      \* health_unhealthy_after_no_tick_sec
    CheckTimeout,   \* curl -m 3 of healthcheck.sh
    MaxDelay,       \* bound: how long a thread may pause between two lines of code
    MaxShift,       \* bound: how far the system clock is set back or forth
    Wrap            \* 2^64 of the uint64_t subtraction

ASSUME HealthAssumption ==
    /\ {Threshold, CheckTimeout, MaxDelay, MaxShift, Wrap} \subseteq Nat
    /\ MaxDelay < CheckTimeout /\ CheckTimeout <= Threshold
    /\ Wrap > 2 * (Threshold + MaxDelay + MaxShift + 1)

Cap == Threshold + MaxDelay + MaxShift + 1
Never == Cap + 1        \* no such moment: last_tick_ms is 0

VARIABLES
    engine,         \* "down", "starting" (not yet listening), "listening", or "deaf": bind failed
    other,          \* another process, a second engine say, listens on the port
    last_tick_ms,   \* age of the moment stored, Never before the first tick
    stamp,          \* per feed, age of the now_ms() not yet stored, Never outside of those lines
    since,          \* history: true age of the latest tick stored since the start
    shift,          \* how far the system clock is behind the latest it could show
    server,         \* control thread: "idle", "busy" (another request), "health"
    now,            \* age of the router's now while server = "health"
    check,          \* age of curl's request, Never when none is under way
    held,           \* history: the control thread was busy while that request was under way
    report          \* code of the last check that ended, 0 for none: its alarm is "not 200"

vars == <<engine, other, last_tick_ms, stamp, since, shift, server, now, check, held, report>>
port == <<engine, other>>
memory == <<last_tick_ms, stamp, since>>

Older(age, d) == IF age = Never THEN Never ELSE IF age + d > Cap THEN Cap ELSE age + d
Pending == check # Never

Init ==
    /\ engine = "down" /\ other \in BOOLEAN /\ server = "idle" /\ now = Never
    /\ last_tick_ms = Never /\ stamp = [f \in Feeds |-> Never] /\ since = Never
    /\ shift = 0 /\ check = Never /\ held = FALSE /\ report = 200

-----------------------------------------------------------------------------
(* The engine *)

Start ==
    /\ engine = "down"
    /\ engine' = "starting"
    /\ UNCHANGED <<other, memory, shift, server, now, check, held, report>>

\* The acceptor's constructor throws when the port cannot be bound, as when another process
\* listens on it; main is not told.
Bind ==
    /\ engine = "starting"
    /\ engine' \in IF other THEN {"deaf"} ELSE {"listening", "deaf"}
    /\ UNCHANGED <<other, memory, shift, server, now, check, held, report>>

\* The process ends or dies: a request it has under way gets no answer.
Die ==
    /\ engine # "down"
    /\ engine' = "down" /\ server' = "idle" /\ now' = Never
    /\ last_tick_ms' = Never /\ stamp' = [f \in Feeds |-> Never] /\ since' = Never
    /\ held' = FALSE
    /\ IF other THEN UNCHANGED <<check, report>>
       ELSE check' = Never /\ report' = IF Pending THEN 0 ELSE report
    /\ UNCHANGED <<other, shift>>

\* last_tick_ms.store(now_ms()): the clock is read, then the atomic is written.
ReadClock(f) ==
    /\ engine # "down" /\ stamp[f] = Never
    /\ stamp' = [stamp EXCEPT ![f] = 0]
    /\ UNCHANGED <<port, last_tick_ms, since, shift, server, now, check, held, report>>

\* Mutant: only the first tick is stored.
StoredOnce(f) == IF last_tick_ms = Never THEN stamp[f] ELSE last_tick_ms

Stored(f) == stamp[f]

StoreTick(f) ==
    /\ stamp[f] # Never
    /\ last_tick_ms' = Stored(f)
    /\ stamp' = [stamp EXCEPT ![f] = Never]
    /\ since' = IF stamp[f] < since THEN stamp[f] ELSE since
    /\ UNCHANGED <<port, shift, server, now, check, held, report>>

-----------------------------------------------------------------------------
(* The control thread *)

\* Another connection is served: an order may take the exchange's 5 s, a silent client for ever.
TakeOther ==
    /\ engine = "listening" /\ server = "idle"
    /\ server' = "busy" /\ held' = Pending
    /\ UNCHANGED <<port, memory, shift, now, check, report>>

EndOther ==
    /\ server = "busy"
    /\ server' = "idle"
    /\ UNCHANGED <<port, memory, shift, now, check, held, report>>

\* The check's connection is accepted and the router reads the clock.
TakeCheck ==
    /\ engine = "listening" /\ server = "idle" /\ Pending
    /\ server' = "health" /\ now' = 0
    /\ UNCHANGED <<port, memory, shift, check, held, report>>

\* now - last_tick, in unsigned arithmetic: a tick stamped after the router's now wraps.
Elapsed == (last_tick_ms - now) % Wrap

\* Mutant: the threshold is in units twice as long.
StaleInPairs == last_tick_ms # Never /\ Elapsed \div 2 > Threshold

Stale == last_tick_ms # Never /\ Elapsed > Threshold

Answer ==
    /\ server = "health"
    /\ server' = "idle" /\ now' = Never
    /\ report' = IF Stale THEN 503 ELSE 200
    /\ check' = Never /\ held' = FALSE
    /\ UNCHANGED <<port, memory, shift>>

-----------------------------------------------------------------------------
(* Another process on the same port *)

OtherListens ==
    /\ ~other /\ engine # "listening"
    /\ other' = TRUE
    /\ UNCHANGED <<engine, memory, shift, server, now, check, held, report>>

\* A second engine answers of its own ticks.
OtherAnswers ==
    /\ other /\ Pending
    /\ check' = Never /\ report' \in {200, 503}
    /\ UNCHANGED <<port, memory, shift, server, now, held>>

OtherLeaves ==
    /\ other
    /\ other' = FALSE
    /\ check' = Never /\ report' = IF Pending THEN 0 ELSE report
    /\ UNCHANGED <<engine, memory, shift, server, now, held>>

-----------------------------------------------------------------------------
(* The timer and healthcheck.sh *)

Ask ==
    /\ ~Pending
    /\ check' = 0 /\ held' = (server = "busy")
    /\ UNCHANGED <<port, memory, shift, server, now, report>>

\* Mutant: curl without its -m option.
WaitsForEver == FALSE

GivesUp == check = CheckTimeout

\* Refused, or not answered in time; an answer that comes later goes nowhere.
NoAnswer ==
    /\ Pending
    /\ (engine # "listening" /\ ~other) \/ GivesUp
    /\ check' = Never /\ held' = FALSE
    /\ report' = 0
    /\ server' = IF server = "health" THEN "idle" ELSE server
    /\ now' = Never
    /\ UNCHANGED <<port, memory, shift>>

-----------------------------------------------------------------------------
(* Time *)

\* Threads pause for at most MaxDelay, curl gives up in time, and an idle server or a port
\* nobody listens on does not let a request wait (the server is idle while not listening).
TimePasses ==
    /\ \A f \in Feeds : stamp[f] = Never \/ stamp[f] < MaxDelay
    /\ now = Never \/ now < MaxDelay
    /\ Pending => check < CheckTimeout /\ (other \/ server # "idle")
    /\ last_tick_ms' = Older(last_tick_ms, 1)
    /\ stamp' = [f \in Feeds |-> Older(stamp[f], 1)]
    /\ since' = Older(since, 1)
    /\ now' = Older(now, 1) /\ check' = Older(check, 1)
    /\ UNCHANGED <<port, shift, server, held, report>>

\* now_ms is the system clock: somebody sets it. Not within the short steps above.
SetClock ==
    /\ \A f \in Feeds : stamp[f] = Never
    /\ server # "health"
    /\ \E s \in 0..MaxShift :
        /\ shift' = s
        /\ last_tick_ms' = Older(last_tick_ms, shift - s)
    /\ UNCHANGED <<port, stamp, since, server, now, check, held, report>>

-----------------------------------------------------------------------------
Elsewhere == OtherListens \/ OtherAnswers \/ OtherLeaves
Control == TakeOther \/ EndOther \/ TakeCheck \/ Answer
Checker == Ask \/ NoAnswer
Feed(f) == ReadClock(f) \/ StoreTick(f)

Next ==
    \/ Start \/ Bind \/ Die
    \/ \E f \in Feeds : Feed(f)
    \/ Control
    \/ Checker
    \/ Elsewhere
    \/ TimePasses
    \/ SetClock

\* Time passes, the timer fires, started steps go on; connections are accepted in their order.
Fairness ==
    /\ WF_vars(TimePasses) /\ WF_vars(Bind)
    /\ WF_vars(Ask) /\ WF_vars(NoAnswer)
    /\ SF_vars(TakeCheck) /\ WF_vars(Answer)
    /\ \A f \in Feeds : WF_vars(StoreTick(f))

HealthSpec == Init /\ [][Next]_vars /\ Fairness

-----------------------------------------------------------------------------
(* Properties *)

CheckEnds == Pending /\ check' = Never
Tolerance == MaxDelay + MaxShift

\* When no other process has the port, an engine that has had a tick and of which a check reports
\* 200 has had one within the threshold, give or take a thread's pause and what the clock was set
\* back: no order of the two feeds' stores, of the router's two reads and of restarts hides
\* silence (control_api_router.cpp:16, runtime_loop.cpp:10).
HealthyMeansRecent ==
    [][CheckEnds /\ report' = 200 /\ ~other => since = Never \/ since <= Threshold + Tolerance]_vars

\* An alarm has a cause: ticks stopped, or one was stamped after the router read the clock (the
\* subtraction wraps), or another process answered, or the engine does not listen, or its only
\* control thread was held by another request. An engine that has had no tick yet is no cause
\* (control_api_router.cpp:18, local_http_server.cpp:40).
AlarmsExplained ==
    [][CheckEnds =>
        /\ report' = 503 /\ ~other =>
            /\ since # Never
            /\ last_tick_ms < now \/ since + Tolerance > Threshold
        /\ report' = 0 => engine # "listening" \/ engine' = "down" \/ held]_vars

\* An engine that stays down, cannot be reached, is held by one client, or has no more ticks, is
\* reported by every check in the end, unless another process has the port: its answer, to a bind
\* that failed and was not told, hides the trouble (healthcheck.sh:16, local_http_server.cpp:37).
Trouble ==
    \/ engine \in {"down", "deaf"}
    \/ server = "busy"
    \/ since = Cap
TroubleReported == <>[](Trouble /\ ~other) => <>[](report # 200)
=============================================================================
