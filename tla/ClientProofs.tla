---------------------------- MODULE ClientProofs ----------------------------
(* Proofs about QtClient: for any ratios typed, any number of requests under  *)
(* way and of inputs, and however replies overtake each other.                *)
EXTENDS QtClient, FoldLemmas

SamePlace(q, r) == q.route = r.route /\ q.slot = r.slot

Reply == [route: Routes, slot: Slots, value: Nat, code: Nat]

\* A place holds a request or the reply to it, and one of them.
PlacesInv ==
    /\ asked \subseteq Request /\ answered \subseteq Reply
    /\ IsFiniteSet(asked)
    /\ \A q, r \in asked : SamePlace(q, r) => q = r
    /\ \A a, b \in answered : SamePlace(a, b) => a = b
    /\ \A q \in asked, a \in answered : ~SamePlace(q, a)

\* What the screen shows.
ScreenInv ==
    /\ client \in {"off", "on", "crashed"} /\ page \in Pages
    /\ ratio \in Nat /\ banner \in BOOLEAN /\ rows \in 0..MaxRows

\* A start may put any of the known limits in force again.
LimitsInv == inForce \in known /\ known \subseteq {n \in Nat : Accepts(n)}

\* Limits on their way to the form have been in force.
BodiesInv ==
    \A a \in answered : a.route = "limits" /\ Ok(a.code) => a.value \in {Shown(n) : n \in known}

Orders(requests) == {q \in requests : q.route = "order"}

\* Each order confirmed is taken once at most: it is under way until then.
OrdersInv ==
    /\ taken \in Nat /\ confirmed \in Nat
    /\ taken + Cardinality(Orders(asked)) <= confirmed

\* The inductive invariant.
ClientInv == PlacesInv /\ ScreenInv /\ LimitsInv /\ BodiesInv /\ OrdersInv /\ FormNeverJunk

-----------------------------------------------------------------------------
(* The least of a set of natural numbers is one of them.                      *)
LEMMA LeastIn ==
    ASSUME NEW S, S \subseteq Nat, S # {} PROVE Min(S) \in S
BY LeastNat DEF Min

(* The greatest of some of these powers of ten is one of them.                *)
LEMMA GreatestIn ==
    ASSUME NEW S, 1 \in S, \A y \in S : y = 1 \/ y = 10 \/ y = 100 \/ y = 1000
    PROVE  Max(S) \in S
<1>1. \E x \in S : \A y \in S : x >= y
  <2>1. CASE 1000 \in S
    BY <2>1, SMT
  <2>2. CASE 1000 \notin S /\ 100 \in S
    BY <2>2, SMT
  <2>3. CASE 1000 \notin S /\ 100 \notin S /\ 10 \in S
    BY <2>3, SMT
  <2>4. CASE 1000 \notin S /\ 100 \notin S /\ 10 \notin S
    BY <2>4, SMT
  <2> QED BY <2>1, <2>2, <2>3, <2>4, SMT
<1> QED BY <1>1 DEF Max

(* What the buttons post has a route of its own.                              *)
LEMMA Posts == "apply" \in Routes /\ "order" \in Routes
<1> DEFINE polled == UNION {Polled[p] : p \in Pages}
<1>1. Routes = polled \union {"apply", "order"}
  BY DEF Routes
<1> HIDE DEF polled
<1> QED BY <1>1

(* What is posted and read back is a number.                                  *)
LEMMA ParsedNat ==
    ASSUME NEW n \in Nat PROVE Parsed(n) \in Nat
<1>1. CASE n \in 1..9999
  <2> DEFINE powers == {d \in {1, 10, 100, 1000} : d <= n}
             top == Max(powers)
  <2>1. 1 \in powers /\ \A y \in powers : y = 1 \/ y = 10 \/ y = 100 \/ y = 1000
    BY <1>1, SMT
  <2>2. top = 1 \/ top = 10 \/ top = 100 \/ top = 1000
    <3> HIDE DEF powers
    <3> QED BY <2>1, GreatestIn
  <2>3. Dropped(n) = One \div top
    BY DEF Dropped
  <2> HIDE DEF top
  <2>4. Dropped(n) \in Nat
    BY <2>2, <2>3, SMT DEF One
  <2> QED BY <1>1, <2>4, SMT DEF Parsed
<1>2. CASE n \notin 1..9999
  BY <1>2, SMT DEF Parsed
<1> QED BY <1>1, <1>2

(* So is what is printed and shown.                                           *)
LEMMA ShownNat ==
    ASSUME NEW n \in Nat PROVE Shown(n) \in Nat
BY DEF Shown

(* The orders among finitely many requests are one more, one less or the same *)
(* when a request comes or goes.                                              *)
LEMMA OrdersCounted ==
    ASSUME IsFiniteSet(asked)
    PROVE  /\ IsFiniteSet(Orders(asked)) /\ Cardinality(Orders(asked)) \in Nat
           /\ \A q : q \notin asked /\ q.route = "order" =>
                 Cardinality(Orders(asked \union {q})) = Cardinality(Orders(asked)) + 1
           /\ \A q \in asked : q.route = "order" =>
                 Cardinality(Orders(asked \ {q})) = Cardinality(Orders(asked)) - 1
           /\ \A q : q.route # "order" =>
                 /\ Orders(asked \ {q}) = Orders(asked)
                 /\ Orders(asked \union {q}) = Orders(asked)
<1>1. IsFiniteSet(Orders(asked))
  <2>1. Orders(asked) \subseteq asked
    BY DEF Orders
  <2> QED BY <2>1, FS_Subset
<1>2. Cardinality(Orders(asked)) \in Nat
  BY <1>1, FS_CardinalityType
<1>3. ASSUME NEW q, q \notin asked, q.route = "order"
      PROVE  Cardinality(Orders(asked \union {q})) = Cardinality(Orders(asked)) + 1
  <2>1. Orders(asked \union {q}) = Orders(asked) \union {q} /\ q \notin Orders(asked)
    BY <1>3 DEF Orders
  <2> QED BY <1>1, <2>1, FS_AddElement
<1>4. ASSUME NEW q \in asked, q.route = "order"
      PROVE  Cardinality(Orders(asked \ {q})) = Cardinality(Orders(asked)) - 1
  <2>1. Orders(asked \ {q}) = Orders(asked) \ {q} /\ q \in Orders(asked)
    BY <1>4 DEF Orders
  <2> QED BY <1>1, <2>1, FS_RemoveElement
<1>5. ASSUME NEW q, q.route # "order"
      PROVE  /\ Orders(asked \ {q}) = Orders(asked)
             /\ Orders(asked \union {q}) = Orders(asked)
  BY <1>5 DEF Orders
<1> QED BY <1>1, <1>2, <1>3, <1>4, <1>5

(* A request goes to a place of its own; an order under way counts for one    *)
(* more.                                                                      *)
LEMMA SendKeeps ==
    ASSUME PlacesInv, NEW route \in Routes, NEW value \in Nat, Send(route, value)
    PROVE  /\ PlacesInv' /\ answered' = answered
           /\ route # "order" => Orders(asked') = Orders(asked)
           /\ route = "order" => Cardinality(Orders(asked')) = Cardinality(Orders(asked)) + 1
<1> DEFINE slot == Min(FreeSlots(route))
           q == [route |-> route, slot |-> slot, value |-> value]
<1>1. slot \in FreeSlots(route)
  <2>1. FreeSlots(route) \subseteq Nat /\ FreeSlots(route) # {}
    BY DEF Send, FreeSlots, Slots
  <2> QED BY <2>1, LeastIn
<1>2. asked' = asked \union {q} /\ answered' = answered
  BY DEF Send
<1> HIDE DEF slot
<1>3. q \in Request
  BY <1>1 DEF Request, FreeSlots
<1>4. \A r \in asked \union answered : ~SamePlace(q, r)
  BY <1>1 DEF FreeSlots, SamePlace
<1>5. SamePlace(q, q) /\ q.route = route
  BY DEF SamePlace
<1>6. q \notin asked
  BY <1>4, <1>5
<1> HIDE DEF q
<1>7. \A r \in asked \union answered : ~SamePlace(r, q)
  BY <1>4 DEF SamePlace
<1>8. IsFiniteSet(asked')
  BY <1>2, FS_AddElement DEF PlacesInv
<1>9. PlacesInv'
  BY <1>2, <1>3, <1>4, <1>7, <1>8 DEF PlacesInv
<1>10. IsFiniteSet(asked)
  BY DEF PlacesInv
<1> QED BY <1>2, <1>5, <1>6, <1>9, <1>10, OrdersCounted

(* A reply takes the place of its request; of orders under way there is one   *)
(* less when it answers one. A body shows limits in force.                    *)
LEMMA RepliedKeeps ==
    ASSUME ClientInv, NEW q \in asked, NEW code \in Nat, Replied(q, code),
           known \subseteq known'
    PROVE  /\ PlacesInv' /\ BodiesInv'
           /\ q.route # "order" => Orders(asked') = Orders(asked)
           /\ q.route = "order" => Cardinality(Orders(asked')) = Cardinality(Orders(asked)) - 1
<1> USE DEF ClientInv
<1> DEFINE a == [route |-> q.route, slot |-> q.slot, value |-> Body(q, code), code |-> code]
<1>1. asked' = asked \ {q} /\ answered' = answered \union {a}
  BY DEF Replied
<1>2. q \in Request
  BY DEF PlacesInv
<1>3. Body(q, code) \in Nat
  BY <1>2, ShownNat DEF Body, Request, LimitsInv
<1>4. a \in Reply
  BY <1>2, <1>3 DEF Reply, Request
<1>5. a.route = "limits" /\ Ok(a.code) => a.value \in {Shown(n) : n \in known}
  BY DEF Body, LimitsInv
<1>6. \A r : (SamePlace(r, a) <=> SamePlace(r, q)) /\ (SamePlace(a, r) <=> SamePlace(q, r))
  BY DEF SamePlace
<1> HIDE DEF a
<1>7. IsFiniteSet(asked')
  BY <1>1, FS_RemoveElement DEF PlacesInv
<1>8. \A r \in answered : ~SamePlace(a, r) /\ ~SamePlace(r, a)
  BY <1>6 DEF PlacesInv, SamePlace
<1>9. \A r \in asked' : ~SamePlace(r, a)
  BY <1>1, <1>6 DEF PlacesInv
<1>10. PlacesInv'
  BY <1>1, <1>4, <1>7, <1>8, <1>9 DEF PlacesInv
<1>11. BodiesInv'
  BY <1>1, <1>5 DEF BodiesInv
<1>12. IsFiniteSet(asked)
  BY DEF PlacesInv
<1> QED BY <1>1, <1>10, <1>11, <1>12, OrdersCounted

(* Handling a request puts in force what the engine accepts.                  *)
LEMMA EffectKeeps ==
    ASSUME LimitsInv, NEW q \in Request, Effect(q)
    PROVE  /\ LimitsInv' /\ known \subseteq known'
           /\ taken' = IF q.route = "order" THEN taken + 1 ELSE taken
<1>1. q.value \in Nat
  BY DEF Request
<1>2. Parsed(q.value) \in Nat
  BY <1>1, ParsedNat
<1>3. CASE q.route = "apply" /\ Accepts(Parsed(q.value))
  <2>1. inForce' = Parsed(q.value) /\ known' = known \union {Parsed(q.value)}
    BY <1>3 DEF Effect
  <2>2. taken' = IF q.route = "order" THEN taken + 1 ELSE taken
    BY DEF Effect
  <2> QED BY <1>2, <1>3, <2>1, <2>2 DEF LimitsInv
<1>4. CASE ~(q.route = "apply" /\ Accepts(Parsed(q.value)))
  <2>1. UNCHANGED <<inForce, known>> /\ taken' = IF q.route = "order" THEN taken + 1 ELSE taken
    BY <1>4, Zenon DEF Effect
  <2> QED BY <2>1 DEF LimitsInv
<1> QED BY <1>3, <1>4

(* An order is taken by the request that stops being under way.               *)
LEMMA ServedKeeps ==
    ASSUME ClientInv, NEW q \in asked, NEW code \in Nat, Effect(q), Replied(q, code),
           UNCHANGED <<page, client, screen, confirmed>>
    PROVE  ClientInv'
<1>1. q \in Request
  BY DEF ClientInv, PlacesInv
<1>2. /\ LimitsInv' /\ known \subseteq known'
      /\ taken' = IF q.route = "order" THEN taken + 1 ELSE taken
  BY <1>1, EffectKeeps DEF ClientInv
<1>3. PlacesInv' /\ BodiesInv'
  BY <1>2, RepliedKeeps
<1>4. OrdersInv'
  <2> DEFINE n == Cardinality(Orders(asked))
             m == Cardinality(Orders(asked'))
  <2>1. n \in Nat /\ (q.route # "order" => m = n) /\ (q.route = "order" => m = n - 1)
    BY <1>2, RepliedKeeps, OrdersCounted DEF ClientInv, PlacesInv
  <2>2. taken \in Nat /\ confirmed \in Nat /\ taken + n <= confirmed /\ confirmed' = confirmed
    BY DEF ClientInv, OrdersInv
  <2> HIDE DEF n, m
  <2>3. taken' \in Nat /\ taken' + m <= confirmed'
    BY <1>2, <2>1, <2>2
  <2> QED BY <2>2, <2>3 DEF OrdersInv, m
<1>5. ScreenInv' /\ FormNeverJunk'
  BY <1>2 DEF ClientInv, ScreenInv, FormNeverJunk, screen
<1> QED BY <1>2, <1>3, <1>4, <1>5 DEF ClientInv

-----------------------------------------------------------------------------
(* Initially the form shows its default and nothing is under way.             *)
LEMMA ClientInvInit == ClientInit => ClientInv
<1> SUFFICES ASSUME ClientInit PROVE ClientInv
  OBVIOUS
<1>1. PlacesInv
  BY FS_EmptySet DEF ClientInit, PlacesInv
<1>2. ScreenInv
  <2>1. 0 \in 0..MaxRows
    BY ClientBoundsAssumption
  <2> QED BY <2>1, RatiosAssumption DEF ClientInit, ScreenInv
<1>3. LimitsInv /\ BodiesInv
  BY RatiosAssumption DEF ClientInit, LimitsInv, BodiesInv
<1>4. OrdersInv
  <2>1. Orders(asked) = {} /\ taken = 0 /\ confirmed = 0
    BY DEF ClientInit, Orders
  <2> QED BY <2>1, FS_EmptySet DEF OrdersInv
<1>5. FormNeverJunk
  BY DEF ClientInit, FormNeverJunk
<1> QED BY <1>1, <1>2, <1>3, <1>4, <1>5 DEF ClientInv

(* A request that is no order is sent and nothing else changes but the inputs. *)
LEMMA SendOnly ==
    ASSUME ClientInv, NEW route \in Routes, route # "order", NEW value \in Nat,
           Send(route, value), UNCHANGED <<page, client, screen, engine, confirmed>>
    PROVE  ClientInv'
<1>1. PlacesInv' /\ answered' = answered /\ Orders(asked') = Orders(asked)
  BY SendKeeps DEF ClientInv
<1> QED BY <1>1 DEF ClientInv, ScreenInv, LimitsInv, BodiesInv, OrdersInv, FormNeverJunk, screen, engine,
                    Accepts

(* The order button.                                                          *)
LEMMA ConfirmKeeps ==
    ASSUME ClientInv, ConfirmOrder
    PROVE  ClientInv'
<1>1. /\ Send("order", 0) /\ confirmed' = confirmed + 1
      /\ UNCHANGED <<page, client, screen, engine>>
  BY DEF ConfirmOrder
<1>2. "order" \in Routes
  BY Posts
<1>3. /\ PlacesInv' /\ answered' = answered
      /\ Cardinality(Orders(asked')) = Cardinality(Orders(asked)) + 1
  BY <1>1, <1>2, SendKeeps DEF ClientInv
<1>4. OrdersInv'
  <2> DEFINE n == Cardinality(Orders(asked))
  <2>1. n \in Nat
    BY OrdersCounted DEF ClientInv, PlacesInv
  <2>2. taken \in Nat /\ confirmed \in Nat /\ taken + n <= confirmed /\ taken' = taken
    BY <1>1 DEF ClientInv, OrdersInv, engine
  <2> HIDE DEF n
  <2>3. confirmed' \in Nat /\ taken' + (n + 1) <= confirmed'
    BY <1>1, <2>1, <2>2
  <2> QED BY <1>3, <2>2, <2>3 DEF OrdersInv, n
<1>5. ScreenInv' /\ LimitsInv' /\ BodiesInv' /\ FormNeverJunk'
  BY <1>1, <1>3 DEF ClientInv, ScreenInv, LimitsInv, BodiesInv, FormNeverJunk, screen, engine, Accepts
<1> QED BY <1>3, <1>4, <1>5 DEF ClientInv

(* A reply changes the screen of its page; a form takes over limits that have *)
(* been in force.                                                             *)
LEMMA DeliverKeeps ==
    ASSUME ClientInv, NEW a \in answered, Deliver(a)
    PROVE  ClientInv'
<1>1. /\ asked' = asked /\ answered' = answered \ {a}
      /\ UNCHANGED <<page, client, engine, users>>
      /\ ratio' = RatioAfter(a) /\ banner' = BannerAfter(a) /\ rows' = RowsAfter(a)
  BY DEF Deliver, SentAfter
<1>2. PlacesInv' /\ BodiesInv'
  BY <1>1 DEF ClientInv, PlacesInv, BodiesInv, engine
<1>3. LimitsInv' /\ OrdersInv'
  BY <1>1 DEF ClientInv, LimitsInv, OrdersInv, engine, users, Accepts
<1>4. ratio' \in Nat /\ FormNeverJunk'
  <2>1. a.value \in Nat
    BY DEF ClientInv, PlacesInv, Reply
  <2> QED BY <1>1, <2>1 DEF RatioAfter, ClientInv, BodiesInv, ScreenInv, FormNeverJunk, engine
<1>5. rows' \in 0..MaxRows
  <2> DEFINE S == {rows + 1, MaxRows}
  <2>1. rows \in 0..MaxRows /\ MaxRows \in Nat
    BY ClientBoundsAssumption DEF ClientInv, ScreenInv
  <2>2. S \subseteq Nat /\ S # {}
    BY <2>1
  <2>3. PICK m \in S : \A k \in S : m <= k
    <3> HIDE DEF S
    <3> QED BY <2>2, LeastNat
  <2>4. Min(S) \in S /\ \A k \in S : Min(S) <= k
    BY <2>3 DEF Min
  <2>5. Min(S) \in 0..MaxRows
    <3> DEFINE least == Min(S)
    <3>1. (least = rows + 1 \/ least = MaxRows) /\ least <= MaxRows
      BY <2>4
    <3> HIDE DEF least, S
    <3>2. least \in 0..MaxRows
      BY <2>1, <3>1
    <3> QED BY <3>2 DEF least
  <2>6. rows' = rows \/ rows' = Min(S)
    BY <1>1 DEF RowsAfter
  <2> HIDE DEF S
  <2> QED BY <2>1, <2>5, <2>6
<1>6. banner' \in BOOLEAN
  BY <1>1 DEF BannerAfter, ClientInv, ScreenInv
<1>7. ScreenInv'
  BY <1>1, <1>4, <1>5, <1>6 DEF ClientInv, ScreenInv
<1> QED BY <1>2, <1>3, <1>4, <1>7 DEF ClientInv

(* Every step keeps the invariant.                                            *)
LEMMA ClientInvNext == ClientInv /\ [ClientNext]_clientVars => ClientInv'
<1> SUFFICES ASSUME ClientInv, [ClientNext]_clientVars PROVE ClientInv'
  OBVIOUS
<1> USE DEF ClientInv
<1>1. CASE Launch
  BY <1>1 DEF Launch, PlacesInv, ScreenInv, LimitsInv, BodiesInv, OrdersInv, FormNeverJunk, screen,
              engine, users, Accepts
<1>2. CASE \E route \in Routes : Poll(route)
  <2>1. PICK route \in Routes : Poll(route)
    BY <1>2
  <2>2. route # "order"
    BY <2>1 DEF Poll, Polled, ScreenInv, Pages
  <2> QED BY <2>1, <2>2, SendOnly DEF Poll, users
<1>3. CASE \E n \in Typed \union {FormDefault} : Edit(n)
  <2>1. PICK n \in Typed \union {FormDefault} : Edit(n)
    BY <1>3
  <2>2. ratio' = n /\ n \in Nat
    BY <2>1, RatiosAssumption DEF Edit
  <2> QED BY <2>1, <2>2 DEF Edit, PlacesInv, ScreenInv, LimitsInv, BodiesInv, OrdersInv, FormNeverJunk,
                            engine, Accepts
<1>4. CASE Apply
  <2>1. "apply" \in Routes
    BY Posts
  <2>2. "apply" # "order" /\ ratio \in Nat
    BY DEF ScreenInv
  <2> QED BY <1>4, <2>1, <2>2, SendOnly DEF Apply
<1>5. CASE ConfirmOrder
  BY <1>5, ConfirmKeeps
<1>6. CASE \E n \in Typed : ApplyElsewhere(n)
  <2>1. PICK n \in Typed : ApplyElsewhere(n)
    BY <1>6
  <2>2. n \in Nat
    BY RatiosAssumption
  <2> QED BY <2>1, <2>2 DEF ApplyElsewhere, PlacesInv, ScreenInv, LimitsInv, BodiesInv, OrdersInv,
                            FormNeverJunk, screen
<1>7. CASE EngineDies
  <2>1. CASE UNCHANGED <<asked, answered, inForce, known, taken>>
    BY <1>7, <2>1 DEF EngineDies, PlacesInv, ScreenInv, LimitsInv, BodiesInv, OrdersInv, FormNeverJunk,
                      screen, users, Accepts
  <2>2. CASE \E q \in asked : Effect(q) /\ Replied(q, 0)
    BY <1>7, <2>2, ServedKeeps DEF EngineDies, users
  <2> QED BY <1>7, <2>1, <2>2 DEF EngineDies
<1>8. CASE EngineStarts
  BY <1>8 DEF EngineStarts, PlacesInv, ScreenInv, LimitsInv, BodiesInv, OrdersInv, FormNeverJunk,
              screen, users
<1>9. CASE \E route \in Routes, slot \in Slots : AnswerAt(route, slot) \/ DeliverAt(route, slot)
  <2>1. CASE \E q \in asked : Serve(q)
    <3>1. PICK q \in asked : Serve(q)
      BY <2>1
    <3>2. PICK stale \in BOOLEAN : Replied(q, Code(q, stale))
      BY <3>1 DEF Serve
    <3>3. Code(q, stale) \in Nat
      BY DEF Code
    <3> QED BY <3>1, <3>2, <3>3, ServedKeeps DEF Serve, users
  <2>2. CASE \E q \in asked : Refuse(q)
    <3>1. PICK q \in asked : Refuse(q)
      BY <2>2
    <3>2. PlacesInv' /\ BodiesInv'
      BY <3>1, RepliedKeeps DEF Refuse, engine
    <3>3. OrdersInv'
      <4> DEFINE n == Cardinality(Orders(asked))
                 m == Cardinality(Orders(asked'))
      <4>1. Replied(q, 0) /\ known \subseteq known' /\ taken' = taken /\ confirmed' = confirmed
        BY <3>1 DEF Refuse, engine, users
      <4>2. n \in Nat /\ (q.route # "order" => m = n) /\ (q.route = "order" => m = n - 1)
        BY <4>1, RepliedKeeps, OrdersCounted DEF PlacesInv
      <4>3. taken \in Nat /\ confirmed \in Nat /\ taken + n <= confirmed
        BY DEF OrdersInv
      <4> HIDE DEF n, m
      <4>4. taken + m <= confirmed
        BY <4>2, <4>3
      <4> QED BY <4>1, <4>3, <4>4 DEF OrdersInv, m
    <3> QED BY <3>1, <3>2, <3>3 DEF Refuse, ScreenInv, LimitsInv, FormNeverJunk, screen, engine, Accepts
  <2>3. CASE \E a \in answered : Deliver(a)
    BY <2>3, DeliverKeeps
  <2> QED BY <1>9, <2>1, <2>2, <2>3 DEF AnswerAt, DeliverAt, At
<1>10. CASE UNCHANGED clientVars
  BY <1>10 DEF clientVars, PlacesInv, ScreenInv, LimitsInv, BodiesInv, OrdersInv, FormNeverJunk,
               screen, engine, users, Accepts
<1> QED BY <1>1, <1>2, <1>3, <1>4, <1>5, <1>6, <1>7, <1>8, <1>9, <1>10 DEF ClientNext

(* The invariant gives the properties of the runs.                            *)
LEMMA ClientInvTells == ClientInv => ClientTypeOK /\ OrdersConfirmed
<1> SUFFICES ASSUME ClientInv PROVE ClientTypeOK /\ OrdersConfirmed
  OBVIOUS
<1> USE DEF ClientInv
<1>1. \A q, r \in asked \union answered : q.route = r.route /\ q.slot = r.slot => q = r
  BY DEF PlacesInv, SamePlace
<1>2. ClientTypeOK
  BY <1>1 DEF PlacesInv, ScreenInv, LimitsInv, ClientTypeOK
<1>3. OrdersConfirmed
  <2> DEFINE n == Cardinality(Orders(asked))
  <2>1. n \in Nat /\ taken \in Nat /\ confirmed \in Nat /\ taken + n <= confirmed
    BY OrdersCounted DEF PlacesInv, OrdersInv
  <2> HIDE DEF n
  <2>2. taken <= confirmed
    BY <2>1
  <2> QED BY <2>2 DEF OrdersConfirmed
<1> QED BY <1>2, <1>3

-----------------------------------------------------------------------------
(* Variables keep their types, tables their size, and requests of a route     *)
(* their places, whatever number of them is under way (api_client.cpp).       *)
THEOREM ClientTypeCorrect == ClientSpec => []ClientTypeOK
<1>1. ClientInv => ClientTypeOK
  BY ClientInvTells
<1> QED BY ClientInvInit, ClientInvNext, <1>1, PTL DEF ClientSpec

(* The strategy page's form shows its default, what a user typed, or limits   *)
(* that have been in force, to six decimals (strategy_page.cpp).              *)
THEOREM FormShowsNoJunk == ClientSpec => []FormNeverJunk
<1>1. ClientInv => FormNeverJunk
  BY DEF ClientInv
<1> QED BY ClientInvInit, ClientInvNext, <1>1, PTL DEF ClientSpec

(* Engines that die and requests that fail never make an order be taken       *)
(* twice: orders taken do not exceed orders confirmed (trading_page.cpp).     *)
THEOREM OrdersTakenOnce == ClientSpec => []OrdersConfirmed
<1>1. ClientInv => OrdersConfirmed
  BY ClientInvTells
<1> QED BY ClientInvInit, ClientInvNext, <1>1, PTL DEF ClientSpec
=============================================================================
