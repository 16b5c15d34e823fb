---------------------------- MODULE OrderProofs ----------------------------
(* Proofs about the path of an order for every value of the constants. First  *)
(* TradingCore: types, decisions, the risk limits, the position as the sum of *)
(* the ledger, and the refinement of OrderGate. Then OrderApi: what reaches   *)
(* the exchange and the cache, through crashes, lost replies and cancels.     *)
EXTENDS OrderApi, FoldLemmas, SequenceTheorems

----------------------------------------------------------------------------
(* A request is priced either by its own limit or by the last tick, so the    *)
(* record it makes has the type of a record.                                  *)
LEMMA NewOrderType ==
    ASSUME TypeOK, NEW req \in Requests
    PROVE  /\ NewOrder(req) \in OrderRecord
           /\ NewOrder(req).status = "New"
           /\ NewOrder(req).reason = "None"
           /\ NewOrder(req).ref = RefPrice(req)
           /\ NewOrder(req).side = req.side
BY DEF TypeOK, NewOrder, RefPrice, RefPrices, Requests, OrderRecord, Statuses, Reasons, Sides,
       Types

(* Quantities and prices are natural numbers.                                 *)
LEMMA QtyNat == \A qty \in Qtys : qty \in Nat
BY QtysAssumption

(* So are the prices an order may be valued at, and 0 stands for no price.    *)
LEMMA PriceNat == \A price \in RefPrices : price \in Nat
BY PricesAssumption, LimitPricesAssumption DEF RefPrices

(* The notional of an order is a natural number.                              *)
LEMMA NotionalType ==
    ASSUME NEW order \in OrderRecord
    PROVE  Notional(order) \in Nat
<1>1. order.qty \in Qtys /\ order.ref \in RefPrices
  BY DEF OrderRecord
<1>2. order.qty \in Nat /\ order.ref \in Nat
  BY <1>1, QtyNat, PriceNat
<1>3. \A a, b \in Nat : a * b \in Nat
  OBVIOUS
<1> QED BY <1>3, <1>2 DEF Notional

(* What decides a fresh order: the map gains the next number, with the        *)
(* decision, and keeps every other record.                                    *)
LEMMA RejectNew ==
    ASSUME TypeOK, NEW order \in OrderRecord, order.status = "New", NEW why \in Reasons
    PROVE  OmsReject(OmsSubmit(orders, seq + 1, order), seq + 1, why) =
             [i \in 1..(seq + 1) |->
                IF i = seq + 1 THEN [order EXCEPT !.status = "Rejected", !.reason = why]
                               ELSE orders[i]]
<1>1. seq \in Nat /\ DOMAIN orders = 1..seq /\ seq + 1 \notin DOMAIN orders
  BY MaxSeqAssumption DEF TypeOK
<1>2. (1..seq) \union {seq + 1} = 1..(seq + 1)
  BY <1>1
<1> DEFINE m == OmsSubmit(orders, seq + 1, order)
<1>3. m = [i \in 1..(seq + 1) |-> IF i = seq + 1 THEN order ELSE orders[i]]
  BY <1>1, <1>2 DEF OmsSubmit
<1>4. seq + 1 \in DOMAIN m /\ m[seq + 1] = order
  BY <1>1, <1>3
<1> HIDE DEF m
<1>5. OmsReject(m, seq + 1, why) =
        [m EXCEPT ![seq + 1].status = "Rejected", ![seq + 1].reason = why]
  BY <1>4 DEF OmsReject
<1>6. [m EXCEPT ![seq + 1].status = "Rejected", ![seq + 1].reason = why] =
        [i \in 1..(seq + 1) |->
           IF i = seq + 1 THEN [order EXCEPT !.status = "Rejected", !.reason = why]
                          ELSE orders[i]]
  BY <1>1, <1>3, <1>4 DEF OrderRecord
<1> QED BY <1>5, <1>6 DEF m

(* The same for an order that is accepted.                                    *)
LEMMA AcceptNew ==
    ASSUME TypeOK, NEW order \in OrderRecord, order.status = "New"
    PROVE  OmsAccept(OmsSubmit(orders, seq + 1, order), seq + 1) =
             [i \in 1..(seq + 1) |->
                IF i = seq + 1 THEN [order EXCEPT !.status = "Accepted"] ELSE orders[i]]
<1>1. seq \in Nat /\ DOMAIN orders = 1..seq /\ seq + 1 \notin DOMAIN orders
  BY MaxSeqAssumption DEF TypeOK
<1>2. (1..seq) \union {seq + 1} = 1..(seq + 1)
  BY <1>1
<1> DEFINE m == OmsSubmit(orders, seq + 1, order)
<1>3. m = [i \in 1..(seq + 1) |-> IF i = seq + 1 THEN order ELSE orders[i]]
  BY <1>1, <1>2 DEF OmsSubmit
<1>4. seq + 1 \in DOMAIN m /\ m[seq + 1] = order
  BY <1>1, <1>3
<1> HIDE DEF m
<1>5. OmsAccept(m, seq + 1) = [m EXCEPT ![seq + 1].status = "Accepted"]
  BY <1>4 DEF OmsAccept
<1>6. [m EXCEPT ![seq + 1].status = "Accepted"] =
        [i \in 1..(seq + 1) |->
           IF i = seq + 1 THEN [order EXCEPT !.status = "Accepted"] ELSE orders[i]]
  BY <1>1, <1>3, <1>4
<1> QED BY <1>5, <1>6 DEF m

----------------------------------------------------------------------------
(* Before the first order, whatever limits the configuration file gives,      *)
(* every variable has its type.                                               *)
THEOREM InitType == CoreInit => TypeOK
<1> SUFFICES ASSUME CoreInit PROVE TypeOK
  OBVIOUS
<1>1. 1..0 = {}
  OBVIOUS
<1>2. orders \in [1..seq -> OrderRecord]
  BY <1>1 DEF CoreInit
<1> QED BY <1>2, MaxSeqAssumption DEF CoreInit, TypeOK

(* The order map after each of the three ways a submission ends, from a state *)
(* of the right type.                                                         *)
LEMMA SubmitStep ==
    ASSUME TypeOK, NEW req \in Requests,
           SubmitUnpriced(req) \/ SubmitAccepted(req) \/ SubmitRefused(req)
    PROVE  \E order \in OrderRecord :
             /\ seq' = seq + 1
             /\ seq < MaxSeq
             /\ orders' = [i \in 1..(seq + 1) |-> IF i = seq + 1 THEN order ELSE orders[i]]
             /\ order.side = req.side
             /\ \/ SubmitUnpriced(req) /\ order.status = "Rejected"
                   /\ order.ref = 0 /\ order.reason = "PriceUnavailable"
                \/ SubmitAccepted(req) /\ order.status = "Accepted"
                   /\ order.ref > 0 /\ order.reason = "None"
                   /\ Notional(order) = Notional(NewOrder(req))
                \/ SubmitRefused(req) /\ order.status = "Rejected"
                   /\ order.ref > 0 /\ order.reason \in RiskReasons
<1> DEFINE new == NewOrder(req)
<1>1. /\ new \in OrderRecord /\ new.status = "New" /\ new.reason = "None"
      /\ new.ref = RefPrice(req) /\ new.side = req.side
  BY NewOrderType
<1>2. new.ref \in Nat
  <2>1. new.ref \in RefPrices
    BY <1>1 DEF OrderRecord
  <2> QED BY <2>1, PriceNat
<1> HIDE DEF new
<1>3. CASE SubmitUnpriced(req)
  <2> DEFINE order == [new EXCEPT !.status = "Rejected", !.reason = "PriceUnavailable"]
  <2>1. order \in OrderRecord
    BY <1>1 DEF OrderRecord, Statuses, Reasons
  <2>2. order.ref = 0 /\ order.side = req.side /\ order.status = "Rejected"
        /\ order.reason = "PriceUnavailable"
    BY <1>1, <1>2, <1>3 DEF SubmitUnpriced, OrderRecord
  <2>3. seq' = seq + 1 /\ seq < MaxSeq
    BY <1>3 DEF SubmitUnpriced
  <2>4. orders' = [i \in 1..(seq + 1) |-> IF i = seq + 1 THEN order ELSE orders[i]]
    <3>1. orders' = OmsReject(OmsSubmit(orders, seq + 1, new), seq + 1, "PriceUnavailable")
      BY <1>3, <2>3 DEF SubmitUnpriced, new
    <3>2. "PriceUnavailable" \in Reasons
      BY DEF Reasons
    <3> QED BY <3>1, <3>2, <1>1, RejectNew
  <2> QED BY <1>3, <2>1, <2>2, <2>3, <2>4
<1>4. CASE SubmitAccepted(req)
  <2> DEFINE order == [new EXCEPT !.status = "Accepted"]
  <2>1. order \in OrderRecord
    BY <1>1 DEF OrderRecord, Statuses
  <2>2. order.ref > 0 /\ order.side = req.side /\ order.status = "Accepted"
        /\ order.reason = "None"
    BY <1>1, <1>2, <1>4 DEF SubmitAccepted, OrderRecord
  <2>3. seq' = seq + 1 /\ seq < MaxSeq
    BY <1>4 DEF SubmitAccepted
  <2>4. orders' = [i \in 1..(seq + 1) |-> IF i = seq + 1 THEN order ELSE orders[i]]
    <3>1. orders' = OmsAccept(OmsSubmit(orders, seq + 1, new), seq + 1)
      BY <1>4, <2>3 DEF SubmitAccepted, new
    <3> QED BY <3>1, <1>1, AcceptNew
  <2>5. Notional(order) = Notional(new)
    BY <1>1 DEF Notional, OrderRecord
  <2> QED BY <1>4, <2>1, <2>2, <2>3, <2>4, <2>5 DEF new
<1>5. CASE SubmitRefused(req)
  <2> DEFINE why == CheckPreTrade(new)
             order == [new EXCEPT !.status = "Rejected", !.reason = why]
  <2>0. why \in RiskReasons
    BY <1>5 DEF SubmitRefused, CheckPreTrade, RiskReasons, new
  <2> HIDE DEF why
  <2>1. order \in OrderRecord
    BY <1>1, <2>0 DEF OrderRecord, Statuses, Reasons
  <2>2. order.ref > 0 /\ order.side = req.side /\ order.status = "Rejected"
        /\ order.reason = why
    BY <1>1, <1>2, <1>5 DEF SubmitRefused, OrderRecord
  <2>3. seq' = seq + 1 /\ seq < MaxSeq
    BY <1>5 DEF SubmitRefused
  <2>4. orders' = [i \in 1..(seq + 1) |-> IF i = seq + 1 THEN order ELSE orders[i]]
    <3>1. orders' = OmsReject(OmsSubmit(orders, seq + 1, new), seq + 1, why)
      BY <1>5, <2>3 DEF SubmitRefused, new, why
    <3>2. why \in Reasons
      BY <2>0 DEF Reasons
    <3> QED BY <3>1, <3>2, <1>1, RejectNew
  <2> QED BY <1>5, <2>0, <2>1, <2>2, <2>3, <2>4
<1> QED BY <1>3, <1>4, <1>5

(* A step that is not a submission leaves the numbers given out alone, and an *)
(* order of the map either unchanged or cancelled.                            *)
LEMMA CancelStep ==
    ASSUME TypeOK, NEW id \in 0..MaxSeq, CancelOrder(id)
    PROVE  /\ orders' \in [1..seq -> OrderRecord]
           /\ \/ orders' = orders
              \/ /\ id \in DOMAIN orders
                 /\ orders[id].status = "Accepted"
                 /\ orders' = [orders EXCEPT ![id].status = "Cancelled"]
<1>1. orders \in [1..seq -> OrderRecord]
  BY DEF TypeOK
<1>2. \/ orders' = orders
      \/ /\ id \in DOMAIN orders
         /\ orders[id].status = "Accepted"
         /\ orders' = [orders EXCEPT ![id].status = "Cancelled"]
  BY DEF CancelOrder, OmsCancel
<1>3. ASSUME id \in DOMAIN orders,
             orders' = [orders EXCEPT ![id].status = "Cancelled"]
      PROVE  orders' \in [1..seq -> OrderRecord]
  <2>1. [orders[id] EXCEPT !.status = "Cancelled"] \in OrderRecord
    BY <1>1, <1>3 DEF OrderRecord, Statuses
  <2> QED BY <1>1, <1>3, <2>1
<1> QED BY <1>1, <1>2, <1>3

(* A submission never takes anything off the position.                        *)
LEMMA PositionType ==
    ASSUME TypeOK, NEW req \in Requests,
           SubmitUnpriced(req) \/ SubmitAccepted(req) \/ SubmitRefused(req)
    PROVE  position' \in Nat /\ position' >= position
<1>1. Notional(NewOrder(req)) \in Nat
  BY NewOrderType, NotionalType
<1> QED BY <1>1 DEF SubmitUnpriced, SubmitAccepted, SubmitRefused, PositionAfter, TypeOK

(* Every step of the core keeps the types.                                    *)
LEMMA NextType == TypeOK /\ [CoreNext]_coreVars => TypeOK'
<1> SUFFICES ASSUME TypeOK, [CoreNext]_coreVars PROVE TypeOK'
  OBVIOUS
<1>1. ASSUME NEW price \in Prices, OnTick(price) PROVE TypeOK'
  BY <1>1 DEF OnTick, TypeOK
<1>2. ASSUME NEW req \in Requests,
             SubmitUnpriced(req) \/ SubmitAccepted(req) \/ SubmitRefused(req)
      PROVE  TypeOK'
  <2>1. PICK order \in OrderRecord :
          /\ seq' = seq + 1 /\ seq < MaxSeq
          /\ orders' = [i \in 1..(seq + 1) |-> IF i = seq + 1 THEN order ELSE orders[i]]
    BY <1>2, SubmitStep
  <2>2. seq' \in 0..MaxSeq
    BY <2>1, MaxSeqAssumption DEF TypeOK
  <2>3. orders' \in [1..seq' -> OrderRecord]
    BY <2>1, MaxSeqAssumption DEF TypeOK
  <2>4. position' \in Nat
    BY <1>2, PositionType
  <2>5. last_price' = last_price /\ risk' = risk
    BY <1>2 DEF SubmitUnpriced, SubmitAccepted, SubmitRefused
  <2> QED BY <2>2, <2>3, <2>4, <2>5 DEF TypeOK
<1>3. ASSUME NEW id \in 0..MaxSeq, CancelOrder(id) PROVE TypeOK'
  <2>1. orders' \in [1..seq -> OrderRecord]
    BY <1>3, CancelStep
  <2> QED BY <1>3, <2>1 DEF CancelOrder, TypeOK
<1>4. ASSUME NEW cfg \in ValidRisks, UpdateRiskConfig(cfg) PROVE TypeOK'
  BY <1>4 DEF UpdateRiskConfig, TypeOK
<1>5. CASE UNCHANGED coreVars
  BY <1>5 DEF coreVars, TypeOK
<1> QED BY <1>1, <1>2, <1>3, <1>4, <1>5 DEF CoreNext

(* Every variable keeps its type and the OMS holds a record for each number   *)
(* given out, whatever the orders, ticks and limits.                          *)
THEOREM TypeCorrect == CoreSpec => []TypeOK
BY InitType, NextType, PTL DEF CoreSpec

----------------------------------------------------------------------------
(* Every step of the core leaves its orders decided and explained.            *)
LEMMA SettledStep == TypeOK /\ SettledOrders /\ [CoreNext]_coreVars => SettledOrders'
<1> SUFFICES ASSUME TypeOK, SettledOrders, [CoreNext]_coreVars PROVE SettledOrders'
  OBVIOUS
<1>1. ASSUME UNCHANGED orders PROVE SettledOrders'
  BY <1>1 DEF SettledOrders, Settled
<1>2. ASSUME NEW req \in Requests,
             SubmitUnpriced(req) \/ SubmitAccepted(req) \/ SubmitRefused(req)
      PROVE  SettledOrders'
  <2>1. PICK order \in OrderRecord :
          /\ orders' = [i \in 1..(seq + 1) |-> IF i = seq + 1 THEN order ELSE orders[i]]
          /\ \/ order.status = "Rejected" /\ order.ref = 0
                /\ order.reason = "PriceUnavailable"
             \/ order.status = "Accepted" /\ order.ref > 0 /\ order.reason = "None"
             \/ order.status = "Rejected" /\ order.ref > 0 /\ order.reason \in RiskReasons
    BY <1>2, SubmitStep
  <2>2. Settled(order)
    BY <2>1 DEF Settled
  <2>3. DOMAIN orders = 1..seq /\ seq \in Nat
    BY MaxSeqAssumption DEF TypeOK
  <2>4. \A i \in 1..(seq + 1) : i = seq + 1 \/ i \in 1..seq
    BY <2>3
  <2>5. \A i \in DOMAIN orders' : Settled(orders'[i])
    BY <2>1, <2>2, <2>3, <2>4 DEF SettledOrders
  <2> QED BY <2>5 DEF SettledOrders, Settled
<1>3. ASSUME NEW id \in 0..MaxSeq, CancelOrder(id) PROVE SettledOrders'
  <2>1. CASE orders' = orders
    BY <1>1, <2>1
  <2>2. CASE /\ id \in DOMAIN orders
             /\ orders[id].status = "Accepted"
             /\ orders' = [orders EXCEPT ![id].status = "Cancelled"]
    <3>1. orders[id] \in OrderRecord
      BY <2>2 DEF TypeOK
    <3>2. Settled([orders[id] EXCEPT !.status = "Cancelled"])
      BY <2>2, <3>1 DEF SettledOrders, Settled, OrderRecord
    <3>3. \A i \in DOMAIN orders' : Settled(orders'[i])
      BY <2>2, <3>2 DEF SettledOrders
    <3> QED BY <3>3 DEF SettledOrders, Settled
  <2> QED BY <1>3, <2>1, <2>2, CancelStep
<1> QED BY <1>1, <1>2, <1>3 DEF CoreNext, OnTick, UpdateRiskConfig, coreVars

(* No order is left undecided, and a rejected one carries the reason why.     *)
THEOREM SettledCorrect == CoreSpec => []SettledOrders
<1>1. CoreInit => SettledOrders
  BY DEF CoreInit, SettledOrders
<1> QED BY <1>1, TypeCorrect, SettledStep, PTL DEF CoreSpec

----------------------------------------------------------------------------
\* The buys of an order map that count, and what they come to.
Buys(m) == {id \in DOMAIN m : m[id].side = "Buy" /\ m[id].status # "Rejected"}
Ledger(m) == SumFunction([id \in Buys(m) |-> Notional(m[id])])

(* The sum is over finitely many natural numbers.                             *)
LEMMA LedgerTerms ==
    ASSUME NEW k \in Nat, NEW m \in [1..k -> OrderRecord]
    PROVE  /\ Buys(m) \subseteq 1..k /\ IsFiniteSet(Buys(m))
           /\ \A id \in Buys(m) : Notional(m[id]) \in Int
           /\ [id \in Buys(m) |-> Notional(m[id])] \in [Buys(m) -> Int]
           /\ Ledger(m) \in Int
<1>1. Buys(m) \subseteq 1..k
  BY DEF Buys
<1>2. IsFiniteSet(Buys(m))
  BY <1>1, FS_Interval, FS_Subset
<1>3. \A id \in Buys(m) : Notional(m[id]) \in Int
  <2> SUFFICES ASSUME NEW id \in Buys(m) PROVE Notional(m[id]) \in Int
    OBVIOUS
  <2>1. m[id] \in OrderRecord
    BY <1>1
  <2> QED BY <2>1, NotionalType
<1>4. [id \in Buys(m) |-> Notional(m[id])] \in [Buys(m) -> Int]
  BY <1>3
<1>5. Ledger(m) \in Int
  BY <1>2, <1>4, SumFunctionType DEF Ledger
<1> QED BY <1>1, <1>2, <1>3, <1>4, <1>5

\* The map n has the k orders of m and one more.
Grown(m, n, k, order) ==
    /\ k \in Nat /\ m \in [1..k -> OrderRecord] /\ n \in [1..(k + 1) -> OrderRecord]
    /\ n[k + 1] = order /\ \A i \in 1..k : n[i] = m[i]

(* A new order adds its notional if it is a buy that was not rejected.        *)
LEMMA LedgerGrows ==
    ASSUME NEW k, NEW m, NEW n, NEW order, Grown(m, n, k, order)
    PROVE  Ledger(n) = IF order.side = "Buy" /\ order.status # "Rejected"
                       THEN Ledger(m) + Notional(order) ELSE Ledger(m)
<1>1. /\ Buys(m) \subseteq 1..k /\ IsFiniteSet(Buys(m)) /\ k + 1 \notin Buys(m)
      /\ DOMAIN m = 1..k /\ DOMAIN n = DOMAIN m \union {k + 1}
      /\ \A i \in 1..k : n[i] = m[i]
      /\ n[k + 1] = order
  BY LedgerTerms DEF Grown
<1> DEFINE f == [id \in Buys(m) |-> Notional(m[id])]
           g == [id \in Buys(n) |-> Notional(n[id])]
<1>2. f \in [Buys(m) -> Int] /\ g \in [Buys(n) -> Int]
  BY LedgerTerms DEF Grown
<1>3. CASE order.side = "Buy" /\ order.status # "Rejected"
  <2>1. Buys(n) = Buys(m) \union {k + 1}
    BY <1>1, <1>3 DEF Buys
  <2>2. \A id \in Buys(m) : g[id] = f[id]
    BY <1>1, <2>1
  <2>3. g[k + 1] = Notional(order)
    BY <1>1, <2>1
  <2> HIDE DEF f, g
  <2>4. SumFunction(g) = SumFunction(f) + g[k + 1]
    <3> DEFINE B == Buys(m)
               y == k + 1
    <3>1. IsFiniteSet(B) /\ y \notin B
      BY <1>1
    <3>2. f \in [B -> Int]
      BY <1>2
    <3>3. g \in [B \union {y} -> Int]
      BY <1>2, <2>1
    <3>4. \A id \in B : g[id] = f[id]
      BY <2>2
    <3> HIDE DEF B, y
    <3>5. SumFunction(g) = SumFunction(f) + g[y]
      BY <3>1, <3>2, <3>3, <3>4, SumFunctionAdd
    <3> QED BY <3>5 DEF y
  <2> QED BY <1>3, <2>3, <2>4 DEF Ledger, f, g
<1>4. CASE ~(order.side = "Buy" /\ order.status # "Rejected")
  <2>1. Buys(n) = Buys(m)
    BY <1>1, <1>4 DEF Buys
  <2>2. g = f
    BY <1>1, <2>1
  <2> QED BY <1>4, <2>2 DEF Ledger
<1> QED BY <1>3, <1>4

(* A cancel takes nothing out of the ledger.                                  *)
LEMMA LedgerKeepsCancelled ==
    ASSUME NEW k \in Nat, NEW m \in [1..k -> OrderRecord], NEW id \in 1..k,
           m[id].status = "Accepted"
    PROVE  Ledger([m EXCEPT ![id].status = "Cancelled"]) = Ledger(m)
<1> DEFINE n == [m EXCEPT ![id].status = "Cancelled"]
<1>1. \A i \in 1..k : /\ n[i].side = m[i].side /\ n[i].qty = m[i].qty /\ n[i].ref = m[i].ref
                      /\ n[i].status = "Rejected" <=> m[i].status = "Rejected"
  <2> SUFFICES ASSUME NEW i \in 1..k
               PROVE  /\ n[i].side = m[i].side /\ n[i].qty = m[i].qty /\ n[i].ref = m[i].ref
                      /\ n[i].status = "Rejected" <=> m[i].status = "Rejected"
    OBVIOUS
  <2>1. m[i] \in OrderRecord
    OBVIOUS
  <2>2. CASE i = id
    BY <2>1, <2>2 DEF OrderRecord
  <2>3. CASE i # id
    BY <2>3
  <2> QED BY <2>2, <2>3
<1>2. DOMAIN n = 1..k /\ DOMAIN m = 1..k
  OBVIOUS
<1> HIDE DEF n
<1>3. Buys(n) = Buys(m)
  BY <1>1, <1>2 DEF Buys
<1>4. [i \in Buys(n) |-> Notional(n[i])] = [i \in Buys(m) |-> Notional(m[i])]
  BY <1>1, <1>3, LedgerTerms DEF Notional
<1> QED BY <1>4 DEF Ledger, n

(* Every step of the core keeps position and ledger equal.                    *)
LEMMA LedgerStep == TypeOK /\ position = Ledger(orders) /\ [CoreNext]_coreVars
                    => position' = Ledger(orders')
<1> SUFFICES ASSUME TypeOK, position = Ledger(orders), [CoreNext]_coreVars
             PROVE  position' = Ledger(orders')
  OBVIOUS
<1>0. seq \in Nat /\ orders \in [1..seq -> OrderRecord]
  BY MaxSeqAssumption DEF TypeOK
<1>1. ASSUME NEW req \in Requests,
             SubmitUnpriced(req) \/ SubmitAccepted(req) \/ SubmitRefused(req)
      PROVE  position' = Ledger(orders')
  <2>1. PICK order \in OrderRecord :
          /\ orders' = [i \in 1..(seq + 1) |-> IF i = seq + 1 THEN order ELSE orders[i]]
          /\ order.side = req.side
          /\ \/ SubmitUnpriced(req) /\ order.status = "Rejected"
             \/ SubmitAccepted(req) /\ order.status = "Accepted"
                /\ Notional(order) = Notional(NewOrder(req))
             \/ SubmitRefused(req) /\ order.status = "Rejected"
    BY <1>1, SubmitStep
  <2>2. Ledger(orders') = IF order.side = "Buy" /\ order.status # "Rejected"
                          THEN Ledger(orders) + Notional(order) ELSE Ledger(orders)
    <3>1. Grown(orders, orders', seq, order)
      BY <1>0, <2>1 DEF Grown
    <3> QED BY <3>1, LedgerGrows
  <2>3. CASE order.status = "Rejected"
    <3>1. position' = position
      BY <2>1, <2>3 DEF SubmitUnpriced, SubmitRefused
    <3> QED BY <2>2, <2>3, <3>1
  <2>4. CASE SubmitAccepted(req) /\ order.status = "Accepted"
             /\ Notional(order) = Notional(NewOrder(req))
    <3>1. position' = IF req.side = "Buy" THEN position + Notional(order) ELSE position
      BY <2>4 DEF SubmitAccepted, PositionAfter, NewOrder
    <3> QED BY <2>1, <2>2, <2>4, <3>1
  <2> QED BY <2>1, <2>3, <2>4
<1>2. ASSUME NEW id \in 0..MaxSeq, CancelOrder(id) PROVE position' = Ledger(orders')
  <2>1. position' = position
    BY <1>2 DEF CancelOrder
  <2> QED BY <1>0, <1>2, <2>1, CancelStep, LedgerKeepsCancelled
<1>3. ASSUME UNCHANGED <<orders, position>> PROVE position' = Ledger(orders')
  BY <1>3
<1> QED BY <1>1, <1>2, <1>3 DEF CoreNext, OnTick, UpdateRiskConfig, coreVars

(* The position the risk check counts is the sum of the accepted buys in the  *)
(* OMS, those cancelled since included, after any number of orders.           *)
THEOREM LedgerCorrect == CoreSpec => []PositionLedger
<1> DEFINE Kept == position = Ledger(orders)
<1>1. CoreInit => Kept
  <2> SUFFICES ASSUME CoreInit PROVE position = Ledger(orders)
    OBVIOUS
  <2>1. position = 0 /\ Buys(orders) = {}
    BY DEF CoreInit, Buys
  <2>2. [id \in Buys(orders) |-> Notional(orders[id])] \in [{} -> Int] /\ IsFiniteSet({})
    BY <2>1, FS_EmptySet
  <2> QED BY <2>1, <2>2, SumFunctionType DEF Ledger
<1>2. TypeOK /\ Kept /\ [CoreNext]_coreVars => Kept'
  BY LedgerStep
<1>3. Kept => PositionLedger
  BY DEF PositionLedger, AcceptedBuys, Ledger, Buys
<1> QED BY <1>1, <1>2, <1>3, TypeCorrect, PTL DEF CoreSpec

----------------------------------------------------------------------------
(* The position check, in whole money: with a ratio of at most 100%, what an  *)
(* accepted order adds stays within equity.                                   *)
LEMMA CheckBounds ==
    ASSUME TypeOK, NEW order \in OrderRecord, CheckPreTrade(order) = "None"
    PROVE  position + Notional(order) <= Equity
<1>1. Notional(order) \in Nat /\ position \in Nat
  BY NotionalType DEF TypeOK
<1>2. ~((position + Notional(order)) * 100 > Equity * risk.ratio)
  BY DEF CheckPreTrade
<1>3. risk.ratio \in Nat /\ risk.ratio <= 100
  BY RiskAssumption DEF TypeOK, RiskConfig
<1>4. \A e, r \in Nat : r <= 100 => e * r <= e * 100
  BY SMTT(30)
<1>5. Equity * risk.ratio <= Equity * 100 /\ Equity * risk.ratio \in Nat
  <2>1. \A e, r \in Nat : e * r \in Nat
    OBVIOUS
  <2> QED BY <2>1, <1>3, <1>4, EquityAssumption
<1>6. \A x, y \in Nat : x * 100 <= y /\ y <= Equity * 100 => x <= Equity
  BY EquityAssumption
<1>7. position + Notional(order) \in Nat
  BY <1>1
<1>8. (position + Notional(order)) * 100 <= Equity * risk.ratio
  BY <1>2, <1>5, <1>7
<1> QED BY <1>5, <1>6, <1>7, <1>8

(* Only an accepted buy adds to the position, and CheckBounds limits it.      *)
LEMMA LeverageStep == TypeOK /\ NoLeverage /\ [CoreNext]_coreVars => NoLeverage'
<1> SUFFICES ASSUME TypeOK, NoLeverage, [CoreNext]_coreVars PROVE NoLeverage'
  OBVIOUS
<1>1. ASSUME UNCHANGED position PROVE NoLeverage'
  BY <1>1 DEF NoLeverage
<1>2. ASSUME NEW req \in Requests, SubmitAccepted(req) PROVE NoLeverage'
  <2>1. NewOrder(req) \in OrderRecord
    BY NewOrderType
  <2>2. position + Notional(NewOrder(req)) <= Equity
    BY <1>2, <2>1, CheckBounds DEF SubmitAccepted
  <2> QED BY <1>2, <2>2 DEF SubmitAccepted, PositionAfter, NoLeverage
<1> QED BY <1>1, <1>2
    DEF CoreNext, OnTick, SubmitUnpriced, SubmitRefused, CancelOrder, UpdateRiskConfig, coreVars

(* Whatever limits are set between orders, the accepted buys never exceed the *)
(* account's equity.                                                          *)
THEOREM LeverageCorrect == CoreSpec => []NoLeverage
<1>1. CoreInit => NoLeverage
  BY EquityAssumption DEF CoreInit, NoLeverage
<1> QED BY <1>1, TypeCorrect, LeverageStep, PTL DEF CoreSpec

----------------------------------------------------------------------------
(* A position over the limit fails the position check of any order, since     *)
(* what an order adds is not negative; the other steps submit nothing.        *)
LEMMA FreezeStep ==
    ASSUME TypeOK, [CoreNext]_coreVars, OverLimit
    PROVE  \A id \in DOMAIN orders' \ DOMAIN orders : orders'[id].status = "Rejected"
<1>1. DOMAIN orders = 1..seq /\ seq \in Nat
  BY MaxSeqAssumption DEF TypeOK
<1>2. CASE UNCHANGED orders
  BY <1>2
<1>3. ASSUME NEW req \in Requests,
             SubmitUnpriced(req) \/ SubmitAccepted(req) \/ SubmitRefused(req)
      PROVE  \A id \in DOMAIN orders' \ DOMAIN orders : orders'[id].status = "Rejected"
  <2>1. ~SubmitAccepted(req)
    <3>1. SUFFICES ASSUME SubmitAccepted(req) PROVE FALSE
      OBVIOUS
    <3> DEFINE added == Notional(NewOrder(req))
               limit == Equity * risk.ratio
    <3>2. position * 100 > limit
      BY DEF OverLimit
    <3>3. ~((position + added) * 100 > limit)
      BY <3>1 DEF SubmitAccepted, CheckPreTrade
    <3>4. added \in Nat /\ position \in Nat
      BY NewOrderType, NotionalType DEF TypeOK
    <3>5. limit \in Nat
      <4>1. \A e, r \in Nat : e * r \in Nat
        OBVIOUS
      <4>2. risk.ratio \in Nat
        BY RiskAssumption DEF TypeOK, RiskConfig
      <4> QED BY <4>1, <4>2, EquityAssumption
    <3> HIDE DEF added, limit
    <3> QED BY <3>2, <3>3, <3>4, <3>5
  <2>2. PICK order \in OrderRecord :
          /\ orders' = [i \in 1..(seq + 1) |-> IF i = seq + 1 THEN order ELSE orders[i]]
          /\ order.status = "Rejected"
    BY <1>3, <2>1, SubmitStep
  <2> QED BY <1>1, <2>2
<1>4. ASSUME NEW id \in 0..MaxSeq, CancelOrder(id)
      PROVE  DOMAIN orders' = DOMAIN orders
  BY <1>1, <1>4, CancelStep
<1> QED BY <1>2, <1>3, <1>4 DEF CoreNext, OnTick, UpdateRiskConfig, coreVars

(* With the position over the current limit no order is accepted, sells       *)
(* included, until the ratio is raised.                                       *)
THEOREM FreezeCorrect == CoreSpec => OverLimitFreezes
<1>1. TypeOK /\ [CoreNext]_coreVars =>
        [OverLimit => \A id \in DOMAIN orders' \ DOMAIN orders :
                        orders'[id].status = "Rejected"]_coreVars
  BY FreezeStep
<1> QED BY <1>1, TypeCorrect, PTL DEF CoreSpec, OverLimitFreezes

----------------------------------------------------------------------------
GateEntry(order) ==
    [side |-> order.side, value |-> Notional(order), status |-> order.status]

(* The value of a record is one of the values the gate knows.                 *)
LEMMA ValueType ==
    ASSUME NEW order \in OrderRecord
    PROVE  Notional(order) \in {q * p : q \in Qtys, p \in RefPrices}
BY DEF Notional, OrderRecord

(* A submission enters one decided order in the gate's ledger.                *)
LEMMA GateSubmit ==
    ASSUME TypeOK, NEW req \in Requests,
           SubmitUnpriced(req) \/ SubmitAccepted(req) \/ SubmitRefused(req)
    PROVE  Gate!GateNext
<1>1. PICK order \in OrderRecord :
        /\ seq' = seq + 1
        /\ orders' = [i \in 1..(seq + 1) |-> IF i = seq + 1 THEN order ELSE orders[i]]
        /\ order.side = req.side
        /\ \/ SubmitUnpriced(req) /\ order.status = "Rejected"
           \/ SubmitAccepted(req) /\ order.status = "Accepted"
              /\ Notional(order) = Notional(NewOrder(req))
           \/ SubmitRefused(req) /\ order.status = "Rejected"
  BY SubmitStep
<1>2. DOMAIN orders = 1..seq /\ seq \in Nat
  BY MaxSeqAssumption DEF TypeOK
<1>3. (1..seq) \union {seq + 1} = 1..(seq + 1) /\ DOMAIN orders' = 1..(seq + 1)
  BY <1>1, <1>2
<1>4. [id \in DOMAIN orders' |-> GateEntry(orders'[id])] =
        [id \in DOMAIN orders \union {seq + 1} |->
           IF id = seq + 1 THEN GateEntry(order) ELSE GateEntry(orders[id])]
  BY <1>1, <1>2, <1>3
<1>5. [id \in DOMAIN orders \union {seq + 1} |->
           IF id = seq + 1 THEN GateEntry(order) ELSE GateEntry(orders[id])] =
      [id \in DOMAIN [i \in DOMAIN orders |-> GateEntry(orders[i])] \union {seq + 1} |->
           IF id = seq + 1 THEN GateEntry(order)
           ELSE [i \in DOMAIN orders |-> GateEntry(orders[i])][id]]
  BY <1>2
<1>6. Gate!Enter(GateEntry(order))
  BY <1>1, <1>4, <1>5 DEF Gate!Enter, GateEntry, Notional
<1>7. order.side \in Gate!Sides /\ Notional(order) \in {q * p : q \in Qtys, p \in RefPrices}
  BY ValueType DEF OrderRecord, Sides, Gate!Sides
<1>8. CASE order.status = "Rejected" /\ UNCHANGED position
  <2>1. Gate!Refuse(order.side, Notional(order))
    BY <1>6, <1>8 DEF Gate!Refuse, GateEntry
  <2> QED BY <1>7, <2>1 DEF Gate!GateNext
<1>9. CASE SubmitAccepted(req) /\ order.status = "Accepted"
           /\ Notional(order) = Notional(NewOrder(req))
  <2>1. position + Notional(order) <= Equity
    BY <1>9, NewOrderType, CheckBounds DEF SubmitAccepted
  <2>2. position' = IF order.side = "Buy" THEN position + Notional(order) ELSE position
    BY <1>1, <1>9, NewOrderType DEF SubmitAccepted, PositionAfter
  <2>3. Gate!Accept(order.side, Notional(order))
    BY <1>6, <1>9, <2>1, <2>2 DEF Gate!Accept, GateEntry
  <2> QED BY <1>7, <2>3 DEF Gate!GateNext
<1> QED BY <1>1, <1>8, <1>9 DEF SubmitUnpriced, SubmitRefused

(* A cancel is a cancel of the gate, or nothing when the OMS refuses it.      *)
LEMMA GateCancel ==
    ASSUME TypeOK, NEW id \in 0..MaxSeq, CancelOrder(id)
    PROVE  Gate!GateNext \/ UNCHANGED Gate!gateVars
<1>1. CASE orders' = orders
  BY <1>1 DEF CancelOrder, Gate!gateVars, Notional
<1>2. CASE /\ id \in DOMAIN orders
           /\ orders[id].status = "Accepted"
           /\ orders' = [orders EXCEPT ![id].status = "Cancelled"]
  <2> DEFINE bar == [i \in DOMAIN orders |-> GateEntry(orders[i])]
  <2>1. orders \in [1..seq -> OrderRecord]
    BY DEF TypeOK
  <2>2. bar[id].status = "Accepted" /\ id \in DOMAIN bar
    BY <1>2 DEF GateEntry
  <2>3. GateEntry([orders[id] EXCEPT !.status = "Cancelled"]) =
          [GateEntry(orders[id]) EXCEPT !.status = "Cancelled"]
    BY <1>2, <2>1 DEF GateEntry, Notional, OrderRecord
  <2>4. [i \in DOMAIN orders' |-> GateEntry(orders'[i])] =
          [bar EXCEPT ![id].status = "Cancelled"]
    <3>1. orders' = [i \in DOMAIN orders |->
                       IF i = id THEN [orders[id] EXCEPT !.status = "Cancelled"] ELSE orders[i]]
      BY <1>2, <2>1
    <3>2. [i \in DOMAIN orders' |-> GateEntry(orders'[i])] =
            [i \in DOMAIN orders |->
               IF i = id THEN [GateEntry(orders[id]) EXCEPT !.status = "Cancelled"]
               ELSE GateEntry(orders[i])]
      BY <3>1, <2>3
    <3>3. [bar EXCEPT ![id].status = "Cancelled"] =
            [i \in DOMAIN orders |->
               IF i = id THEN [GateEntry(orders[id]) EXCEPT !.status = "Cancelled"]
               ELSE GateEntry(orders[i])]
      BY <1>2
    <3> QED BY <3>2, <3>3
  <2>5. Gate!Cancel(id)
    BY <2>2, <2>4 DEF CancelOrder, Gate!Cancel, GateEntry, Notional
  <2> QED BY <1>2, <2>5 DEF Gate!GateNext
<1> QED BY <1>1, <1>2, CancelStep

(* TradingCore implements OrderGate: the decisions of its risk check and the  *)
(* transitions of its OMS are ones the gate allows.                           *)
THEOREM CoreImplementsGate == CoreSpec => ImplementsGate
<1>1. CoreInit => Gate!GateInit
  BY DEF CoreInit, Gate!GateInit
<1>2. TypeOK /\ [CoreNext]_coreVars => [Gate!GateNext]_(Gate!gateVars)
  <2> SUFFICES ASSUME TypeOK, [CoreNext]_coreVars
               PROVE  Gate!GateNext \/ UNCHANGED Gate!gateVars
    OBVIOUS
  <2>1. CASE UNCHANGED <<orders, seq, position>>
    BY <2>1 DEF Gate!gateVars, Notional
  <2> QED BY <2>1, GateSubmit, GateCancel DEF CoreNext, OnTick, UpdateRiskConfig, coreVars
<1> QED BY <1>1, <1>2, TypeCorrect, PTL DEF CoreSpec, ImplementsGate, Gate!GateSpec

----------------------------------------------------------------------------
(* OrderApi *)

\* An order request as place_order sends it.
PlacedOrder == [id: Nat, epoch: Nat, side: Sides, type: Types, qty: Int,
                price: SUBSET Int]

\* Request r is on the terms on which the OMS, holding the orders m, accepted it.
Agrees(m, r) ==
    /\ r.id \in DOMAIN m
    /\ m[r.id].status \in {"Accepted", "Cancelled"}
    /\ m[r.id].side = r.side
    /\ Near(r.qty, m[r.id].qty, QtyUnit)
    /\ \A price \in r.price : price <= 0 \/ Near(price, m[r.id].ref, PriceUnit)

\* What has been sent, in this run of the process and in earlier ones.
SentInv ==
    /\ restarts \in Nat
    /\ sent \in Seq(PlacedOrder)
    /\ \A i \in 1..Len(sent) : sent[i].epoch <= restarts
    /\ \A i \in 1..Len(sent) : sent[i].epoch = restarts => Agrees(orders, sent[i])
    /\ \A i, j \in 1..Len(sent) :
          sent[i].epoch = restarts /\ sent[j].epoch = restarts /\ sent[i].id = sent[j].id => i = j

\* What is about to be sent was not sent yet.
PlacingInv ==
    placing # <<>> =>
        /\ placing[1] \in PlacedOrder /\ placing[1].epoch = restarts
        /\ Agrees(orders, placing[1])
        /\ \A i \in 1..Len(sent) : sent[i].epoch = restarts => sent[i].id # placing[1].id

\* The inductive invariant.
ApiInv == TypeOK /\ SentInv /\ PlacingInv

----------------------------------------------------------------------------
(* Dividing rounds down by less than the divisor.                             *)
LEMMA DivBounds ==
    ASSUME NEW a \in Nat, NEW b \in Nat \ {0}
    PROVE  a \div b \in Nat /\ (a \div b) * b <= a /\ a < (a \div b) * b + b
<1>1. a \div b \in Int /\ a = b * (a \div b) + (a % b) /\ a % b \in 0..(b - 1)
  BY SMTT(30)
<1> QED BY <1>1, SMTT(30)

(* Printing with a fixed number of decimals is off by half of the last one.   *)
LEMMA FixedNear ==
    ASSUME NEW n \in Nat, NEW unit \in Nat \ {0}
    PROVE  Fixed(n, unit) \in Int /\ Near(Fixed(n, unit), n, unit)
<1> DEFINE a == 2 * n + unit
           b == 2 * unit
           q == a \div b
<1>a. a \in Nat /\ b \in Nat \ {0}
  OBVIOUS
<1>1. q \in Nat /\ q * b <= a /\ a < q * b + b
  <2> HIDE DEF a, b
  <2> QED BY <1>a, DivBounds
<1> HIDE DEF q
<1>2. q * unit \in Int /\ q * (2 * unit) = 2 * (q * unit)
  BY <1>1, SMTT(30)
<1>3. Fixed(n, unit) = q * unit
  BY DEF Fixed, q
<1> HIDE DEF Fixed
<1> QED BY <1>1, <1>2, <1>3 DEF Near

(* What a submission accepts goes into the map on the terms of the request.   *)
LEMMA AcceptedTerms ==
    ASSUME TypeOK, NEW req \in Requests, SubmitAccepted(req)
    PROVE  /\ seq' = seq + 1
           /\ orders' = [i \in 1..(seq + 1) |->
                           IF i = seq + 1 THEN [NewOrder(req) EXCEPT !.status = "Accepted"]
                                          ELSE orders[i]]
<1>1. NewOrder(req) \in OrderRecord /\ NewOrder(req).status = "New"
  BY NewOrderType
<1>2. seq' = seq + 1
      /\ orders' = OmsAccept(OmsSubmit(orders, seq + 1, NewOrder(req)), seq + 1)
  BY DEF SubmitAccepted
<1> QED BY <1>1, <1>2, AcceptNew

(* A price of 0 or below is printed as one.                                   *)
LEMMA FixedNotPositive ==
    ASSUME NEW n \in Int, n <= 0, NEW unit \in Nat \ {0}
    PROVE  Fixed(n, unit) \in Int /\ Fixed(n, unit) <= 0
<1> DEFINE a == 2 * n + unit
           b == 2 * unit
           d == a \div b
<1>1. a \in Int /\ b \in Nat \ {0} /\ a < b
  OBVIOUS
<1>2. d \in Int /\ d <= 0
  <2> HIDE DEF a, b
  <2>1. d \in Int /\ a = b * d + (a % b) /\ a % b \in 0..(b - 1)
    BY <1>1, SMTT(30)
  <2> HIDE DEF d
  <2>2. b * d < b
    BY <1>1, <2>1, SMTT(30)
  <2>3. d >= 1 => b * d >= b
    BY <1>1, <2>1, SMTT(30)
  <2> QED BY <1>1, <2>1, <2>2, <2>3, SMTT(30)
<1>3. Fixed(n, unit) = d * unit
  BY DEF Fixed
<1> HIDE DEF d
<1>4. d * unit \in Int /\ d * unit <= 0
  BY <1>2, SMTT(30)
<1> QED BY <1>3, <1>4

(* The request sent for an accepted order agrees with its record.             *)
LEMMA RequestAgrees ==
    ASSUME TypeOK, restarts \in Nat, NEW req \in Requests, SubmitAccepted(req),
           NEW r, r = PlaceRequest(seq + 1, req)
    PROVE  /\ r \in PlacedOrder /\ r.id = seq + 1 /\ r.epoch = restarts
           /\ Agrees(orders', r)
<1> DEFINE order == [NewOrder(req) EXCEPT !.status = "Accepted"]
<1>1. /\ seq \in Nat /\ seq' = seq + 1
      /\ orders' = [i \in 1..(seq + 1) |-> IF i = seq + 1 THEN order ELSE orders[i]]
  BY AcceptedTerms, MaxSeqAssumption DEF TypeOK
<1>2. /\ order.status = "Accepted" /\ order.side = req.side /\ order.qty = req.qty
      /\ order.ref = RefPrice(req)
  BY DEF NewOrder
<1>3. req.qty \in Nat /\ req.price \in Int /\ req.side \in Sides /\ req.type \in Types
  BY QtyNat, LimitPricesAssumption DEF Requests
<1>4. Fixed(req.qty, QtyUnit) \in Int /\ Near(Fixed(req.qty, QtyUnit), req.qty, QtyUnit)
  BY <1>3, FixedNear, UnitsAssumption
<1>5. /\ Fixed(req.price, PriceUnit) \in Int
      /\ req.price > 0 => Near(Fixed(req.price, PriceUnit), req.price, PriceUnit)
      /\ ~(req.price > 0) => Fixed(req.price, PriceUnit) <= 0
  <2>1. CASE req.price > 0
    <3>1. req.price \in Nat
      BY <1>3, <2>1
    <3> QED BY <2>1, <3>1, FixedNear, UnitsAssumption
  <2>2. CASE ~(req.price > 0)
    <3>1. req.price <= 0
      BY <1>3, <2>2
    <3> QED BY <1>3, <2>2, <3>1, FixedNotPositive, UnitsAssumption
  <2> QED BY <2>1, <2>2
<1>7. req.type = "Limit" /\ req.price > 0 => order.ref = req.price
  BY <1>2, <1>3 DEF RefPrice
<1> HIDE DEF order
<1>8. /\ r.id = seq + 1 /\ r.epoch = restarts
      /\ r.side = req.side /\ r.qty = Fixed(req.qty, QtyUnit)
      /\ r.price = IF req.type = "Limit" THEN {Fixed(req.price, PriceUnit)} ELSE {}
  BY DEF PlaceRequest
<1>9. r \in PlacedOrder
  BY <1>1, <1>3, <1>4, <1>5 DEF PlaceRequest, PlacedOrder
<1>10. \A price \in r.price : price <= 0 \/ Near(price, order.ref, PriceUnit)
  <2>1. ~(req.price > 0) \/ order.ref = req.price \/ r.price = {}
    BY <1>7, <1>8
  <2> QED BY <1>5, <1>8, <2>1
<1>11. orders'[seq + 1] = order /\ seq + 1 \in DOMAIN orders'
  BY <1>1
<1>12. Agrees(orders', r)
  BY <1>2, <1>4, <1>8, <1>10, <1>11 DEF Agrees
<1> QED BY <1>8, <1>9, <1>12

(* No step but a restart changes the terms of an order in the map.            *)
LEMMA AgreesStays ==
    ASSUME TypeOK, [CoreNext]_coreVars, NEW r, Agrees(orders, r)
    PROVE  Agrees(orders', r)
<1>1. ASSUME NEW req \in Requests,
             SubmitUnpriced(req) \/ SubmitAccepted(req) \/ SubmitRefused(req)
      PROVE  Agrees(orders', r)
  <2>1. PICK order \in OrderRecord :
          orders' = [i \in 1..(seq + 1) |-> IF i = seq + 1 THEN order ELSE orders[i]]
    BY <1>1, SubmitStep
  <2>2. r.id \in 1..seq /\ seq \in Nat
    BY MaxSeqAssumption DEF TypeOK, Agrees
  <2>3. orders'[r.id] = orders[r.id] /\ r.id \in DOMAIN orders'
    BY <2>1, <2>2
  <2> QED BY <2>3 DEF Agrees
<1>2. ASSUME NEW id \in 0..MaxSeq, CancelOrder(id) PROVE Agrees(orders', r)
  <2>1. CASE orders' = orders
    BY <2>1
  <2>2. CASE orders' = [orders EXCEPT ![id].status = "Cancelled"]
    <3>1. orders[r.id] \in OrderRecord /\ r.id \in 1..seq /\ orders \in [1..seq -> OrderRecord]
      BY DEF TypeOK, Agrees
    <3>2. /\ orders'[r.id].side = orders[r.id].side /\ orders'[r.id].qty = orders[r.id].qty
          /\ orders'[r.id].ref = orders[r.id].ref
          /\ orders'[r.id].status \in {orders[r.id].status, "Cancelled"}
          /\ DOMAIN orders' = DOMAIN orders
      BY <2>2, <3>1 DEF OrderRecord
    <3> QED BY <3>2 DEF Agrees
  <2> QED BY <1>2, <2>1, <2>2, CancelStep
<1>3. ASSUME orders' = orders PROVE Agrees(orders', r)
  BY <1>3
<1> QED BY <1>1, <1>2, <1>3 DEF CoreNext, OnTick, UpdateRiskConfig, coreVars

----------------------------------------------------------------------------
(* The initial states satisfy the invariant.                                  *)
LEMMA ApiInvInit == ApiInit => ApiInv
<1> SUFFICES ASSUME ApiInit PROVE ApiInv
  OBVIOUS
<1>1. TypeOK
  BY InitType DEF ApiInit
<1>2. sent = <<>> /\ placing = <<>> /\ restarts = 0 /\ sent \in Seq(PlacedOrder) /\ Len(sent) = 0
  BY EmptySeq DEF ApiInit
<1>3. 1..0 = {}
  OBVIOUS
<1> QED BY <1>1, <1>2, <1>3 DEF ApiInv, SentInv, PlacingInv

(* What was sent stays as it is while only the core moves.                    *)
LEMMA CoreKeepsSent ==
    ASSUME TypeOK, SentInv, [CoreNext]_coreVars, UNCHANGED <<sent, restarts>>
    PROVE  SentInv'
BY AgreesStays DEF SentInv

(* Every step of the handlers preserves the invariant.                        *)
LEMMA ApiInvNext == ApiInv /\ [ApiNext]_allVars => ApiInv'
<1> SUFFICES ASSUME ApiInv, [ApiNext]_allVars PROVE ApiInv'
  OBVIOUS
<1> USE DEF ApiInv
<1>1. ASSUME [CoreNext]_coreVars, UNCHANGED <<placing, sent, restarts>> PROVE ApiInv'
  <2>1. TypeOK' /\ SentInv'
    BY <1>1, NextType, CoreKeepsSent
  <2>2. PlacingInv'
    BY <1>1, AgreesStays DEF PlacingInv
  <2> QED BY <2>1, <2>2
<1>2. ASSUME NEW req \in Requests, PostOrder(req) PROVE ApiInv'
  <2>1. SubmitUnpriced(req) \/ SubmitAccepted(req) \/ SubmitRefused(req)
    BY <1>2 DEF PostOrder
  <2>2. CoreNext /\ UNCHANGED <<sent, restarts>>
    BY <1>2, <2>1 DEF PostOrder, CoreNext
  <2>3. TypeOK' /\ SentInv'
    BY <2>2, NextType, CoreKeepsSent
  <2>4. placing' = ToPlace(seq', req, orders'[seq'].status)
    BY <1>2 DEF PostOrder
  <2>5. PlacingInv'
    <3>1. CASE orders'[seq'].status # "Accepted"
      BY <2>4, <3>1 DEF ToPlace, PlacingInv
    <3>2. CASE orders'[seq'].status = "Accepted"
      <4>1. seq' = seq + 1 /\ seq \in Nat /\ SubmitAccepted(req)
        <5>1. PICK order \in OrderRecord :
                /\ seq' = seq + 1
                /\ orders' = [i \in 1..(seq + 1) |-> IF i = seq + 1 THEN order ELSE orders[i]]
                /\ \/ order.status = "Rejected"
                   \/ SubmitAccepted(req)
          BY <2>1, SubmitStep
        <5>2. seq \in Nat
          BY MaxSeqAssumption DEF TypeOK
        <5> QED BY <3>2, <5>1, <5>2
      <4> DEFINE r == PlaceRequest(seq + 1, req)
      <4>2. placing' = <<r>>
        BY <2>4, <3>2, <4>1 DEF ToPlace
      <4>3. r \in PlacedOrder /\ r.id = seq + 1 /\ r.epoch = restarts /\ Agrees(orders', r)
        BY <4>1, RequestAgrees DEF SentInv
      <4> HIDE DEF r
      <4>4. \A i \in 1..Len(sent) : sent[i].epoch = restarts => sent[i].id # r.id
        <5>1. \A i \in 1..Len(sent) : sent[i].epoch = restarts => sent[i].id \in 1..seq
          BY DEF SentInv, Agrees, TypeOK
        <5> QED BY <4>1, <4>3, <5>1
      <4> QED BY <2>2, <4>2, <4>3, <4>4 DEF PlacingInv
    <3> QED BY <3>1, <3>2
  <2> QED BY <2>3, <2>5
<1>3. ASSUME NEW arrives \in BOOLEAN, PlaceOrder(arrives) PROVE ApiInv'
  <2>1. UNCHANGED <<coreVars, restarts>> /\ placing' = <<>> /\ placing # <<>>
    BY <1>3 DEF PlaceOrder
  <2>2. TypeOK' /\ PlacingInv'
    BY <2>1 DEF coreVars, TypeOK, PlacingInv
  <2>3. CASE ~arrives
    BY <1>3, <2>1, <2>2, <2>3 DEF PlaceOrder, SentInv, coreVars
  <2>4. CASE arrives
    <3> DEFINE r == placing[1]
    <3>1. r \in PlacedOrder /\ r.epoch = restarts /\ Agrees(orders, r)
          /\ \A i \in 1..Len(sent) : sent[i].epoch = restarts => sent[i].id # r.id
      BY <2>1 DEF PlacingInv
    <3>2. sent' = Append(sent, r) /\ sent \in Seq(PlacedOrder) /\ orders' = orders
          /\ restarts' = restarts
      BY <1>3, <2>1, <2>4 DEF PlaceOrder, SentInv, coreVars
    <3> HIDE DEF r
    <3>3. /\ sent' \in Seq(PlacedOrder) /\ Len(sent') = Len(sent) + 1 /\ Len(sent) \in Nat
          /\ \A i \in 1..Len(sent) : sent'[i] = sent[i]
          /\ sent'[Len(sent) + 1] = r
      BY <3>1, <3>2
    <3>4. \A i \in 1..Len(sent') : i \in 1..Len(sent) \/ i = Len(sent) + 1
      BY <3>3
    <3>5. /\ \A i \in 1..Len(sent') : sent'[i].epoch <= restarts
          /\ \A i \in 1..Len(sent') : sent'[i].epoch = restarts => Agrees(orders, sent'[i])
      BY <3>1, <3>3, <3>4 DEF SentInv
    <3>6. \A i, j \in 1..Len(sent') :
             sent'[i].epoch = restarts /\ sent'[j].epoch = restarts /\ sent'[i].id = sent'[j].id
             => i = j
      BY <3>1, <3>3, <3>4 DEF SentInv
    <3>7. SentInv'
      BY <3>2, <3>3, <3>5, <3>6 DEF SentInv
    <3> QED BY <2>2, <3>7
  <2> QED BY <2>3, <2>4
<1>4. ASSUME Restart PROVE ApiInv'
  <2>1. TypeOK'
    BY <1>4, MaxSeqAssumption DEF Restart, TypeOK
  <2>2. restarts' = restarts + 1 /\ sent' = sent /\ placing' = <<>>
    BY <1>4 DEF Restart
  <2>3. \A i \in 1..Len(sent) : sent[i].epoch \in Nat
    <3>1. \A i \in 1..Len(sent) : sent[i] \in PlacedOrder
      BY ElementOfSeq DEF SentInv
    <3> QED BY <3>1 DEF PlacedOrder
  <2>4. \A i \in 1..Len(sent) : sent[i].epoch <= restarts' /\ sent[i].epoch # restarts'
    BY <2>2, <2>3 DEF SentInv
  <2> QED BY <2>1, <2>2, <2>4 DEF SentInv, PlacingInv
<1>5. ASSUME NEW price \in Prices, Tick(price) PROVE ApiInv'
  BY <1>1, <1>5 DEF Tick, CoreNext, apiVars
<1>6. ASSUME NEW id \in 0..MaxSeq, PostCancel(id) PROVE ApiInv'
  BY <1>1, <1>6 DEF PostCancel, CoreNext, apiVars
<1>7. ASSUME NEW cfg \in ValidRisks, PostRiskConfig(cfg) PROVE ApiInv'
  BY <1>1, <1>7 DEF PostRiskConfig, CoreNext, apiVars
<1>8. CASE UNCHANGED allVars
  BY <1>1, <1>8 DEF allVars, apiVars
<1> QED BY <1>2, <1>3, <1>4, <1>5, <1>6, <1>7, <1>8 DEF ApiNext

(* "Orders pass Risk and OMS first; if Accepted, place_order is called"       *)
(* (docs/execution_module.md): whatever is sent, lost, cancelled or cut off   *)
(* by a crash, the exchange gets an order of this run at most once, only one  *)
(* the OMS accepted, and on the terms it was accepted on, a limit price of 0  *)
(* or below apart.                                                            *)
THEOREM ExchangeGated == ApiSpec => []GatedExchange
<1>1. ApiInv => GatedExchange
  <2> SUFFICES ASSUME ApiInv PROVE GatedExchange
    OBVIOUS
  <2>1. DOMAIN sent = 1..Len(sent)
    BY LenProperties DEF ApiInv, SentInv
  <2> QED BY <2>1 DEF ApiInv, SentInv, Agrees, GatedExchange, SentNow
<1> QED BY <1>1, ApiInvInit, ApiInvNext, PTL DEF ApiSpec

----------------------------------------------------------------------------
\* What the buys of run e that the exchange received, s, were checked as, by the
\* orders m.
BuysSent(s, e) == {i \in DOMAIN s : s[i].epoch = e /\ s[i].side = "Buy"}
Exposed(m, s, e) == SumFunction([i \in BuysSent(s, e) |-> Notional(m[s[i].id])])

\* What the request about to be sent will add.
Announced(m, p) == IF p # <<>> /\ p[1].side = "Buy" THEN Notional(m[p[1].id]) ELSE 0

\* Counted before it is sent.
ExposureInv == Exposed(orders, sent, restarts) + Announced(orders, placing) <= position

(* The sum is over finitely many numbers, orders of this run all of them.     *)
LEMMA ExposedTerms ==
    ASSUME ApiInv
    PROVE  /\ IsFiniteSet(BuysSent(sent, restarts))
           /\ \A i \in BuysSent(sent, restarts) :
                 /\ i \in 1..Len(sent) /\ sent[i].id \in DOMAIN orders
                 /\ Notional(orders[sent[i].id]) \in Int
           /\ [i \in BuysSent(sent, restarts) |-> Notional(orders[sent[i].id])]
                 \in [BuysSent(sent, restarts) -> Int]
           /\ Exposed(orders, sent, restarts) \in Int
<1> DEFINE B == BuysSent(sent, restarts)
<1>1. DOMAIN sent = 1..Len(sent) /\ Len(sent) \in Nat
  BY LenProperties DEF ApiInv, SentInv
<1>2. IsFiniteSet(B)
  <2>1. IsFiniteSet(1..Len(sent))
    BY <1>1, FS_Interval
  <2>2. B \subseteq 1..Len(sent)
    BY <1>1 DEF BuysSent
  <2> QED BY <2>1, <2>2, FS_Subset
<1>3. ASSUME NEW i \in B
      PROVE  i \in 1..Len(sent) /\ sent[i].id \in DOMAIN orders /\ Notional(orders[sent[i].id]) \in Int
  <2>1. i \in 1..Len(sent) /\ Agrees(orders, sent[i])
    BY <1>1 DEF BuysSent, ApiInv, SentInv
  <2>2. sent[i].id \in DOMAIN orders /\ orders[sent[i].id] \in OrderRecord
    BY <2>1 DEF Agrees, ApiInv, TypeOK
  <2> QED BY <2>1, <2>2, NotionalType
<1>4. [i \in B |-> Notional(orders[sent[i].id])] \in [B -> Int]
  BY <1>3
<1>5. Exposed(orders, sent, restarts) \in Int
  BY <1>2, <1>4, SumFunctionType DEF Exposed
<1> QED BY <1>2, <1>3, <1>4, <1>5

(* What was sent, less what the printing may have added, is no more than what *)
(* was checked.                                                               *)
LEMMA SentWithinChecked ==
    ASSUME ApiInv, NEW i \in BuysSent(sent, restarts)
    PROVE  SentValue2(i) \in Int /\ SentValue2(i) <= 2 * Notional(orders[sent[i].id])
<1> DEFINE id == sent[i].id
           n == sent[i].qty
           q == orders[id].qty
           p == orders[id].ref
<1>1. i \in 1..Len(sent) /\ sent[i].epoch = restarts
  BY LenProperties DEF BuysSent, ApiInv, SentInv
<1>2. Agrees(orders, sent[i]) /\ sent[i] \in PlacedOrder
  BY <1>1, ElementOfSeq DEF ApiInv, SentInv
<1>3. n \in Int /\ Near(n, q, QtyUnit) /\ orders[id] \in OrderRecord
  BY <1>2 DEF Agrees, PlacedOrder, ApiInv, TypeOK
<1>4. q \in Nat /\ p \in Nat
  BY <1>3, QtyNat, PriceNat DEF OrderRecord
<1>5. SentValue2(i) = (2 * n - QtyUnit) * p /\ Notional(orders[id]) = q * p
  BY DEF SentValue2, Notional
<1>6. 2 * n <= 2 * q + QtyUnit /\ QtyUnit \in Nat
  BY <1>3, UnitsAssumption DEF Near
<1> HIDE DEF id, n, q, p
<1> DEFINE m == 2 * n - QtyUnit
           k == 2 * q
<1>7. m \in Int /\ k \in Int /\ m <= k
  BY <1>3, <1>4, <1>6
<1>8. k * p = 2 * (q * p) /\ q * p \in Nat
  BY <1>4, SMTT(30)
<1> HIDE DEF m, k
<1>9. m * p \in Int /\ m * p <= k * p
  BY <1>4, <1>7, SMTT(30)
<1> QED BY <1>5, <1>8, <1>9 DEF m, id

(* No step but a restart changes what an order of the map comes to.           *)
LEMMA NotionalStays ==
    ASSUME TypeOK, [CoreNext]_coreVars, NEW id \in DOMAIN orders
    PROVE  Notional(orders'[id]) = Notional(orders[id])
<1>0. seq \in Nat /\ orders \in [1..seq -> OrderRecord]
  BY MaxSeqAssumption DEF TypeOK
<1>1. ASSUME NEW req \in Requests,
             SubmitUnpriced(req) \/ SubmitAccepted(req) \/ SubmitRefused(req)
      PROVE  orders'[id] = orders[id]
  <2>1. PICK order \in OrderRecord :
          orders' = [i \in 1..(seq + 1) |-> IF i = seq + 1 THEN order ELSE orders[i]]
    BY <1>1, SubmitStep
  <2> QED BY <1>0, <2>1
<1>2. ASSUME NEW k \in 0..MaxSeq, CancelOrder(k)
      PROVE  orders'[id].qty = orders[id].qty /\ orders'[id].ref = orders[id].ref
  <2>1. CASE orders' = [orders EXCEPT ![k].status = "Cancelled"]
    <3>1. orders[id] \in OrderRecord
      BY <1>0
    <3> QED BY <1>0, <2>1, <3>1 DEF OrderRecord
  <2> QED BY <1>2, <2>1, CancelStep
<1>3. ASSUME orders' = orders PROVE orders'[id] = orders[id]
  BY <1>3
<1> QED BY <1>1, <1>2, <1>3 DEF CoreNext, OnTick, UpdateRiskConfig, coreVars, Notional

(* So what was sent comes to the same while only the core moves.              *)
LEMMA ExposedStays ==
    ASSUME ApiInv, [CoreNext]_coreVars, UNCHANGED <<sent, restarts>>
    PROVE  Exposed(orders, sent, restarts)' = Exposed(orders, sent, restarts)
<1>1. \A i \in BuysSent(sent, restarts) :
        Notional(orders'[sent[i].id]) = Notional(orders[sent[i].id])
  BY ExposedTerms, NotionalStays DEF ApiInv
<1>2. [i \in BuysSent(sent, restarts) |-> Notional(orders'[sent[i].id])]
        = [i \in BuysSent(sent, restarts) |-> Notional(orders[sent[i].id])]
  BY <1>1
<1> QED BY <1>2 DEF Exposed

(* An order is counted in the step that announces it.                         *)
LEMMA PostCounts ==
    ASSUME ApiInv, ExposureInv, NEW req \in Requests, PostOrder(req)
    PROVE  ExposureInv'
<1>1. SubmitUnpriced(req) \/ SubmitAccepted(req) \/ SubmitRefused(req)
  BY DEF PostOrder
<1>2. Exposed(orders, sent, restarts)' = Exposed(orders, sent, restarts)
  BY <1>1, ExposedStays DEF PostOrder, CoreNext
<1>3. Exposed(orders, sent, restarts) \in Int /\ Exposed(orders, sent, restarts) <= position
      /\ position \in Nat
  BY ExposedTerms DEF ExposureInv, Announced, PostOrder, ApiInv, TypeOK
<1>4. PICK order \in OrderRecord :
        /\ seq' = seq + 1
        /\ orders' = [i \in 1..(seq + 1) |-> IF i = seq + 1 THEN order ELSE orders[i]]
        /\ order.side = req.side
        /\ \/ SubmitUnpriced(req) /\ order.status = "Rejected"
           \/ SubmitAccepted(req) /\ order.status = "Accepted"
              /\ Notional(order) = Notional(NewOrder(req))
           \/ SubmitRefused(req) /\ order.status = "Rejected"
  BY <1>1, SubmitStep DEF ApiInv
<1>5. seq \in Nat /\ orders'[seq + 1] = order
  BY <1>4, MaxSeqAssumption DEF ApiInv, TypeOK
<1>6. placing' = ToPlace(seq + 1, req, order.status)
  BY <1>4, <1>5 DEF PostOrder
<1>7. CASE order.status = "Rejected"
  <2>1. placing' = <<>> /\ position' = position
    BY <1>4, <1>6, <1>7 DEF ToPlace, SubmitUnpriced, SubmitRefused
  <2> QED BY <1>2, <1>3, <2>1 DEF ExposureInv, Announced
<1>8. CASE SubmitAccepted(req) /\ order.status = "Accepted"
           /\ Notional(order) = Notional(NewOrder(req))
  <2>1. position' = IF req.side = "Buy" THEN position + Notional(order) ELSE position
    BY <1>8 DEF SubmitAccepted, PositionAfter, NewOrder
  <2>2. placing' # <<>> /\ placing'[1].side = req.side /\ placing'[1].id = seq + 1
    BY <1>6, <1>8 DEF ToPlace, PlaceRequest
  <2>3. Announced(orders', placing') = IF req.side = "Buy" THEN Notional(order) ELSE 0
    BY <1>5, <2>2 DEF Announced
  <2>4. Notional(order) \in Nat
    BY NotionalType
  <2> QED BY <1>2, <1>3, <2>1, <2>3, <2>4 DEF ExposureInv
<1> QED BY <1>4, <1>7, <1>8

(* What is sent was announced.                                                *)
LEMMA SendingCounted ==
    ASSUME ApiInv, ExposureInv, NEW arrives \in BOOLEAN, PlaceOrder(arrives)
    PROVE  ExposureInv'
<1> DEFINE B == BuysSent(sent, restarts)
           r == placing[1]
           k == Len(sent) + 1
<1>1. /\ placing # <<>> /\ placing' = <<>> /\ position' = position /\ orders' = orders
      /\ restarts' = restarts
      /\ sent' = IF arrives THEN Append(sent, r) ELSE sent
  BY DEF PlaceOrder, coreVars
<1>2. /\ r \in PlacedOrder /\ r.epoch = restarts /\ r.id \in DOMAIN orders
      /\ orders[r.id] \in OrderRecord
  BY <1>1 DEF ApiInv, PlacingInv, Agrees, TypeOK
<1>3. Notional(orders[r.id]) \in Nat /\ Exposed(orders, sent, restarts) \in Int /\ position \in Nat
  BY <1>2, NotionalType, ExposedTerms DEF ApiInv, TypeOK
<1>4. Announced(orders, placing) = IF r.side = "Buy" THEN Notional(orders[r.id]) ELSE 0
  BY <1>1 DEF Announced
<1>5. Announced(orders', placing') = 0
  BY <1>1 DEF Announced
<1>6. CASE ~arrives
  BY <1>1, <1>3, <1>4, <1>5, <1>6 DEF ExposureInv
<1>7. CASE arrives
  <2> HIDE DEF r
  <2>1. sent \in Seq(PlacedOrder) /\ Len(sent) \in Nat /\ DOMAIN sent = 1..Len(sent)
    BY LenProperties DEF ApiInv, SentInv
  <2>2. /\ DOMAIN sent' = 1..k /\ sent'[k] = r /\ k \notin DOMAIN sent
        /\ \A i \in DOMAIN sent : sent'[i] = sent[i]
    BY <1>1, <1>2, <1>7, <2>1
  <2>3. DOMAIN sent' = DOMAIN sent \union {k}
    BY <2>1, <2>2
  <2> HIDE DEF k
  <2> DEFINE f == [i \in B |-> Notional(orders[sent[i].id])]
             g == [i \in BuysSent(sent', restarts) |-> Notional(orders[sent'[i].id])]
  <2>4. CASE r.side = "Buy"
    <3>1. BuysSent(sent', restarts) = B \union {k} /\ k \notin B
      BY <1>2, <2>2, <2>3, <2>4 DEF BuysSent
    <3>2. \A i \in B : g[i] = f[i]
      BY <2>2, <3>1 DEF BuysSent
    <3>3. g[k] = Notional(orders[r.id])
      BY <2>2, <3>1
    <3>4. f \in [B -> Int] /\ IsFiniteSet(B)
      BY ExposedTerms
    <3>5. g \in [B \union {k} -> Int]
      <4>1. \A i \in B : g[i] \in Int
        BY <3>2, <3>4
      <4> QED BY <1>3, <3>1, <3>3, <4>1
    <3> HIDE DEF f, g, B
    <3>6. SumFunction(g) = SumFunction(f) + g[k]
      BY <3>1, <3>2, <3>4, <3>5, SumFunctionAdd
    <3>7. Exposed(orders', sent', restarts') = Exposed(orders, sent, restarts) + Notional(orders[r.id])
      BY <1>1, <3>3, <3>6 DEF Exposed, f, g, B
    <3> QED BY <1>1, <1>3, <1>4, <1>5, <2>4, <3>7 DEF ExposureInv
  <2>5. CASE r.side # "Buy"
    <3>1. BuysSent(sent', restarts) = B
      BY <2>2, <2>3, <2>5 DEF BuysSent
    <3>2. g = f
      BY <2>2, <3>1 DEF BuysSent
    <3>3. Exposed(orders', sent', restarts') = Exposed(orders, sent, restarts)
      BY <1>1, <3>2 DEF Exposed
    <3> QED BY <1>1, <1>3, <1>4, <1>5, <2>5, <3>3 DEF ExposureInv
  <2> QED BY <2>4, <2>5
<1> QED BY <1>6, <1>7

(* Every step keeps what was sent within what is counted.                     *)
LEMMA ExposureNext == ApiInv /\ ExposureInv /\ [ApiNext]_allVars => ExposureInv'
<1> SUFFICES ASSUME ApiInv, ExposureInv, [ApiNext]_allVars PROVE ExposureInv'
  OBVIOUS
<1>1. ASSUME [CoreNext]_coreVars, UNCHANGED <<placing, sent, restarts, position>>
      PROVE  ExposureInv'
  <2>1. Exposed(orders, sent, restarts)' = Exposed(orders, sent, restarts)
    BY <1>1, ExposedStays
  <2>2. Announced(orders', placing') = Announced(orders, placing)
    <3>1. CASE placing = <<>>
      BY <1>1, <3>1 DEF Announced
    <3>2. CASE placing # <<>>
      <4>1. placing[1].id \in DOMAIN orders
        BY <3>2 DEF ApiInv, PlacingInv, Agrees
      <4>2. Notional(orders'[placing[1].id]) = Notional(orders[placing[1].id])
        BY <1>1, <4>1, NotionalStays DEF ApiInv
      <4> QED BY <1>1, <4>2 DEF Announced
    <3> QED BY <3>1, <3>2
  <2> QED BY <1>1, <2>1, <2>2 DEF ExposureInv
<1>2. ASSUME Restart PROVE ExposureInv'
  <2>1. restarts' = restarts + 1 /\ sent' = sent /\ placing' = <<>> /\ position' = 0
    BY <1>2 DEF Restart
  <2>2. BuysSent(sent, restarts + 1) = {}
    <3>1. sent \in Seq(PlacedOrder) /\ DOMAIN sent = 1..Len(sent) /\ restarts \in Nat
      BY LenProperties DEF ApiInv, SentInv
    <3>2. \A i \in 1..Len(sent) : sent[i] \in PlacedOrder
      BY <3>1, ElementOfSeq
    <3>3. \A i \in 1..Len(sent) : sent[i].epoch \in Nat /\ sent[i].epoch <= restarts
      BY <3>2 DEF PlacedOrder, ApiInv, SentInv
    <3> QED BY <3>1, <3>3 DEF BuysSent
  <2>3. Exposed(orders', sent, restarts + 1) = 0
    <3> DEFINE f == [i \in BuysSent(sent, restarts + 1) |-> Notional(orders'[sent[i].id])]
    <3>1. f \in [{} -> Int] /\ IsFiniteSet({})
      BY <2>2, FS_EmptySet
    <3> QED BY <3>1, SumFunctionType DEF Exposed
  <2> QED BY <2>1, <2>3 DEF ExposureInv, Announced
<1>3. ASSUME NEW price \in Prices, Tick(price) PROVE ExposureInv'
  BY <1>1, <1>3 DEF Tick, CoreNext, OnTick, apiVars
<1>4. ASSUME NEW id \in 0..MaxSeq, PostCancel(id) PROVE ExposureInv'
  BY <1>1, <1>4 DEF PostCancel, CoreNext, CancelOrder, apiVars
<1>5. ASSUME NEW cfg \in ValidRisks, PostRiskConfig(cfg) PROVE ExposureInv'
  BY <1>1, <1>5 DEF PostRiskConfig, CoreNext, UpdateRiskConfig, apiVars
<1>6. CASE UNCHANGED allVars
  BY <1>1, <1>6 DEF allVars, apiVars, coreVars
<1> QED BY <1>2, <1>3, <1>4, <1>5, <1>6, PostCounts, SendingCounted DEF ApiNext

(* What this run of the process bought, in the quantities printed, never      *)
(* exceeds the position the risk check counts by more than the printing may   *)
(* add, whatever replies are lost and whatever is cancelled.                  *)
THEOREM ExposureIsCovered == ApiSpec => []ExposureCovered
<1>1. ApiInit => ExposureInv
  <2> SUFFICES ASSUME ApiInit PROVE ExposureInv
    OBVIOUS
  <2>1. sent = <<>> /\ placing = <<>> /\ position = 0 /\ BuysSent(sent, restarts) = {}
    BY DEF ApiInit, CoreInit, BuysSent
  <2> DEFINE f == [i \in BuysSent(sent, restarts) |-> Notional(orders[sent[i].id])]
  <2>2. f \in [{} -> Int] /\ IsFiniteSet({})
    BY <2>1, FS_EmptySet
  <2>3. Exposed(orders, sent, restarts) = 0
    BY <2>2, SumFunctionType DEF Exposed
  <2> QED BY <2>1, <2>3 DEF ExposureInv, Announced
<1>2. ApiInv /\ ExposureInv => ExposureCovered
  <2> SUFFICES ASSUME ApiInv, ExposureInv PROVE ExposureCovered
    OBVIOUS
  <2>1. Exposed(orders, sent, restarts) \in Int /\ position \in Nat
    BY ExposedTerms DEF ApiInv, TypeOK
  <2>2. Announced(orders, placing) \in Nat
    <3>1. placing # <<>> => orders[placing[1].id] \in OrderRecord
      BY DEF ApiInv, PlacingInv, Agrees, TypeOK
    <3> QED BY <3>1, NotionalType DEF Announced
  <2>3. Exposed(orders, sent, restarts) <= position
    BY <2>1, <2>2 DEF ExposureInv
  <2> DEFINE B == BuysSent(sent, restarts)
             f == [i \in B |-> SentValue2(i)]
             g == [i \in B |-> Notional(orders[sent[i].id])]
  <2>4. SentBuys = B
    BY DEF SentBuys, SentNow, BuysSent
  <2>5. IsFiniteSet(B) /\ g \in [B -> Int]
    BY ExposedTerms
  <2>6. f \in [B -> Int] /\ \A i \in B : f[i] <= 2 * g[i]
    BY SentWithinChecked
  <2> HIDE DEF B, f, g
  <2>7. SumFunction(f) <= 2 * SumFunction(g)
    BY <2>5, <2>6, SumFunctionTwice
  <2>8. ExposureCovered <=> SumFunction(f) <= 2 * position
    BY <2>4 DEF ExposureCovered, f
  <2>9. Exposed(orders, sent, restarts) = SumFunction(g)
    BY DEF Exposed, B, g
  <2>10. SumFunction(f) \in Int
    BY <2>5, <2>6, SumFunctionType
  <2> DEFINE x == SumFunction(f)
             y == SumFunction(g)
  <2>11. x \in Int /\ y \in Int /\ x <= 2 * y /\ y <= position /\ position \in Nat
    BY <2>1, <2>3, <2>7, <2>9, <2>10
  <2> HIDE DEF x, y
  <2>12. x <= 2 * position
    BY <2>11
  <2> QED BY <2>8, <2>12 DEF x
<1> QED BY <1>1, <1>2, ApiInvInit, ApiInvNext, ExposureNext, PTL DEF ApiSpec

----------------------------------------------------------------------------
CacheItem == [id: Nat, status: Statuses, reason: Reasons]

\* What the cache says of an order is what the OMS, holding the orders m, says,
\* but for a cancel.
Tells(m, item) ==
    /\ item.id \in DOMAIN m
    /\ item.reason = m[item.id].reason
    /\ \/ item.status = m[item.id].status
       \/ item.status = "Accepted" /\ m[item.id].status = "Cancelled"

\* The window c on the orders m when n numbers have been given out.
Window(c, m, n) ==
    /\ Len(c) <= MaxOrders
    /\ c = <<>> => n = 0 \/ trim_batch > MaxOrders
    /\ \A k \in 1..Len(c) : c[k].id = n - Len(c) + k /\ Tells(m, c[k])

CacheInv ==
    /\ trim_batch \in TrimBatches
    /\ cache \in Seq(CacheItem)
    /\ Window(cache, orders, seq)

(* The window, spelled out, is CacheWindow.                                   *)
LEMMA WindowMeans ==
    ASSUME trim_batch \in TrimBatches, cache \in Seq(CacheItem)
    PROVE  CacheWindow <=> Window(cache, orders, seq)
<1>1. DOMAIN cache = 1..Len(cache)
  BY LenProperties
<1> QED BY <1>1 DEF CacheWindow, Window, Tells

(* A push, with its trim, moves the window on by one order.                   *)
LEMMA PushMovesWindow ==
    ASSUME NEW m, NEW n \in Nat, NEW c \in Seq(CacheItem), Window(c, m, n),
           trim_batch \in TrimBatches,
           NEW item \in CacheItem, item.id = n + 1, Tells(m, item)
    PROVE  PushOrder(c, item) \in Seq(CacheItem) /\ Window(PushOrder(c, item), m, n + 1)
<1> DEFINE all == Append(c, item)
           len == Len(c) + 1
           cut == IF trim_batch < len THEN trim_batch ELSE len
<1>1. /\ Len(c) \in Nat /\ len = Len(c) + 1
      /\ all \in Seq(CacheItem) /\ Len(all) = len /\ all[len] = item
      /\ \A k \in 1..Len(c) : all[k] = c[k]
  OBVIOUS
<1>2. MaxOrders \in Nat \ {0} /\ trim_batch \in Nat \ {0}
  BY CacheAssumption
<1>3. cut \in 1..len /\ len \in Nat /\ (cut = len => trim_batch >= len)
  BY <1>1, <1>2
<1>4. \A k \in 1..len : all[k].id = n + 1 - len + k /\ Tells(m, all[k])
  BY <1>1 DEF Window
<1>5. PushOrder(c, item) = IF len > MaxOrders THEN SubSeq(all, cut + 1, len) ELSE all
  BY <1>1 DEF PushOrder
<1> HIDE DEF all, cut, len
<1>6. CASE len > MaxOrders
  <2> DEFINE rest == SubSeq(all, cut + 1, len)
  <2>1. \A i \in (cut + 1)..len : all[i] \in CacheItem
    BY <1>1, <1>3, ElementOfSeq
  <2>2. /\ rest \in Seq(CacheItem)
        /\ Len(rest) = (IF cut + 1 <= len THEN len - (cut + 1) + 1 ELSE 0)
        /\ \A i \in 1..(len - (cut + 1) + 1) : rest[i] = all[(cut + 1) + i - 1]
    BY <1>3, <2>1, SubSeqProperties
  <2> HIDE DEF rest
  <2>3. Len(rest) = len - cut /\ \A i \in 1..(len - cut) : rest[i] = all[cut + i]
    <3>1. /\ len - (cut + 1) + 1 = len - cut
          /\ \A i \in 1..(len - cut) : (cut + 1) + i - 1 = cut + i
      BY <1>3
    <3>2. Len(rest) = len - cut
      BY <1>3, <2>2
    <3> QED BY <2>2, <3>1, <3>2
  <2>4. Len(rest) <= MaxOrders
    BY <1>1, <1>2, <1>3, <2>3 DEF Window
  <2>5. rest = <<>> => trim_batch > MaxOrders
    BY <1>2, <1>3, <1>6, <2>3
  <2>6. \A k \in 1..Len(rest) : rest[k].id = (n + 1) - Len(rest) + k /\ Tells(m, rest[k])
    <3> SUFFICES ASSUME NEW k \in 1..Len(rest)
                 PROVE  rest[k].id = (n + 1) - Len(rest) + k /\ Tells(m, rest[k])
      OBVIOUS
    <3>1. rest[k] = all[cut + k] /\ cut + k \in 1..len /\ k \in Int /\ Len(rest) = len - cut
      BY <1>3, <2>3
    <3>2. all[cut + k].id = n + 1 - len + (cut + k) /\ Tells(m, all[cut + k])
      BY <1>4, <3>1
    <3>3. n + 1 - len + (cut + k) = (n + 1) - (len - cut) + k
      BY <1>3, <3>1
    <3> QED BY <3>1, <3>2, <3>3
  <2> QED BY <1>5, <1>6, <2>2, <2>4, <2>5, <2>6 DEF Window, rest
<1>7. CASE ~(len > MaxOrders)
  <2>1. all # <<>> /\ Len(all) <= MaxOrders
    BY <1>1, <1>2, <1>7
  <2>2. Window(all, m, n + 1)
    BY <1>1, <1>4, <2>1 DEF Window
  <2> QED BY <1>1, <1>5, <1>7, <2>2
<1> QED BY <1>6, <1>7

(* No step but a restart changes what the OMS says of a cached order, but for *)
(* a cancel.                                                                  *)
LEMMA TellsStays ==
    ASSUME TypeOK, [CoreNext]_coreVars, NEW item, Tells(orders, item)
    PROVE  Tells(orders', item)
<1>1. ASSUME NEW req \in Requests,
             SubmitUnpriced(req) \/ SubmitAccepted(req) \/ SubmitRefused(req)
      PROVE  Tells(orders', item)
  <2>1. PICK order \in OrderRecord :
          orders' = [i \in 1..(seq + 1) |-> IF i = seq + 1 THEN order ELSE orders[i]]
    BY <1>1, SubmitStep
  <2>2. item.id \in 1..seq /\ seq \in Nat
    BY MaxSeqAssumption DEF TypeOK, Tells
  <2>3. orders'[item.id] = orders[item.id] /\ item.id \in DOMAIN orders'
    BY <2>1, <2>2
  <2> QED BY <2>3 DEF Tells
<1>2. ASSUME NEW id \in 0..MaxSeq, CancelOrder(id) PROVE Tells(orders', item)
  <2>1. CASE orders' = orders
    BY <2>1
  <2>2. CASE orders[id].status = "Accepted" /\ orders' = [orders EXCEPT ![id].status = "Cancelled"]
    <3>1. orders[item.id] \in OrderRecord /\ item.id \in 1..seq /\ orders \in [1..seq -> OrderRecord]
      BY DEF TypeOK, Tells
    <3>2. /\ orders'[item.id].reason = orders[item.id].reason
          /\ \/ orders'[item.id].status = orders[item.id].status
             \/ orders[item.id].status = "Accepted" /\ orders'[item.id].status = "Cancelled"
          /\ DOMAIN orders' = DOMAIN orders
      BY <2>2, <3>1 DEF OrderRecord
    <3> QED BY <3>2 DEF Tells
  <2> QED BY <1>2, <2>1, <2>2, CancelStep
<1>3. ASSUME orders' = orders PROVE Tells(orders', item)
  BY <1>3
<1> QED BY <1>1, <1>2, <1>3 DEF CoreNext, OnTick, UpdateRiskConfig, coreVars

(* The window is there from the start.                                        *)
LEMMA CacheInvInit == ApiInit => CacheInv
BY EmptySeq, CacheAssumption DEF ApiInit, CoreInit, CacheInv, Window

(* Every step keeps the window on the orders.                                 *)
LEMMA CacheInvNext == TypeOK /\ CacheInv /\ [ApiNext]_allVars => CacheInv'
<1> SUFFICES ASSUME TypeOK, CacheInv, [ApiNext]_allVars PROVE CacheInv'
  OBVIOUS
<1>1. \A m : (\A item : Tells(orders, item) => Tells(m, item)) => Window(cache, m, seq)
  BY DEF CacheInv, Window
<1>2. ASSUME [CoreNext]_coreVars, seq' = seq, UNCHANGED <<cache, trim_batch>> PROVE CacheInv'
  BY <1>1, <1>2, TellsStays DEF CacheInv, Window
<1>3. ASSUME NEW req \in Requests, PostOrder(req) PROVE CacheInv'
  <2>1. SubmitUnpriced(req) \/ SubmitAccepted(req) \/ SubmitRefused(req)
    BY <1>3 DEF PostOrder
  <2>2. PICK order \in OrderRecord :
          /\ seq' = seq + 1
          /\ orders' = [i \in 1..(seq + 1) |-> IF i = seq + 1 THEN order ELSE orders[i]]
    BY <2>1, SubmitStep
  <2>3. seq \in Nat /\ orders'[seq + 1] = order /\ seq + 1 \in DOMAIN orders'
    BY <2>2, MaxSeqAssumption DEF TypeOK
  <2>4. CoreNext
    BY <2>1 DEF CoreNext
  <2> DEFINE item == [id |-> seq + 1, status |-> order.status, reason |-> order.reason]
  <2>5. item \in CacheItem /\ item.id = seq + 1 /\ Tells(orders', item)
    BY <2>3 DEF CacheItem, OrderRecord, Tells
  <2>6. cache' = PushOrder(cache, item) /\ trim_batch' = trim_batch
    BY <1>3, <2>2, <2>3 DEF PostOrder
  <2> HIDE DEF item
  <2>7. Window(cache, orders', seq)
    BY <1>1, <2>4, TellsStays
  <2>8. PushOrder(cache, item) \in Seq(CacheItem)
        /\ Window(PushOrder(cache, item), orders', seq + 1)
    BY <2>3, <2>5, <2>7, PushMovesWindow DEF CacheInv
  <2> QED BY <2>2, <2>6, <2>8 DEF CacheInv, Window
<1>4. ASSUME NEW arrives \in BOOLEAN, PlaceOrder(arrives) PROVE CacheInv'
  BY <1>2, <1>4 DEF PlaceOrder, coreVars
<1>5. ASSUME Restart PROVE CacheInv'
  BY <1>5, EmptySeq, CacheAssumption DEF Restart, CacheInv, Window
<1>6. ASSUME NEW price \in Prices, Tick(price) PROVE CacheInv'
  BY <1>2, <1>6 DEF Tick, OnTick, CoreNext, apiVars
<1>7. ASSUME NEW id \in 0..MaxSeq, PostCancel(id) PROVE CacheInv'
  BY <1>2, <1>7 DEF PostCancel, CancelOrder, CoreNext, apiVars
<1>8. ASSUME NEW cfg \in ValidRisks, PostRiskConfig(cfg) PROVE CacheInv'
  BY <1>2, <1>8 DEF PostRiskConfig, UpdateRiskConfig, CoreNext, apiVars
<1>9. CASE UNCHANGED allVars
  BY <1>2, <1>9 DEF allVars, apiVars, coreVars
<1> QED BY <1>3, <1>4, <1>5, <1>6, <1>7, <1>8, <1>9 DEF ApiNext

(* GET /orders shows consecutive orders up to the newest with the decisions   *)
(* the OMS took, for any cache size; a trim loses the newest only when the    *)
(* batch is above max_orders_cache.                                           *)
THEOREM CacheIsWindow == ApiSpec => []CacheWindow
<1>1. ApiInv => TypeOK
  BY DEF ApiInv
<1>2. CacheInv => CacheWindow
  BY WindowMeans DEF CacheInv
<1> QED BY <1>1, <1>2, ApiInvInit, ApiInvNext, CacheInvInit, CacheInvNext, PTL DEF ApiSpec
=============================================================================
