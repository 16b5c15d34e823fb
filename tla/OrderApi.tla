------------------------------ MODULE OrderApi ------------------------------
(* The manual-trading half of the control API around TradingCore: the order   *)
(* and cancel handlers of control_api_router.cpp, the cache GET /orders reads, *)
(* and the call to the exchange, with crashes and restarts in between.        *)
(*                                                                            *)
(* The control thread serves one request at a time and the call to the        *)
(* exchange blocks it, so a second request never overlaps a first; ticks and  *)
(* a crash do. TradingCore and the cache live in memory, what the exchange    *)
(* received does not. The events list is left out.                            *)
EXTENDS TradingCore, SequencesExt

CONSTANTS
    MaxOrders,      \* kMaxOrders: most orders the cache keeps
    TrimBatches,    \* values of kOrderTrimBatch: nothing ties it to MaxOrders
    DryRun,         \* ExecConfig::dry_run
    QtyUnit,        \* the sixth decimal, in the units of Qtys
    PriceUnit,      \* the second decimal, in the units of prices
    MaxRestarts,    \* bound on the number of restarts
    CrashBy         \* bound on the number of orders taken before a crash

ASSUME CacheAssumption == MaxOrders \in Nat \ {0} /\ TrimBatches \subseteq Nat \ {0}
ASSUME DryRunAssumption == DryRun \in BOOLEAN
ASSUME UnitsAssumption == QtyUnit \in Nat \ {0} /\ PriceUnit \in Nat \ {0}
ASSUME BoundsAssumption == MaxRestarts \in Nat /\ CrashBy \in Nat

VARIABLES
    trim_batch,     \* kOrderTrimBatch: how many the cache drops when it overflows
    cache,          \* ctx.orders: what was replied about each recent order
    placing,        \* the request for an accepted order about to be sent, if any
    sent,           \* every order request the exchange received, in order
    restarts        \* how often the process was restarted

apiVars == <<trim_batch, cache, placing, sent, restarts>>
allVars == <<coreVars, apiVars>>

----------------------------------------------------------------------------
\* Mutant: the newest items are dropped instead of the oldest.
PushDroppingLast(items, item) ==
    LET all == Append(items, item)
        cut == IF trim_batch < Len(all) THEN trim_batch ELSE Len(all)
    IN  IF Len(all) > MaxOrders THEN SubSeq(all, 1, Len(all) - cut) ELSE all

\* The cache after pushing an item: an overflow drops the oldest batch, which
\* may be all of it.
PushOrder(items, item) ==
    LET all == Append(items, item)
        cut == IF trim_batch < Len(all) THEN trim_batch ELSE Len(all)
    IN  IF Len(all) > MaxOrders THEN SubSeq(all, cut + 1, Len(all)) ELSE all

\* A number printed with a fixed number of decimals, the last worth unit.
Fixed(n, unit) == ((2 * n + unit) \div (2 * unit)) * unit

\* What place_order sends: a limit order always has a price, the request's, even
\* when that is 0 or negative and the order was valued at the last tick.
PlaceRequest(id, req) ==
    [id |-> id, epoch |-> restarts, side |-> req.side, type |-> req.type,
     qty |-> Fixed(req.qty, QtyUnit),
     price |-> IF req.type = "Limit" THEN {Fixed(req.price, PriceUnit)} ELSE {}]

\* Mutant: an order is sent before its decision is looked at.
SendAlways(id, req, status) == <<PlaceRequest(id, req)>>

\* What the handler goes on to send for an order with this status.
ToPlace(id, req, status) == IF status = "Accepted" THEN <<PlaceRequest(id, req)>> ELSE <<>>

ApiInit ==
    /\ CoreInit
    /\ trim_batch \in TrimBatches
    /\ cache = <<>>
    /\ placing = <<>>
    /\ sent = <<>>
    /\ restarts = 0

Tick(price) == OnTick(price) /\ UNCHANGED apiVars

\* The order handler up to the call to the exchange.
PostOrder(req) ==
    /\ placing = <<>>
    /\ SubmitUnpriced(req) \/ SubmitAccepted(req) \/ SubmitRefused(req)
    /\ LET order == orders'[seq']
       IN  /\ cache' = PushOrder(cache, [id |-> seq', status |-> order.status,
                                         reason |-> order.reason])
           /\ placing' = ToPlace(seq', req, order.status)
    /\ UNCHANGED <<trim_batch, sent, restarts>>

\* The call to the exchange and the reply. The handler ignores the result: a
\* refusal, a timeout and a success look the same from here, and a request that
\* timed out may have arrived. A dry run sends nothing.
PlaceOrder(arrives) ==
    /\ placing # <<>>
    /\ DryRun => ~arrives
    /\ sent' = IF arrives THEN Append(sent, placing[1]) ELSE sent
    /\ placing' = <<>>
    /\ UNCHANGED <<coreVars, trim_batch, cache, restarts>>

\* Mutant: a cancelled buy is taken off the position.
PostCancelReleasing(id) ==
    /\ placing = <<>>
    /\ orders' = OmsCancel(orders, id)
    /\ position' = IF orders' # orders /\ orders[id].side = "Buy"
                   THEN position - Notional(orders[id]) ELSE position
    /\ UNCHANGED <<seq, last_price, risk, apiVars>>

\* The cancel handler: neither the cache nor the exchange hears of it.
PostCancel(id) ==
    /\ placing = <<>>
    /\ CancelOrder(id)
    /\ UNCHANGED apiVars

PostRiskConfig(cfg) ==
    /\ placing = <<>>
    /\ UpdateRiskConfig(cfg)
    /\ UNCHANGED apiVars

\* The process dies anywhere and the service manager starts it again, with the
\* limits of its configuration or the ones saved by an earlier run.
Restart ==
    /\ restarts < MaxRestarts /\ seq <= CrashBy
    /\ restarts' = restarts + 1
    /\ orders' = [i \in {} |-> 0]
    /\ seq' = 0 /\ last_price' = 0 /\ position' = 0
    /\ risk' \in StartRisks \union ValidRisks
    /\ cache' = <<>> /\ placing' = <<>>
    /\ UNCHANGED <<trim_batch, sent>>

ApiNext ==
    \/ \E price \in Prices : Tick(price)
    \/ \E req \in Requests : PostOrder(req)
    \/ \E arrives \in BOOLEAN : PlaceOrder(arrives)
    \/ \E id \in 0..MaxSeq : PostCancel(id)
    \/ \E cfg \in ValidRisks : PostRiskConfig(cfg)
    \/ Restart

ApiSpec == ApiInit /\ [][ApiNext]_allVars

----------------------------------------------------------------------------
Near(n, m, unit) == 2 * n <= 2 * m + unit /\ 2 * m <= 2 * n + unit

SentNow == {i \in DOMAIN sent : sent[i].epoch = restarts}

(* "Orders pass Risk and OMS first; if Accepted, place_order is called"       *)
(* (docs/execution_module.md): within one run of the process the exchange     *)
(* receives an order at most once, only one the OMS accepted, on the terms it *)
(* was accepted on up to the decimals printed. Only a price above 0 is the    *)
(* price the order was checked at: the handler looks at no other, and a limit *)
(* order at 0 or below goes out at its own price (see LimitOrdersPriced).     *)
GatedExchange ==
    /\ \A i \in SentNow :
          /\ sent[i].id \in DOMAIN orders
          /\ LET order == orders[sent[i].id]
             IN  /\ order.status \in {"Accepted", "Cancelled"}
                 /\ order.side = sent[i].side
                 /\ Near(sent[i].qty, order.qty, QtyUnit)
                 /\ \A price \in sent[i].price : price <= 0 \/ Near(price, order.ref, PriceUnit)
    /\ \A i, j \in SentNow : sent[i].id = sent[j].id => i = j

SentBuys == {i \in SentNow : sent[i].side = "Buy"}

\* Twice the value of what a request sent, at the price its order was checked at,
\* less what printing the quantity may have added to it: half its last decimal.
SentValue2(i) == (2 * sent[i].qty - QtyUnit) * orders[sent[i].id].ref

(* The quantities of this run's buys that reached the exchange, as they were  *)
(* printed, are within the position the risk check counts, up to half of the  *)
(* last printed decimal an order: an order is counted before it is sent, and  *)
(* a lost reply, an ignored failure or a cancel never takes it out again.     *)
ExposureCovered == SumFunction([i \in SentBuys |-> SentValue2(i)]) <= 2 * position

(* The cache is a window on the OMS: never more than it may hold, consecutive *)
(* orders up to the newest, oldest first, each with the decision the OMS      *)
(* took; only a later cancel is missing from it. The order just replied to is *)
(* lost only by a batch above max_orders_cache, which empties the cache.      *)
CacheWindow ==
    /\ Len(cache) <= MaxOrders
    /\ cache = <<>> => seq = 0 \/ trim_batch > MaxOrders
    /\ \A k \in DOMAIN cache :
          /\ cache[k].id = seq - Len(cache) + k
          /\ cache[k].id \in DOMAIN orders
          /\ LET order == orders[cache[k].id]
             IN  /\ cache[k].reason = order.reason
                 /\ \/ cache[k].status = order.status
                    \/ cache[k].status = "Accepted" /\ order.status = "Cancelled"

(* "limit order requires price" (binance_testnet_execution.cpp): no limit     *)
(* order goes to the exchange without a price.                                *)
LimitOrdersPriced ==
    \A i \in DOMAIN sent : sent[i].type = "Limit" => sent[i].price # {} /\ 0 \notin sent[i].price
=============================================================================
