---------------------------- MODULE TradingCore ----------------------------
(* TradingCore with the OMS and the RiskEngine it owns (src/cpp/src/core).    *)
(*                                                                            *)
(* Submitting, cancelling and reconfiguring all run on the control thread and *)
(* touch nothing another thread writes except last_price, which a submission  *)
(* reads once: one action per call loses no interleaving.                     *)
(* Prices, quantities and money are whole numbers and ratios are percent, so  *)
(* the code's floating-point comparisons are exact here. Logging is left out. *)
EXTENDS Integers, Functions

CONSTANTS
    Qtys,           \* order quantities: the router refuses qty <= 0
    Prices,         \* tick prices
    LimitPrices,    \* limit prices of requests: the router checks only their quantity
    Equity,         \* AccountSnapshot::equity_usd, never assigned
    DayLoss,        \* AccountSnapshot::day_loss_usd, never assigned
    StartRisks,     \* risk configurations a start may read: nothing validates them
    ValidRisks,     \* risk configurations POST /risk/config lets through
    MaxSeq          \* bound on the number of orders

ASSUME QtysAssumption == Qtys \subseteq Nat \ {0}
ASSUME PricesAssumption == Prices \subseteq Nat \ {0}
\* a request without a limit price has 0, one with a minus sign a negative one
ASSUME LimitPricesAssumption == LimitPrices \subseteq Int
ASSUME EquityAssumption == Equity \in Nat
ASSUME DayLossAssumption == DayLoss \in Nat
ASSUME MaxSeqAssumption == MaxSeq \in Nat

RiskConfig == [maxNotional: Nat, ratio: Nat, stop: Nat]

\* POST /risk/config enforces the ratio's range; the shipped start
\* configuration (config/engine.yaml) is within it.
ASSUME RiskAssumption ==
    /\ StartRisks \subseteq RiskConfig
    /\ ValidRisks \subseteq RiskConfig
    /\ \A r \in StartRisks \union ValidRisks : r.ratio <= 100

VARIABLES
    orders,         \* OMS::orders_, order number -> record
    seq,            \* TradingCore::seq_
    last_price,     \* TradingCore::last_price_, 0 before the first tick
    position,       \* account_.position_notional_usd
    risk            \* RiskEngine::cfg_

coreVars == <<orders, seq, last_price, position, risk>>

----------------------------------------------------------------------------
Sides == {"Buy", "Sell"}
Types == {"Market", "Limit"}
Statuses == {"New", "Accepted", "Rejected", "Cancelled"}
RiskReasons == {"MaxSingleOrderNotional", "MaxPositionRatio", "DailyLossStop"}
Reasons == {"None", "PriceUnavailable"} \union RiskReasons

Requests == [side: Sides, type: Types, qty: Qtys, price: LimitPrices]

\* What an order may be valued at: a tick's price, a limit price above 0, or
\* nothing yet.
RefPrices == {0} \union Prices \union {p \in LimitPrices : p > 0}

OrderRecord == [side: Sides, type: Types, qty: Qtys, ref: RefPrices,
                status: Statuses, reason: Reasons]

\* The OMS: each operation gives the next value of the order map m.
OmsSubmit(m, id, order) ==
    IF id \in DOMAIN m THEN m
    ELSE [i \in DOMAIN m \union {id} |-> IF i = id THEN order ELSE m[i]]

OmsAccept(m, id) ==
    IF id \in DOMAIN m /\ m[id].status = "New"
    THEN [m EXCEPT ![id].status = "Accepted"] ELSE m

\* Mutant: the reason is not recorded.
OmsRejectSilently(m, id, why) ==
    IF id \in DOMAIN m /\ m[id].status = "New"
    THEN [m EXCEPT ![id].status = "Rejected"] ELSE m

OmsReject(m, id, why) ==
    IF id \in DOMAIN m /\ m[id].status = "New"
    THEN [m EXCEPT ![id].status = "Rejected", ![id].reason = why] ELSE m

\* Mutant: any order can be cancelled.
OmsCancelAny(m, id) ==
    IF id \in DOMAIN m THEN [m EXCEPT ![id].status = "Cancelled"] ELSE m

OmsCancel(m, id) ==
    IF id \in DOMAIN m /\ m[id].status = "Accepted"
    THEN [m EXCEPT ![id].status = "Cancelled"] ELSE m

Notional(order) == order.qty * order.ref

\* the loss ratio counts as 100% when there is no equity
DayLossStopped ==
    IF Equity > 0 THEN DayLoss * 100 >= Equity * risk.stop ELSE 100 >= risk.stop

\* Mutants: the position already held is not counted; sells are let through.
CheckOrderAlone(order) ==
    IF Notional(order) > risk.maxNotional THEN "MaxSingleOrderNotional"
    ELSE IF Notional(order) * 100 > Equity * risk.ratio THEN "MaxPositionRatio"
    ELSE IF DayLossStopped THEN "DailyLossStop"
    ELSE "None"

CheckBuysOnly(order) ==
    IF order.side = "Sell" THEN "None"
    ELSE IF Notional(order) > risk.maxNotional THEN "MaxSingleOrderNotional"
    ELSE IF (position + Notional(order)) * 100 > Equity * risk.ratio THEN "MaxPositionRatio"
    ELSE IF DayLossStopped THEN "DailyLossStop"
    ELSE "None"

\* check_pre_trade looks at the side of the order nowhere: sells are limited too
CheckPreTrade(order) ==
    IF Notional(order) > risk.maxNotional THEN "MaxSingleOrderNotional"
    ELSE IF (position + Notional(order)) * 100 > Equity * risk.ratio THEN "MaxPositionRatio"
    ELSE IF DayLossStopped THEN "DailyLossStop"
    ELSE "None"

RefPrice(req) ==
    IF req.type = "Limit" /\ req.price > 0 THEN req.price ELSE last_price

NewOrder(req) ==
    [side |-> req.side, type |-> req.type, qty |-> req.qty, ref |-> RefPrice(req),
     status |-> "New", reason |-> "None"]

\* Mutants: an accepted sell is taken off the position; it is added to it.
NettedPosition(order) ==
    IF order.side = "Buy" THEN position + Notional(order) ELSE position - Notional(order)

GrossPosition(order) == position + Notional(order)

\* The position once an order is accepted: only buys are counted.
PositionAfter(order) ==
    IF order.side = "Buy" THEN position + Notional(order) ELSE position

----------------------------------------------------------------------------
CoreInit ==
    /\ orders = [i \in {} |-> 0]
    /\ seq = 0
    /\ last_price = 0
    /\ position = 0
    /\ risk \in StartRisks

OnTick(price) ==
    /\ last_price' = price
    /\ UNCHANGED <<orders, seq, position, risk>>

\* The three ways submit_manual_order ends. Its "duplicate order id" return is
\* not among them: numbers come from seq_, which only grows.
SubmitUnpriced(req) ==
    /\ seq < MaxSeq
    /\ RefPrice(req) <= 0
    /\ seq' = seq + 1
    /\ orders' = OmsReject(OmsSubmit(orders, seq', NewOrder(req)), seq', "PriceUnavailable")
    /\ UNCHANGED <<last_price, position, risk>>

SubmitAccepted(req) ==
    /\ seq < MaxSeq
    /\ RefPrice(req) > 0
    /\ CheckPreTrade(NewOrder(req)) = "None"
    /\ seq' = seq + 1
    /\ orders' = OmsAccept(OmsSubmit(orders, seq', NewOrder(req)), seq')
    /\ position' = PositionAfter(NewOrder(req))
    /\ UNCHANGED <<last_price, risk>>

SubmitRefused(req) ==
    /\ seq < MaxSeq
    /\ RefPrice(req) > 0
    /\ CheckPreTrade(NewOrder(req)) # "None"
    /\ seq' = seq + 1
    /\ orders' = OmsReject(OmsSubmit(orders, seq', NewOrder(req)), seq',
                           CheckPreTrade(NewOrder(req)))
    /\ UNCHANGED <<last_price, position, risk>>

CancelOrder(id) ==
    /\ orders' = OmsCancel(orders, id)
    /\ UNCHANGED <<seq, last_price, position, risk>>

UpdateRiskConfig(cfg) ==
    /\ risk' = cfg
    /\ UNCHANGED <<orders, seq, last_price, position>>

CoreNext ==
    \/ \E price \in Prices : OnTick(price)
    \/ \E req \in Requests : SubmitUnpriced(req) \/ SubmitAccepted(req) \/ SubmitRefused(req)
    \/ \E id \in 0..MaxSeq : CancelOrder(id)
    \/ \E cfg \in ValidRisks : UpdateRiskConfig(cfg)

CoreSpec == CoreInit /\ [][CoreNext]_coreVars

----------------------------------------------------------------------------
(* Every variable keeps its type, and order numbers are used without gaps:    *)
(* the OMS holds a record for each number seq_ has given out and no other.    *)
TypeOK ==
    /\ seq \in 0..MaxSeq
    /\ orders \in [1..seq -> OrderRecord]
    /\ last_price \in Prices \union {0}
    /\ position \in Nat
    /\ risk \in StartRisks \union ValidRisks

\* A record whose status, reason and reference price agree with each other.
Settled(order) ==
    \/ /\ order.status \in {"Accepted", "Cancelled"}
       /\ order.reason = "None"
       /\ order.ref > 0
    \/ /\ order.status = "Rejected"
       /\ IF order.ref > 0 THEN order.reason \in RiskReasons
                           ELSE order.reason = "PriceUnavailable"

(* "Whether Accepted or Rejected, it lands in the OMS" (trading_core.hpp):    *)
(* no call leaves an order in New, an order is rejected for want of a price   *)
(* exactly when it had none, and a rejected order carries the reason why.     *)
SettledOrders == \A id \in DOMAIN orders : Settled(orders[id])

(* However the limits are changed between orders, check_pre_trade keeps the   *)
(* buys that were accepted within the account's equity.                       *)
NoLeverage == position <= Equity

AcceptedBuys ==
    {id \in DOMAIN orders : orders[id].side = "Buy" /\ orders[id].status # "Rejected"}

(* The account's position is the ledger's: position_notional_usd is the sum   *)
(* of the buys that were accepted, those cancelled since included.            *)
PositionLedger == position = SumFunction([id \in AcceptedBuys |-> Notional(orders[id])])

OverLimit == position * 100 > Equity * risk.ratio

(* Once a lowered max_position_ratio leaves the position above the limit, no  *)
(* order at all is accepted, not even a sell, until the ratio is raised: the  *)
(* check adds the notional of either side and nothing reduces the position.   *)
OverLimitFreezes ==
    [][OverLimit => \A id \in DOMAIN orders' \ DOMAIN orders :
                        orders'[id].status = "Rejected"]_coreVars

(* TradingCore keeps the promises of OrderGate.                               *)
Gate == INSTANCE OrderGate WITH
    Values <- {q * p : q \in Qtys, p \in RefPrices},
    issued <- seq,
    ledger <- [id \in DOMAIN orders |->
                 [side |-> orders[id].side, value |-> Notional(orders[id]),
                  status |-> orders[id].status]],
    exposure <- position

ImplementsGate == Gate!GateSpec
=============================================================================
