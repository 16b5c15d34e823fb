---------------------------- MODULE GridTrading ----------------------------
(* A LongGridStrategy whose intents are traded: each intent becomes a working *)
(* order, each working order may fill, and the fill is reported to the grid   *)
(* by the level's id, as the methods and the strategy's documentation have    *)
(* it. The execution of intents is outside the repository (the tick handler   *)
(* only records them), so working and held model the market's side.           *)
EXTENDS LongGrid, FiniteSetsExt, Functions

CONSTANTS
    StartConfigs,   \* grid configurations a start may read: nothing validates them
    ApiConfigs,     \* configurations POST /strategy/grid/config lets through
    Ticks,          \* tick prices
    MaxWorking      \* bound on the number of working orders

\* (the configurations numbers of a fixed width can write are finitely many)
ASSUME ConfigsAssumption ==
    /\ IsFiniteSet(StartConfigs) /\ IsFiniteSet(ApiConfigs)
    /\ StartConfigs \subseteq GridConfig
    /\ ApiConfigs \subseteq GridConfig
    /\ \A cfg \in ApiConfigs : cfg.levels \in 2..200 /\ cfg.qty > 0
ASSUME TicksAssumption == Ticks \subseteq Nat
ASSUME WorkingAssumption == MaxWorking \in Nat

VARIABLES
    working,        \* orders in the market: sequence of intents with their generation
    held,           \* contracts bought and not sold again
    lateFills       \* fills of orders older than the grid (history)

gridVars == <<grid, working, held, lateFills>>

Generation == grid.rebuilds

Stamp(intents, gen) == [k \in DOMAIN intents |-> [order |-> intents[k], gen |-> gen]]

Drop(orders, k) == [n \in 1..(Len(orders) - 1) |-> IF n < k THEN orders[n] ELSE orders[n + 1]]

GridInit ==
    /\ grid \in {EmptyGrid(Sanitize(cfg)) : cfg \in StartConfigs}
    /\ working = <<>>
    /\ held = 0
    /\ lateFills = 0

\* A fill of working order k counts as late when the grid was rebuilt since.
CountLate(k) ==
    lateFills' = IF working[k].gen < Generation THEN lateFills + 1 ELSE lateFills

Tick(price) ==
    LET out == OnPriceTick(grid, price)
    IN  /\ out.grid.rebuilds <= MaxRebuilds
        /\ Len(working) + Len(out.intents) <= MaxWorking
        /\ grid' = out.grid
        /\ working' = working \o Stamp(out.intents, out.grid.rebuilds)
        /\ UNCHANGED <<held, lateFills>>

\* The market fills a working buy and the strategy is told.
BuyFills(k) ==
    /\ working[k].order.side = "Buy"
    /\ LET out == OnBuyFilled(grid, working[k].order.id)
       IN  /\ grid' = out.grid
           /\ working' = Drop(working, k) \o Stamp(out.intents, Generation)
    /\ held' = held + working[k].order.qty
    /\ CountLate(k)

SellFills(k) ==
    /\ working[k].order.side = "Sell"
    /\ grid' = OnSellFilled(grid, working[k].order.id)
    /\ working' = Drop(working, k)
    /\ held' = held - working[k].order.qty
    /\ CountLate(k)

Configure(cfg) ==
    LET next == UpdateConfig(grid, cfg)
    IN  /\ next.rebuilds <= MaxRebuilds
        /\ grid' = next
        /\ UNCHANGED <<working, held, lateFills>>

GridNext ==
    \/ \E price \in Ticks : Tick(price)
    \/ \E k \in DOMAIN working : BuyFills(k) \/ SellFills(k)
    \/ \E cfg \in ApiConfigs : Configure(cfg)

GridSpec == GridInit /\ [][GridNext]_gridVars

----------------------------------------------------------------------------
\* How many contracts the working orders of a side are for.
QtyOf(side) ==
    SumFunction([k \in DOMAIN working |->
                    IF working[k].order.side = side THEN working[k].order.qty ELSE 0])

\* The orders the market has for a level.
OrdersAt(id) == {k \in DOMAIN working : working[k].order.id = id}

(* Until the grid is first rebuilt, the levels say exactly what is in the     *)
(* market: a placed buy or sell has one working order, at the level's price,  *)
(* an idle level has none, and every contract held has its take-profit sell   *)
(* ("after a BUY fill a SELL LIMIT take-profit is generated").                *)
LevelsMirrorMarket ==
    grid.rebuilds <= 1 =>
        /\ \A id \in 1..Len(grid.levels) :
              LET level == grid.levels[id]
                  side == IF level.state = "BuyPlaced" THEN "Buy" ELSE "Sell"
              IN  IF level.state = "Idle" THEN OrdersAt(id) = {}
                  ELSE \E k \in DOMAIN working :
                          /\ OrdersAt(id) = {k}
                          /\ working[k].order.side = side
                          /\ working[k].order.price =
                               (IF side = "Buy" THEN level.buy ELSE level.sell)
        /\ held = QtyOf("Sell")

(* A dynamic grid recenters before it matches, so no level at or below the    *)
(* recentering edge under the anchor is ever bought: only the levels nearer   *)
(* to the anchor than the threshold, and those above it, are in use.          *)
EdgeNeverBought ==
    grid.cfg.dynamic =>
        \A i \in 1..Len(grid.levels) :
            grid.levels[i].state # "Idle" =>
                grid.levels[i].buy * 1000 > grid.anchor * (1000 - grid.cfg.recenter)

\* The largest order_qty a grid can have.
MaxQty == Max({Sanitize(cfg).qty : cfg \in StartConfigs \union ApiConfigs})

(* "After a BUY fill, a SELL LIMIT take-profit is generated" (docs/            *)
(* strategy_long_grid_module.md). What is held and what is offered differ by  *)
(* no more than one order for each fill, bought or sold, that came after its  *)
(* grid was rebuilt: the grid alone leaves no contract without a sell, sells  *)
(* none twice, and a change of order_qty in between adds nothing to that.     *)
ExitsMatchHoldings ==
    held - QtyOf("Sell") \in -(MaxQty * lateFills) .. (MaxQty * lateFills)
=============================================================================
