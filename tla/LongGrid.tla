------------------------------ MODULE LongGrid ------------------------------
(* LongGridStrategy (src/cpp/src/strategy): the grid object and its methods,  *)
(* each as an operator from the grid before a call to the grid after it and   *)
(* the intents the call returns.                                              *)
(*                                                                            *)
(* Prices are counted in cents, which round2 rounds to, and ratios in         *)
(* thousandths; the code's divisions are exact before that rounding.          *)
EXTENDS Integers, Sequences

CONSTANT
    MaxRebuilds     \* bound of the specifications that have a grid: most rebuilds

ASSUME RebuildsAssumption == MaxRebuilds \in Nat

VARIABLE
    grid            \* the strategy object

GridConfig == [levels: Int, qty: Int, profit: Int, dynamic: BOOLEAN,
               recenter: Int, band: Int]

LevelStates == {"Idle", "BuyPlaced", "BuyFilled", "SellPlaced"}

\* A grid: its configuration, anchor price (0 before the first tick), rebuild
\* count, and levels; the id of a level is its place.
EmptyGrid(cfg) == [cfg |-> cfg, anchor |-> 0, rebuilds |-> 0, levels |-> <<>>]

Sanitize(cfg) ==
    [cfg EXCEPT !.levels   = IF @ < 2 THEN 2 ELSE @,
                !.qty      = IF @ <= 0 THEN 1 ELSE @,
                !.profit   = IF @ <= 0 THEN 2 ELSE @,
                !.recenter = IF @ <= 0 THEN 4 ELSE @,
                !.band     = IF @ <= 2 THEN 60 ELSE @]

\* round2 on the fraction n/d
RoundDiv(n, d) == (2 * n + d) \div (2 * d)

\* The price of level i of a grid around anchor, as n/d: the band's lower edge
\* and i - 1 steps of a (levels - 1)-th of the band.
LevelNum(cfg, anchor, i) ==
    anchor * ((2000 - cfg.band) * (cfg.levels - 1) + 2 * cfg.band * (i - 1))
LevelDen(cfg) == 2000 * (cfg.levels - 1)

NewLevel(cfg, anchor, i) ==
    [buy   |-> RoundDiv(LevelNum(cfg, anchor, i), LevelDen(cfg)),
     sell  |-> RoundDiv(LevelNum(cfg, anchor, i) * (1000 + cfg.profit), LevelDen(cfg) * 1000),
     state |-> "Idle"]

\* Every level starts over: what was placed for the old ones is forgotten.
Rebuild(g, anchor) ==
    [g EXCEPT !.anchor = anchor,
              !.rebuilds = @ + 1,
              !.levels = [i \in 1..g.cfg.levels |-> NewLevel(g.cfg, anchor, i)]]

Distance(x, y) == IF x >= y THEN x - y ELSE y - x

Drifted(g, price) ==
    /\ g.cfg.dynamic
    /\ Distance(price, g.anchor) * 1000 >= g.cfg.recenter * g.anchor

\* Mutant: the grid does not recenter while a level is in use.
SettleWhenFlat(g, price) ==
    LET anchored == IF g.anchor <= 0 THEN Rebuild(g, price) ELSE g
        flat == \A i \in 1..Len(anchored.levels) : anchored.levels[i].state = "Idle"
    IN  IF Drifted(anchored, price) /\ flat THEN Rebuild(anchored, price) ELSE anchored

\* The grid a positive price is matched against.
Settle(g, price) ==
    LET anchored == IF g.anchor <= 0 THEN Rebuild(g, price) ELSE g
    IN  IF Drifted(anchored, price) THEN Rebuild(anchored, price) ELSE anchored

\* Mutant: levels already in use are matched again.
ReachedAny(g, price) == {i \in 1..Len(g.levels) : price <= g.levels[i].buy}

\* The idle levels a price reaches, and the nearest of them, the first of equals.
Reached(g, price) ==
    {i \in 1..Len(g.levels) : g.levels[i].state = "Idle" /\ price <= g.levels[i].buy}

Nearest(g, price) ==
    CHOOSE i \in Reached(g, price) :
        \A j \in Reached(g, price) :
            LET di == Distance(g.levels[i].buy, price)
                dj == Distance(g.levels[j].buy, price)
            IN  di < dj \/ (di = dj /\ i <= j)

SetState(g, i, state) == [g EXCEPT !.levels[i].state = state]

BuyIntent(g, i) == [id |-> i, side |-> "Buy", qty |-> g.cfg.qty, price |-> g.levels[i].buy]
SellIntent(g, i) == [id |-> i, side |-> "Sell", qty |-> g.cfg.qty, price |-> g.levels[i].sell]

Outcome(g, intents) == [grid |-> g, intents |-> intents]

\* What a price does to the grid it is matched against: the nearest level it reaches buys.
MatchLevels(g, price) ==
    IF Reached(g, price) = {} THEN Outcome(g, <<>>)
    ELSE LET i == Nearest(g, price)
         IN  Outcome(SetState(g, i, "BuyPlaced"), <<BuyIntent(g, i)>>)

\* (the set of the one settled grid makes TLC compute it once)
OnPriceTick(g, price) ==
    IF price <= 0 THEN Outcome(g, <<>>)
    ELSE CHOOSE out \in {MatchLevels(now, price) : now \in {Settle(g, price)}} : TRUE

\* Mutant: a fill is looked for in BuyFilled only, which no method sets.
OnBuyFilledTwice(g, id) ==
    IF id \in 1..Len(g.levels) /\ g.levels[id].state = "BuyFilled"
    THEN Outcome(SetState(g, id, "SellPlaced"), <<SellIntent(g, id)>>)
    ELSE Outcome(g, <<>>)

OnBuyFilled(g, id) ==
    IF id \in 1..Len(g.levels) /\ g.levels[id].state \in {"BuyPlaced", "BuyFilled"}
    THEN Outcome(SetState(g, id, "SellPlaced"), <<SellIntent(g, id)>>)
    ELSE Outcome(g, <<>>)

\* the state of the level is not looked at
OnSellFilled(g, id) ==
    IF id \in 1..Len(g.levels) THEN SetState(g, id, "Idle") ELSE g

UpdateConfig(g, cfg) ==
    LET next == [g EXCEPT !.cfg = Sanitize(cfg)]
    IN  IF g.anchor > 0 THEN Rebuild(next, g.anchor) ELSE next
=============================================================================
