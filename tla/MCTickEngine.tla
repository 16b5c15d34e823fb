---------------------------- MODULE MCTickEngine ----------------------------
(* TickEngine for TLC: both market threads at one price, which buys levels of *)
(* the grid it anchors and of the ones two new configurations rebuild, and an *)
(* events list of two entries.                                                *)
EXTENDS TickEngine

CONSTANTS ws, rest, control

MCFeeds == {ws, rest}
MCPrices == {100}
MCConfig == [levels |-> 2, qty |-> 1, profit |-> 10, dynamic |-> FALSE,
             recenter |-> 20, band |-> 60]
MCNextConfig == [MCConfig EXCEPT !.levels = 3]
=============================================================================
