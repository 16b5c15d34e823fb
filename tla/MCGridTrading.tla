--------------------------- MODULE MCGridTrading ---------------------------
(* GridTrading for TLC. A grid of 3 or 4 levels around 100: ticks within the  *)
(* recentering threshold, at the band's edges and beyond them.                *)
EXTENDS GridTrading

Config(n, q, dyn) == [levels |-> n, qty |-> q, profit |-> 10, dynamic |-> dyn,
                      recenter |-> 20, band |-> 100]

MCStartConfigs == {Config(3, 1, TRUE), Config(3, 1, FALSE), Config(0, 0, TRUE)}
MCApiConfigs == {Config(4, 2, TRUE)}
MCTicks == {95, 99, 100, 104}
=============================================================================
