----------------------------- MODULE MCOrderApi -----------------------------
(* OrderApi for TLC: notionals of 3 with equity 6, so a third buy is refused, *)
(* a quantity that printing rounds up, and a cache of two orders that a third *)
(* one overflows, trimmed down to that order or to nothing.                   *)
EXTENDS OrderApi

Risk(n, r, s) == [maxNotional |-> n, ratio |-> r, stop |-> s]

MCQtys == {3}
MCPrices == {1}
MCLimitPrices == {0, 1, -1}
MCStartRisks == {Risk(4, 100, 5)}
MCValidRisks == {Risk(4, 50, 5)}
=============================================================================
