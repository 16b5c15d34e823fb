--------------------------- MODULE MCTradingCore ---------------------------
(* TradingCore for TLC. Equity 10 and notionals of 2 and 4: an order can break *)
(* the single-order limit, the position limit, or neither.                    *)
EXTENDS TradingCore

Risk(n, r, s) == [maxNotional |-> n, ratio |-> r, stop |-> s]

MCQtys == {2}
MCPrices == {1, 2}
\* none, two of the ticks' and a negative one
MCLimitPrices == {0, 1, 2, -1}
\* the shipped kind of start, and one whose stop ratio of 0 nothing rejects
MCStartRisks == {Risk(3, 80, 5), Risk(3, 80, 0)}
MCValidRisks == {Risk(4, 100, 5), Risk(4, 40, 5)}

=============================================================================
