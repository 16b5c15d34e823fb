--------------------------- MODULE MCRuntimeState ---------------------------
(* RuntimeState for TLC: a full update, one with limits of seven and of nine *)
(* digits, one of a single field, and one out of range.                       *)
EXTENDS RuntimeState

Request(n, r, s) == [maxNotional |-> n, ratio |-> r, stop |-> s]

MCStartRisk == [maxNotional |-> 10, ratio |-> 800000000, stop |-> 50000000]
MCRiskRequests == {Request({20}, {600000000}, {70000000}), Request({1234567}, {}, {123456789}),
                   Request({}, {500000000}, {}), Request({}, {1010000000}, {})}
=============================================================================
