--------------------------- MODULE MCAsyncLogger ---------------------------
(* AsyncLogger for TLC: two producers of three records each, batches of two, so *)
(* that a batch can fill up, end early or find nothing.                       *)
EXTENDS AsyncLogger
=============================================================================
