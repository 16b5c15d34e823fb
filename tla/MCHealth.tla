------------------------------ MODULE MCHealth ------------------------------
(* Two feeds, a threshold of four, checks that wait for three, pauses of two, clock changes of one. *)
EXTENDS Health

MCFeeds == {"ws", "rest"}
=============================================================================
