---------------------------- MODULE MCLifecycle ----------------------------
(* Lifecycle for TLC: it is finite as it stands.                              *)
EXTENDS Lifecycle
=============================================================================
