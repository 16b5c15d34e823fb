----------------------------- MODULE MCQtClient -----------------------------
(* QtClient for TLC: a ratio of 0.00001, which is printed as 1e-05 and read as *)
(* 1, and one of 0.00002005, which is read as 2.005 and refused, while a reply *)
(* rounds it; it is also the configuration's.                                 *)
EXTENDS QtClient

MCTyped == {1000, 2005}
=============================================================================
