--------------------------- MODULE MCDevicePairing ---------------------------
(* Values of DevicePairing's constants for TLC. *)
EXTENDS DevicePairing, TLC

CONSTANTS e1, e2, u1, w1, w2

Sym == Permutations(Workers) \cup Permutations(Employees)
=============================================================================
