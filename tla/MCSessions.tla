----------------------------- MODULE MCSessions -----------------------------
(* Small instances of Sessions for TLC: accounts do not interact, so one is  *)
(* enough for the races between its flows.                                   *)
EXTENDS Sessions, TLC

CONSTANTS t1, t2, t3

TokenSymmetry == Permutations(Tokens)
=============================================================================
