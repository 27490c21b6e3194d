----------------------------- MODULE MCCoreSync -----------------------------
(* Two operators, two IMSIs, two credentials, as TLC checks them.           *)
EXTENDS Overlaps, TLC

CONSTANTS op1, op2, ue1, ue2, k1, k2

Interchangeable ==
    Permutations({op1, op2}) \cup Permutations({ue1, ue2}) \cup Permutations({k1, k2})
=============================================================================
