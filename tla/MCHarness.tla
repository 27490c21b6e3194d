----------------------------- MODULE MCHarness -----------------------------
(* The harness as TLC checks it: its only constants are the two bounds.     *)
EXTENDS Harness
=============================================================================
