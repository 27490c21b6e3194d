------------------------------ MODULE MCWand ------------------------------
(* Two uplinks and three interface names, as TLC checks them.               *)
EXTENDS Passes
=============================================================================
