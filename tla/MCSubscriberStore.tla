------------------------ MODULE MCSubscriberStore ------------------------
(* The small store TLC checks: two rigs, two test IMSIs, two credentials.   *)
EXTENDS SubscriberStore, TLC

CONSTANTS rig1, rig2, k1, k2

Interchangeable == Permutations({rig1, rig2}) \cup Permutations({k1, k2})
=============================================================================
