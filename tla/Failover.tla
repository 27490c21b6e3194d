------------------------------ MODULE Failover ------------------------------
(***************************************************************************)
(* What the failover daemon promises to whoever reads GET /status: the     *)
(* active uplink is switched only to the best of the uplinks published as  *)
(* healthy at that moment, and a wrong choice is not left standing.        *)
(***************************************************************************)
EXTENDS Naturals

CONSTANTS
    NumUplinks,     \* uplinks in uplinks.yaml, numbered in priority order
    NoUplink        \* "no uplink is active"

Uplinks == 1..NumUplinks

VARIABLES
    pub,        \* uplink -> is it published as healthy?
    active      \* the uplink published as active, or NoUplink

absVars == <<pub, active>>

\* The highest-priority member of S, or NoUplink.
Best(S) ==
    IF S = {} THEN NoUplink
    ELSE CHOOSE u \in S : \A v \in S : u <= v

Healthy == {u \in Uplinks : pub[u]}

Init ==
    /\ pub = [u \in Uplinks |-> FALSE]
    /\ active = NoUplink

\* One uplink was checked.
Report(u, ok) ==
    /\ pub' = [pub EXCEPT ![u] = ok]
    /\ UNCHANGED active

Switch ==
    /\ active # Best(Healthy)
    /\ active' = Best(Healthy)
    /\ UNCHANGED pub

\* The container starts again and knows nothing.
Restart ==
    /\ pub' = [u \in Uplinks |-> FALSE]
    /\ active' = NoUplink

Next ==
    \/ \E u \in Uplinks, ok \in BOOLEAN : Report(u, ok)
    \/ Switch
    \/ Restart

Spec == Init /\ [][Next]_absVars /\ WF_absVars(Switch)
=============================================================================
