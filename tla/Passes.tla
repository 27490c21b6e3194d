------------------------------- MODULE Passes -------------------------------
(***************************************************************************)
(* How long wand may be wrong. Wand with one history variable: the passes  *)
(* of monitor_loop that have ended since anything last happened to the     *)
(* network. Converges says that wand gets there; here it is counted in     *)
(* passes, and the steps of a pass are counted too. A step is a command or  *)
(* a few that run in one go; sh cuts each off after five seconds, and each *)
(* pass then sleeps CHECK_INTERVAL.                                        *)
(***************************************************************************)
EXTENDS Wand

VARIABLE calm   \* passes that have ended since, at most Enough

pvars == <<vars, calm>>

\* The pass under way when it happened may have been through with the checks
\* it spoils, the next finds remembered interfaces wrong and forgets them, and
\* the one after that looks for them again.
Enough == 3

PInit == Init /\ calm = 0

PassEnds == Stay \/ Record

PMonitor ==
    \/ /\ PassEnds
       /\ calm' = IF calm = Enough THEN Enough ELSE calm + 1
    \/ /\ Monitor /\ ~PassEnds
       /\ UNCHANGED calm

PWorld == World /\ calm' = 0

PNext == PMonitor \/ PWorld

PSpec == PInit /\ [][PNext]_pvars /\ WF_vars(Monitor)

-----------------------------------------------------------------------------
(* Properties.                                                              *)

UsableUplinks == {u \in Uplinks : Usable(u)}

\* After Enough passes without a disturbance, the uplink that wand says is
\* active is the best of those that work, each is published as healthy if and
\* only if it works, and the default route uses the active one
\* (wand.py:164-177, 231-254).
RightAfterCalm ==
    calm = Enough =>
        /\ active = Best(UsableUplinks)
        /\ Healthy = UsableUplinks
        /\ active # NoUplink => dflt = active

\* The steps that are left, at most, of the check or decision under way.
Ahead == [check |-> 4, setup |-> 3, ping |-> 2, dns |-> 1,
          decide |-> 4, add |-> 3, qos |-> 2, record |-> 1]

\* What is left of the pass: a decision, and before it the checks.
StepsLeft ==
    Ahead[pc] + (IF pc \in {"check", "setup", "ping", "dns"}
                 THEN 4 * (NumUplinks - cur) + 4 ELSE 0)

\* A pass gets somewhere with every step, whatever happens meanwhile: it
\* checks no uplink twice and goes back in no check, so that it is over after
\* four steps for each uplink and four more (wand.py:164-177, 220-254).
PassMoves ==
    [][Monitor /\ ~PassEnds => StepsLeft' < StepsLeft]_vars
=============================================================================
