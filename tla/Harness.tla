------------------------------ MODULE Harness ------------------------------
(***************************************************************************)
(* The two-island harness, stack/federation/two-island.sh: `up` clones a   *)
(* second checkout for island B, renders both trees peered and starts both *)
(* islands; `verify`, `roam` and `drill` do so, test, and tear down from   *)
(* an EXIT trap; `down` tears down. Island A is the developer's own        *)
(* checkout, whose core may hold their data and which `island.sh up` and   *)
(* `down` start and stop from another terminal at any moment.              *)
(*                                                                         *)
(* A command may fail, or be interrupted, at any step, and may be killed   *)
(* so that its trap does not run. Most of the teardown ignores errors      *)
(* (`|| true`): such a step may do nothing (it slips) and the next follows.*)
(* What a compose project's containers are is left out: of A's core it     *)
(* matters whether containers and mongo's volume exist and who made them,  *)
(* and whether the simulated gNB and UE of compose.sim.yaml are among them. *)
(***************************************************************************)
EXTENDS Naturals

CONSTANTS
    MaxRuns,    \* bound: harness commands started
    MaxUserActs \* bound: times the user starts or stops island A

ASSUME HarnessAssumption == MaxRuns \in Nat /\ MaxUserActs \in Nat

VARIABLES
    \* Island A:
    core,       \* its core: "none", "volume" (stopped, data kept) or "up"
    owner,      \* who created that volume: "nobody", "user" or "harness"
    tree,       \* its rendered files: "own" or "peered"
    roamer,     \* where the roaming-test subscriber is: "store", "mongo"
    aUe,        \* do its simulated gNB and UE run?
    aFed,       \* is its stack/federation up?
    \* The rest of the host:
    cloned,     \* is there a checkout for island B?
    bUp,        \* island B's "ues", "core" and "fed" containers
    wan,        \* does the simulated WAN network exist?
    recorded,   \* the state file: "absent", "0" or "1" (a_core_preexisting)
    \* The shell:
    pc, cmd,
    \* History:
    found,      \* what `up` last recorded of A's core: "nothing", "core" or
                \* "unknown" (docker did not answer)
    slipped,    \* has a teardown step failed unnoticed?
    roaming,    \* has `roam` run since a `down` last got to its end?
    runs, userActs

coreVars  == <<core, owner, aUe>>
aVars     == <<coreVars, tree, roamer, aFed>>
hostVars  == <<cloned, bUp, wan>>
notesVars == <<found, slipped, roaming>>
vars == <<core, owner, tree, roamer, aUe, aFed, cloned, bUp, wan, recorded, pc,
          cmd, found, slipped, roaming, runs, userActs>>

Commands == {"up", "verify", "roam", "down"}
UpSteps   == {"record", "clone", "peer", "coreA", "coreB", "attach", "wan",
              "fedA", "fedB"}
TestSteps == {"check", "provision", "roamUes"}
DownSteps == {"rmUes", "unroam", "rmFedB", "rmCoreB", "rmFedA", "rmWan",
              "rmCoreA", "rmState", "rmCheckout", "restore"}

Init ==
    /\ \/ core = "none" /\ owner = "nobody"
       \/ core \in {"volume", "up"} /\ owner = "user"
    /\ tree = "own" /\ roamer = {} /\ aUe = FALSE /\ aFed = FALSE
    /\ cloned = FALSE /\ bUp = {} /\ wan = FALSE
    /\ recorded = "absent"
    /\ pc = "idle" /\ cmd = "none"
    /\ found = "nothing" /\ slipped = FALSE /\ roaming = FALSE
    /\ runs = 0 /\ userActs = 0

\* The command goes from one of its steps to another.
Step(from, to) == pc = from /\ pc' = to /\ UNCHANGED <<cmd, runs, userActs>>

Begin(command) ==
    /\ pc = "idle"
    /\ runs < MaxRuns
    /\ runs' = runs + 1
    /\ cmd' = command
    /\ pc' = IF command = "down" THEN "rmUes" ELSE "record"
    /\ UNCHANGED <<aVars, hostVars, recorded, notesVars, userActs>>

-----------------------------------------------------------------------------
(* cmd_up.                                                                  *)

\* Mutant of Record: an answer that is there is left alone.
RecordOnce ==
    /\ Step("record", "clone")
    /\ found' = IF core = "none" THEN "nothing" ELSE "core"
    /\ recorded' = IF recorded # "absent" THEN recorded
                   ELSE IF core = "none" THEN "0" ELSE "1"
    /\ UNCHANGED <<aVars, hostVars, slipped, roaming>>

\* Docker that does not answer counts as a core that is there.
Record ==
    /\ Step("record", "clone")
    /\ \/ core = "none" /\ found' = "nothing" /\ recorded' = "0"
       \/ core # "none" /\ found' = "core"    /\ recorded' = "1"
       \/ found' = "unknown" /\ recorded' = "1"
    /\ UNCHANGED <<aVars, hostVars, slipped, roaming>>

Clone ==
    /\ Step("clone", "peer")
    /\ cloned' = TRUE
    /\ UNCHANGED <<aVars, bUp, wan, recorded, notesVars>>

\* two_island_setup.py: both trees are rendered from peered copies.
Peer ==
    /\ Step("peer", "coreA")
    /\ tree' = "peered"
    /\ UNCHANGED <<coreVars, roamer, aFed, hostVars, recorded, notesVars>>

\* Mutant of CoreA: whose the core is, is taken from the state file.
CoreAByFile ==
    /\ Step("coreA", "coreB")
    /\ core' = "up"
    /\ owner' = IF recorded = "0" THEN "harness" ELSE owner
    /\ UNCHANGED <<tree, roamer, aUe, aFed, hostVars, recorded, notesVars>>

CoreA ==
    /\ Step("coreA", "coreB")
    /\ core' = "up"
    /\ owner' = IF core = "none" THEN "harness" ELSE owner
    /\ UNCHANGED <<tree, roamer, aUe, aFed, hostVars, recorded, notesVars>>

CoreB ==
    /\ Step("coreB", "attach")
    /\ bUp' = bUp \cup {"core"}
    /\ UNCHANGED <<aVars, cloned, wan, recorded, notesVars>>

\* db sync: A's mongo holds the roamer exactly if the store does.
Synced(inStore) == IF inStore THEN {"store", "mongo"} ELSE {}

\* After the sync A's own simulated gNB and UE are started.
Attach ==
    /\ Step("attach", "wan")
    /\ core = "up"
    /\ roamer' = Synced("store" \in roamer)
    /\ aUe' = TRUE
    /\ UNCHANGED <<core, owner, tree, aFed, hostVars, recorded, notesVars>>

CreateWan ==
    /\ Step("wan", "fedA")
    /\ wan' = TRUE
    /\ UNCHANGED <<aVars, cloned, bUp, recorded, notesVars>>

FedA ==
    /\ Step("fedA", "fedB")
    /\ aFed' = TRUE
    /\ UNCHANGED <<coreVars, tree, roamer, hostVars, recorded, notesVars>>

\* The end of cmd_up; the other commands go on to their tests.
FedB ==
    /\ \/ cmd = "up"     /\ Step("fedB", "idle")
       \/ cmd = "verify" /\ Step("fedB", "check")
       \/ cmd = "roam"   /\ Step("fedB", "provision")
    /\ bUp' = bUp \cup {"fed"}
    /\ UNCHANGED <<aVars, cloned, wan, recorded, notesVars>>

-----------------------------------------------------------------------------
(* cmd_verify; cmd_roam and cmd_drill.                                      *)

Check ==
    /\ Step("check", "rmUes")
    /\ UNCHANGED <<aVars, hostVars, recorded, notesVars>>

\* roam_prepare: the subscriber is added to A's store ...
Provision ==
    /\ Step("provision", "roamUes")
    /\ roamer' = roamer \cup {"store"}
    /\ roaming' = TRUE
    /\ UNCHANGED <<coreVars, tree, aFed, hostVars, recorded, found, slipped>>

\* ... and synced; then island B's gNB and the roaming UE are started.
RoamUes ==
    /\ Step("roamUes", "rmUes")
    /\ core = "up"
    /\ roamer' = Synced("store" \in roamer)
    /\ bUp' = bUp \cup {"ues"}
    /\ UNCHANGED <<coreVars, tree, aFed, cloned, wan, recorded, notesVars>>

\* A step fails or is interrupted: `up` ends, the others run their trap.
Fails ==
    /\ pc \in UpSteps \cup TestSteps
    /\ pc' = IF cmd = "up" THEN "idle" ELSE "rmUes"
    /\ UNCHANGED <<aVars, hostVars, recorded, cmd, notesVars, runs, userActs>>

-----------------------------------------------------------------------------
(* cmd_down.                                                                *)

\* The step's `|| true`: either it is done, or it did nothing.
BestEffort(done, undone) ==
    \/ done /\ UNCHANGED slipped
    \/ undone /\ slipped' = TRUE

\* Mutant of RmUes: the containers started with `run --name` are left to
\* `compose down`.
RmUesNot ==
    /\ Step("rmUes", "unroam")
    /\ UNCHANGED <<aVars, hostVars, recorded, notesVars>>

RmUes ==
    /\ Step("rmUes", "unroam")
    /\ BestEffort(bUp' = bUp \ {"ues"}, UNCHANGED bUp)
    /\ UNCHANGED <<aVars, cloned, wan, recorded, found, roaming>>

\* Mutant of Unroam: the subscriber goes with A's core, if that goes.
UnroamNot ==
    /\ Step("unroam", "rmFedB")
    /\ UNCHANGED <<aVars, hostVars, recorded, notesVars>>

\* sub remove, then db sync, which needs A's core; each may fail.
Unroam ==
    /\ Step("unroam", "rmFedB")
    /\ BestEffort(roamer' = IF core = "up" THEN {} ELSE roamer \ {"store"},
                  roamer' \in {roamer, roamer \ {"store"},
                               IF core = "up" THEN Synced("store" \in roamer)
                                              ELSE roamer})
    /\ UNCHANGED <<coreVars, tree, aFed, hostVars, recorded, found, roaming>>

\* Without its checkout nothing of island B's can be taken down; its network
\* cannot go while other containers are on it.
RmFedB ==
    /\ Step("rmFedB", "rmCoreB")
    /\ BestEffort(bUp' = IF cloned THEN bUp \ {"fed"} ELSE bUp, UNCHANGED bUp)
    /\ UNCHANGED <<aVars, cloned, wan, recorded, found, roaming>>

RmCoreB ==
    /\ Step("rmCoreB", "rmFedA")
    /\ BestEffort(bUp' = IF cloned /\ bUp \subseteq {"core"} THEN {} ELSE bUp,
                  UNCHANGED bUp)
    /\ UNCHANGED <<aVars, cloned, wan, recorded, found, roaming>>

RmFedA ==
    /\ Step("rmFedA", "rmWan")
    /\ BestEffort(aFed' = FALSE, UNCHANGED aFed)
    /\ UNCHANGED <<coreVars, tree, roamer, hostVars, recorded, found, roaming>>

RmWan ==
    /\ Step("rmWan", "rmCoreA")
    /\ BestEffort(wan' = (wan /\ (aFed \/ "fed" \in bUp)), UNCHANGED wan)
    /\ UNCHANGED <<aVars, cloned, bUp, recorded, found, roaming>>

\* `down -v` of A's core and its simulated gNB and UE, if the state file says
\* that `up` made them.
RmCoreA ==
    /\ Step("rmCoreA", "rmState")
    /\ IF recorded = "0"
       THEN BestEffort(/\ core' = "none"
                       /\ owner' = "nobody"
                       /\ aUe' = FALSE
                       /\ roamer' = roamer \ {"mongo"},
                       UNCHANGED <<coreVars, roamer>>)
       ELSE UNCHANGED <<coreVars, roamer, slipped>>
    /\ UNCHANGED <<tree, aFed, hostVars, recorded, found, roaming>>

RmState ==
    /\ Step("rmState", "rmCheckout")
    /\ recorded' = "absent"
    /\ UNCHANGED <<aVars, hostVars, found, slipped, roaming>>

RmCheckout ==
    /\ Step("rmCheckout", "restore")
    /\ cloned' = FALSE
    /\ UNCHANGED <<aVars, bUp, wan, recorded, notesVars>>

\* A's tree is rendered from its own island.yaml again. (The check of the
\* tree that follows only reports.)
Restore ==
    /\ Step("restore", "idle")
    /\ tree' = "own"
    /\ roaming' = (roaming /\ slipped)
    /\ UNCHANGED <<coreVars, roamer, aFed, hostVars, recorded, found, slipped>>

\* SIGKILL, a power cut; or a second interrupt, or a step without `|| true`
\* failing, in the teardown.
Kill ==
    /\ pc # "idle"
    /\ pc' = "idle"
    /\ UNCHANGED <<aVars, hostVars, recorded, cmd, notesVars, runs, userActs>>

-----------------------------------------------------------------------------
(* The user, on island A.                                                   *)

UserActs ==
    /\ userActs < MaxUserActs
    /\ userActs' = userActs + 1

\* island.sh up: starts the core, syncs it and renders A's own tree.
UserUp ==
    /\ UserActs
    /\ core' = "up"
    /\ owner' = IF core = "none" THEN "user" ELSE owner
    /\ roamer' = Synced("store" \in roamer)
    /\ tree' = "own"
    /\ UNCHANGED <<aUe, aFed, hostVars, recorded, notesVars, pc, cmd, runs>>

\* island.sh down: mongo's volume stays, and so do a simulated gNB and UE, which
\* its compose file does not name.
UserDown ==
    /\ UserActs
    /\ core = "up"
    /\ core' = "volume"
    /\ UNCHANGED <<owner, tree, roamer, aUe, aFed, hostVars, recorded, notesVars,
                   pc, cmd, runs>>

Next ==
    \/ \E command \in Commands : Begin(command)
    \/ Record \/ Clone \/ Peer \/ CoreA \/ CoreB \/ Attach \/ CreateWan
    \/ FedA \/ FedB
    \/ Check \/ Provision \/ RoamUes \/ Fails
    \/ RmUes \/ Unroam \/ RmFedB \/ RmCoreB \/ RmFedA \/ RmWan
    \/ RmCoreA \/ RmState \/ RmCheckout \/ Restore
    \/ Kill
    \/ UserUp \/ UserDown

Spec == Init /\ [][Next]_vars

-----------------------------------------------------------------------------
(* Properties.                                                              *)

\* Every variable holds a value of its kind; A's data has an owner exactly
\* while it exists, and its simulated gNB and UE only run where there is one.
TypeOK ==
    /\ core \in {"none", "volume", "up"}
    /\ owner \in {"nobody", "user", "harness"}
    /\ core = "none" <=> owner = "nobody"
    /\ tree \in {"own", "peered"}
    /\ roamer \subseteq {"store", "mongo"}
    /\ aUe => core # "none"
    /\ found \in {"nothing", "core", "unknown"}
    /\ {aUe, aFed, cloned, wan, slipped, roaming} \subseteq BOOLEAN
    /\ bUp \subseteq {"ues", "core", "fed"}
    /\ recorded \in {"absent", "0", "1"}
    /\ pc \in {"idle"} \cup UpSteps \cup TestSteps \cup DownSteps
    /\ cmd \in Commands \cup {"none"}
    /\ pc \in UpSteps => cmd # "down"
    /\ runs \in 0..MaxRuns /\ userActs \in 0..MaxUserActs

Destroys == core # "none" /\ core' = "none"

\* A core, or the data of a stopped one, that is there when an `up` begins, and
\* any core while docker did not answer that `up`, is not destroyed before the
\* next `up`, whichever commands were killed before and whatever the user starts
\* and stops in between: a state file left over from an older run is never
\* believed (two-island.sh:131-155, 427-437).
PreexistingSurvives == [][ Destroys => found = "nothing" ]_vars

\* On island A a core that the harness made, and the simulated gNB and UE it
\* attached, may stay where the last `up` did not find A without a core: the
\* user's own core is there, or the core of an earlier `up` that was not taken
\* down, or docker did not answer. This is the cost two-island.sh:142-143 accepts.
NothingOfHarness ==
    /\ bUp = {} /\ ~aFed /\ ~wan /\ ~cloned
    /\ recorded = "absent" /\ tree = "own" /\ "store" \notin roamer
    /\ owner = "harness" \/ aUe => found # "nothing"

\* Wherever earlier commands failed or were killed: a `down` that gets to its
\* end leaves nothing of the harness behind, neither on island B nor, where the
\* last `up` had found A without a core, on island A; unless some teardown step,
\* of this one or an earlier one, has failed unnoticed (two-island.sh:371-471).
NothingLeft ==
    [][ pc = "restore" /\ pc' = "idle" /\ tree' = "own" /\ ~slipped =>
            NothingOfHarness' ]_vars

\* The roaming-test subscriber comes into A's mongo only if `roam` has run since
\* a `down` last got to its end (with none of its steps failed unnoticed): no
\* `up`, of the harness or of the island, resurrects what a `down` has removed,
\* though each syncs whatever the store file holds (two-island.sh:383-391).
NotResurrected ==
    [][ "mongo" \notin roamer /\ "mongo" \in roamer' => roaming ]_vars
=============================================================================
