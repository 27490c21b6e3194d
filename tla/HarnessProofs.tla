--------------------------- MODULE HarnessProofs ---------------------------
(***************************************************************************)
(* What holds of the harness for any number of commands and of the user's  *)
(* own starts and stops: its types, that it never destroys a core it found, *)
(* that a `down` none of whose steps slips leaves nothing behind whatever   *)
(* was killed before it (of A's core only if `up` had found none), and that *)
(* the roaming subscriber does not come back by itself.                     *)
(*                                                                         *)
(* The invariant lists what each teardown step may rely on. That `down`     *)
(* cleans up after any earlier run rests on two facts about `up`: nothing   *)
(* of island B runs without the checkout it is taken down from, and what    *)
(* the harness runs on A after an `up` that found no core is on record.     *)
(***************************************************************************)
EXTENDS Harness, TLAPS

-----------------------------------------------------------------------------
(* Types.                                                                   *)

\* Every variable of the harness holds a value of its kind, and A's data has
\* an owner exactly while it exists.
THEOREM HarnessTypes == Spec => []TypeOK
<1> USE HarnessAssumption
<1>1. Init => TypeOK
    <2> SUFFICES ASSUME Init PROVE TypeOK
        OBVIOUS
    <2>1. {aUe, aFed, cloned, wan, slipped, roaming} \subseteq BOOLEAN
        BY DEF Init
    <2>2. core = "none" <=> owner = "nobody"
        BY DEF Init
    <2>3. QED BY <2>1, <2>2 DEF Init, TypeOK, UpSteps, TestSteps, DownSteps, Commands
<1>2. TypeOK /\ [Next]_vars => TypeOK'
    <2> SUFFICES ASSUME TypeOK, [Next]_vars PROVE TypeOK'
        OBVIOUS
    <2> USE DEF TypeOK, UpSteps, TestSteps, DownSteps, Commands, Step,
                coreVars, aVars, hostVars, notesVars
    <2>1. ASSUME NEW command \in Commands, Begin(command) PROVE TypeOK'
        BY <2>1 DEF Begin
    <2>2. CASE Record
        BY <2>2 DEF Record
    <2>3. CASE Clone
        BY <2>3 DEF Clone
    <2>4. CASE Peer
        BY <2>4 DEF Peer
    <2>5. CASE CoreA
        BY <2>5 DEF CoreA
    <2>6. CASE CoreB
        BY <2>6 DEF CoreB
    <2>7. CASE Attach
        BY <2>7 DEF Attach, Synced
    <2>8. CASE CreateWan
        BY <2>8 DEF CreateWan
    <2>9. CASE FedA
        BY <2>9 DEF FedA
    <2>10. CASE FedB
        BY <2>10 DEF FedB
    <2>11. CASE Check
        BY <2>11 DEF Check
    <2>12. CASE Provision
        BY <2>12 DEF Provision
    <2>13. CASE RoamUes
        BY <2>13 DEF RoamUes, Synced
    <2>14. CASE Fails
        BY <2>14 DEF Fails
    <2>15. CASE RmUes
        BY <2>15 DEF RmUes, BestEffort
    <2>16. CASE Unroam
        BY <2>16 DEF Unroam, BestEffort, Synced
    <2>17. CASE RmFedB
        BY <2>17 DEF RmFedB, BestEffort
    <2>18. CASE RmCoreB
        BY <2>18 DEF RmCoreB, BestEffort
    <2>19. CASE RmFedA
        BY <2>19 DEF RmFedA, BestEffort
    <2>20. CASE RmWan
        BY <2>20 DEF RmWan, BestEffort
    <2>21. CASE RmCoreA
        BY <2>21 DEF RmCoreA, BestEffort
    <2>22. CASE RmState
        BY <2>22 DEF RmState
    <2>23. CASE RmCheckout
        BY <2>23 DEF RmCheckout
    <2>24. CASE Restore
        BY <2>24 DEF Restore
    <2>25. CASE Kill
        BY <2>25 DEF Kill
    <2>26. CASE UserUp \/ UserDown
        <3>1. userActs' \in 0..MaxUserActs
            BY <2>26 DEF UserUp, UserDown, UserActs
        <3>2. core' = "none" <=> owner' = "nobody"
            BY <2>26 DEF UserUp, UserDown
        <3>3. /\ core' \in {"none", "volume", "up"}
              /\ owner' \in {"nobody", "user", "harness"}
            BY <2>26 DEF UserUp, UserDown
        <3>4. tree' \in {"own", "peered"} /\ roamer' \subseteq {"store", "mongo"}
            BY <2>26 DEF UserUp, UserDown, Synced
        <3>5. UNCHANGED <<aUe, aFed, hostVars, recorded, notesVars, pc, cmd, runs>>
            BY <2>26 DEF UserUp, UserDown
        <3>6. core' # "none"
            BY <2>26 DEF UserUp, UserDown
        <3>7. QED BY <3>1, <3>2, <3>3, <3>4, <3>5, <3>6
    <2>27. CASE UNCHANGED vars
        BY <2>27 DEF vars
    <2>28. QED
        BY <2>1, <2>2, <2>3, <2>4, <2>5, <2>6, <2>7, <2>8, <2>9, <2>10, <2>11,
           <2>12, <2>13, <2>14, <2>15, <2>16, <2>17, <2>18, <2>19, <2>20, <2>21,
           <2>22, <2>23, <2>24, <2>25, <2>26, <2>27 DEF Next
<1>3. QED BY <1>1, <1>2, PTL DEF Spec

-----------------------------------------------------------------------------
(* The invariant.                                                           *)

BUsers == {"peer", "coreA", "coreB", "attach", "wan", "fedA", "fedB"} \cup TestSteps

\* The state file says that A's core is the harness's only while the last `up`
\* found none.
Recorded == recorded = "0" => found = "nothing"

\* While an `up` that found no core or a test after it runs on, the file says so ...
OnRecord == found = "nothing" /\ pc \in {"clone"} \cup BUsers => recorded = "0"

\* ... and so it does whenever anything of the harness runs on island A, up to the
\* step of the teardown that destroys it.
Accounted ==
    ~slipped /\ found = "nothing" /\ (owner = "harness" \/ aUe) =>
        recorded = "0" /\ pc \notin {"rmState", "rmCheckout", "restore"}

\* While an `up` or a test runs on, island B has its checkout ...
HasCheckout == pc \in BUsers => cloned

\* ... and so it does whenever anything of island B runs.
Removable == ~slipped => (bUp # {} => cloned)

\* What the teardown has behind it is gone.
AfterUnroam  == DownSteps \ {"rmUes", "unroam"}
AfterFedB    == AfterUnroam \ {"rmFedB"}
AfterCoreB   == AfterFedB \ {"rmCoreB"}
AfterFedA    == AfterCoreB \ {"rmFedA"}
AfterWan     == AfterFedA \ {"rmWan"}

Progress ==
    ~slipped =>
        /\ pc \in DownSteps \ {"rmUes"} => "ues" \notin bUp
        /\ pc \in AfterUnroam => "store" \notin roamer
        /\ pc \in AfterFedB => "fed" \notin bUp
        /\ pc \in AfterCoreB => bUp = {}
        /\ pc \in AfterFedA => ~aFed
        /\ pc \in AfterWan => ~wan
        /\ pc \in {"rmCheckout", "restore"} => recorded = "absent"
        /\ pc = "restore" => ~cloned

\* The store holds the roaming subscriber only while a `roam` has not been
\* followed by a whole `down`.
Provisioned == "store" \in roamer => roaming

HarnessInv ==
    TypeOK /\ Recorded /\ OnRecord /\ Accounted /\ HasCheckout
           /\ Removable /\ Progress /\ Provisioned

THEOREM HarnessInvariant == Spec => []HarnessInv
<1> USE DEF UpSteps, TestSteps, DownSteps, BUsers, AfterUnroam, AfterFedB,
            AfterCoreB, AfterFedA, AfterWan
<1>1. Init => /\ Recorded /\ OnRecord /\ Accounted /\ HasCheckout
              /\ Removable /\ Progress /\ Provisioned
    BY DEF Init, Recorded, OnRecord, Accounted, HasCheckout, Removable, Progress, Provisioned
<1>2. ASSUME TypeOK, Recorded, [Next]_vars PROVE Recorded'
    BY <1>2 DEF Recorded, Next, Begin, Record, Clone, Peer, CoreA, CoreB, Attach,
                CreateWan, FedA, FedB, Check, Provision, RoamUes, Fails, RmUes, Unroam,
                RmFedB, RmCoreB, RmFedA, RmWan, RmCoreA, RmState, RmCheckout, Restore,
                Kill, UserUp, UserDown, notesVars, vars
<1>3. ASSUME TypeOK, HasCheckout, [Next]_vars PROVE HasCheckout'
    BY <1>3 DEF HasCheckout, Step, Next, Begin, Record, Clone, Peer, CoreA, CoreB,
                Attach, CreateWan, FedA, FedB, Check, Provision, RoamUes, Fails, RmUes,
                Unroam, RmFedB, RmCoreB, RmFedA, RmWan, RmCoreA, RmState, RmCheckout,
                Restore, Kill, UserUp, UserDown, hostVars, vars
<1>4. ASSUME TypeOK, Removable, HasCheckout, Progress, [Next]_vars PROVE Removable'
    <2> USE DEF Removable, HasCheckout, Progress
    <2>1. CASE \/ \E command \in Commands : Begin(command)
               \/ Record \/ Clone \/ Peer \/ CoreA \/ Attach \/ CreateWan \/ FedA
               \/ Check \/ Provision \/ Fails \/ RmState \/ Restore \/ Kill
               \/ UserUp \/ UserDown \/ UNCHANGED vars
        BY <1>4, <2>1 DEF Begin, Record, Clone, Peer, CoreA, Attach, CreateWan, FedA,
                          Check, Provision, Fails, RmState, Restore, Kill, UserUp,
                          UserDown, hostVars, notesVars, vars
    <2>2. CASE CoreB \/ FedB \/ RoamUes
        BY <1>4, <2>2 DEF CoreB, FedB, RoamUes, Step, notesVars
    <2>3. CASE RmUes \/ RmFedB \/ RmCoreB
        BY <1>4, <2>3 DEF RmUes, RmFedB, RmCoreB, BestEffort
    <2>4. CASE Unroam \/ RmFedA \/ RmWan \/ RmCoreA
        BY <1>4, <2>4 DEF Unroam, RmFedA, RmWan, RmCoreA, BestEffort, hostVars
    <2>5. CASE RmCheckout
        BY <1>4, <2>5 DEF RmCheckout, Step, notesVars
    <2>6. QED BY <1>4, <2>1, <2>2, <2>3, <2>4, <2>5 DEF Next
<1>5. ASSUME TypeOK, Removable, Progress, [Next]_vars PROVE Progress'
    <2> USE DEF Progress
    <2>1. CASE \/ \E command \in Commands : Begin(command)
               \/ Record \/ Clone \/ Peer \/ CoreA \/ CoreB \/ Attach \/ CreateWan
               \/ FedA \/ FedB \/ Check \/ Provision \/ RoamUes
        BY <1>5, <2>1 DEF Begin, Record, Clone, Peer, CoreA, CoreB, Attach, CreateWan,
                          FedA, FedB, Check, Provision, RoamUes, Step
    <2>2. CASE Fails \/ Kill \/ Restore
        BY <1>5, <2>2 DEF Fails, Kill, Restore, Step
    <2>3. CASE RmUes
        BY <1>5, <2>3 DEF RmUes, BestEffort, Step
    <2>4. CASE Unroam
        BY <1>5, <2>4 DEF Unroam, BestEffort, Step, hostVars
    <2>5. CASE RmFedB
        BY <1>5, <2>5 DEF RmFedB, Removable, BestEffort, Step, aVars
    <2>6. CASE RmCoreB
        <3>1. ~slipped => bUp \subseteq {"core"}
            BY <1>5, <2>6 DEF RmCoreB, Step, TypeOK
        <3>2. ~slipped' => bUp' = {}
            BY <1>5, <2>6, <3>1 DEF RmCoreB, Removable, BestEffort
        <3>3. QED BY <1>5, <2>6, <3>2 DEF RmCoreB, BestEffort, Step, aVars
    <2>7. CASE RmFedA
        BY <1>5, <2>7 DEF RmFedA, BestEffort, Step, hostVars
    <2>8. CASE RmWan
        BY <1>5, <2>8 DEF RmWan, BestEffort, Step, aVars
    <2>9. CASE RmCoreA
        BY <1>5, <2>9 DEF RmCoreA, BestEffort, Step, hostVars
    <2>10. CASE RmState \/ RmCheckout
        BY <1>5, <2>10 DEF RmState, RmCheckout, Step, aVars, hostVars, notesVars
    <2>11. CASE UserUp \/ UserDown \/ UNCHANGED vars
        BY <1>5, <2>11 DEF UserUp, UserDown, Synced, hostVars, notesVars, vars
    <2>12. QED BY <1>5, <2>1, <2>2, <2>3, <2>4, <2>5, <2>6, <2>7, <2>8, <2>9, <2>10,
                  <2>11 DEF Next
<1>6. ASSUME TypeOK, Progress, Provisioned, [Next]_vars PROVE Provisioned'
    <2> USE DEF Provisioned
    <2>1. CASE \/ \E command \in Commands : Begin(command)
               \/ Record \/ Clone \/ Peer \/ CoreA \/ CoreB \/ CreateWan \/ FedA \/ FedB
               \/ Check \/ Fails \/ RmUes \/ RmFedB \/ RmCoreB \/ RmFedA \/ RmWan
               \/ RmState \/ RmCheckout \/ Kill \/ UserDown \/ UNCHANGED vars
        BY <1>6, <2>1 DEF Begin, Record, Clone, Peer, CoreA, CoreB, CreateWan, FedA,
                          FedB, Check, Fails, RmUes, RmFedB, RmCoreB, RmFedA, RmWan,
                          RmState, RmCheckout, Kill, UserDown, aVars, notesVars, vars
    <2>2. CASE Attach \/ RoamUes \/ UserUp
        BY <1>6, <2>2 DEF Attach, RoamUes, UserUp, Synced, notesVars
    <2>3. CASE Provision
        BY <2>3 DEF Provision
    <2>4. CASE Unroam \/ RmCoreA
        BY <1>6, <2>4 DEF Unroam, RmCoreA, BestEffort, Synced
    <2>5. CASE Restore
        BY <1>6, <2>5 DEF Restore, Step, Progress
    <2>6. QED BY <1>6, <2>1, <2>2, <2>3, <2>4, <2>5 DEF Next
<1>7. ASSUME TypeOK, OnRecord, [Next]_vars PROVE OnRecord'
    <2> USE DEF OnRecord
    <2>1. CASE Record
        BY <2>1 DEF Record, Step
    <2>2. CASE RmState
        BY <2>2 DEF RmState, Step
    <2>3. CASE ~Record /\ ~RmState
        BY <1>7, <2>3 DEF Step, Next, Begin, Clone, Peer, CoreA, CoreB, Attach,
                CreateWan, FedA, FedB, Check, Provision, RoamUes, Fails, RmUes, Unroam,
                RmFedB, RmCoreB, RmFedA, RmWan, RmCoreA, RmCheckout, Restore, Kill,
                UserUp, UserDown, notesVars, vars
    <2>4. QED BY <2>1, <2>2, <2>3
<1>8. ASSUME TypeOK, OnRecord, Accounted, [Next]_vars PROVE Accounted'
    <2> USE DEF Accounted
    <2>1. CASE Record
        BY <1>8, <2>1 DEF Record, TypeOK, aVars, coreVars
    <2>2. CASE CoreA \/ Attach
        BY <1>8, <2>2 DEF CoreA, Attach, OnRecord, Step, notesVars
    <2>3. CASE RmCoreA
        BY <1>8, <2>3 DEF RmCoreA, BestEffort, Step, coreVars
    <2>4. CASE RmState
        BY <1>8, <2>4 DEF RmState, Step, aVars, coreVars
    <2>5. CASE RmUes \/ Unroam \/ RmFedB \/ RmCoreB \/ RmFedA \/ RmWan
        BY <1>8, <2>5 DEF RmUes, Unroam, RmFedB, RmCoreB, RmFedA, RmWan, BestEffort,
                          Step, aVars, coreVars
    <2>6. CASE RmCheckout \/ Restore
        BY <1>8, <2>6 DEF RmCheckout, Restore, Step, aVars, coreVars, notesVars
    <2>7. CASE \/ \E command \in Commands : Begin(command)
               \/ Clone \/ Peer \/ CoreB \/ CreateWan \/ FedA \/ FedB
               \/ Check \/ Provision \/ RoamUes \/ Fails \/ Kill
               \/ UNCHANGED vars
        BY <1>8, <2>7 DEF Begin, Clone, Peer, CoreB, CreateWan, FedA, FedB, Check,
                          Provision, RoamUes, Fails, Kill, Step, aVars, coreVars,
                          notesVars, vars
    <2>8. CASE UserUp \/ UserDown
        BY <1>8, <2>8 DEF UserUp, UserDown, notesVars
    <2>9. QED BY <1>8, <2>1, <2>2, <2>3, <2>4, <2>5, <2>6, <2>7, <2>8 DEF Next
<1>9. HarnessInv /\ [Next]_vars /\ TypeOK' => HarnessInv'
    BY <1>2, <1>3, <1>4, <1>5, <1>6, <1>7, <1>8 DEF HarnessInv
<1>10. QED BY HarnessTypes, <1>1, <1>9, PTL DEF Spec, HarnessInv

-----------------------------------------------------------------------------
(* The properties.                                                          *)

\* A core that an `up` found, or any core if docker did not answer that `up`, is
\* not destroyed before the next `up`.
THEOREM HarnessSparesCore == Spec => PreexistingSurvives
<1>1. HarnessInv /\ [Next]_vars => [Destroys => found = "nothing"]_vars
    <2> SUFFICES ASSUME HarnessInv, Next, Destroys PROVE found = "nothing"
        BY DEF vars, Destroys
    <2>1. RmCoreA
        BY DEF Destroys, Next, Begin, Record, Clone, Peer, CoreA, CoreB, Attach,
               CreateWan, FedA, FedB, Check, Provision, RoamUes, Fails, RmUes, Unroam,
               RmFedB, RmCoreB, RmFedA, RmWan, RmState, RmCheckout, Restore, Kill,
               UserUp, UserDown, coreVars, aVars
    <2>2. recorded = "0"
        BY <2>1 DEF RmCoreA, Destroys, coreVars
    <2>3. QED BY <2>2 DEF HarnessInv, Recorded
<1>2. QED BY HarnessInvariant, <1>1, PTL DEF Spec, PreexistingSurvives

\* A `down` that gets to its end leaves nothing of the harness behind, whatever
\* commands failed or were killed before it, provided no teardown step has failed
\* unnoticed; of A's core, its gNB and its UE it does so if the last `up` found A
\* without a core, and otherwise may leave what the harness had made or attached.
THEOREM HarnessLeavesNothing == Spec => NothingLeft
<1> DEFINE Ended == pc = "restore" /\ pc' = "idle" /\ tree' = "own" /\ ~slipped
<1>1. HarnessInv /\ [Next]_vars => [Ended => NothingOfHarness']_vars
    <2> SUFFICES ASSUME HarnessInv, Next, Ended PROVE NothingOfHarness'
        BY DEF vars
    <2>1. /\ bUp = {} /\ ~aFed /\ ~wan /\ ~cloned
          /\ recorded = "absent" /\ "store" \notin roamer
        BY DEF HarnessInv, Progress, DownSteps, AfterUnroam, AfterFedB, AfterCoreB,
               AfterFedA, AfterWan
    <2>2. Restore \/ Kill
        BY DEF Next, Step, Begin, Record, Clone, Peer, CoreA, CoreB, Attach, CreateWan,
               FedA, FedB, Check, Provision, RoamUes, Fails, RmUes, Unroam, RmFedB,
               RmCoreB, RmFedA, RmWan, RmCoreA, RmState, RmCheckout, UserUp, UserDown,
               UpSteps, TestSteps
    <2>3. owner = "harness" \/ aUe => found # "nothing"
        BY DEF HarnessInv, Accounted
    <2>4. UNCHANGED <<bUp, aFed, wan, cloned, recorded, roamer, owner, aUe, found>>
        BY <2>2 DEF Restore, Kill, aVars, coreVars, hostVars, notesVars
    <2>5. QED BY <2>1, <2>3, <2>4 DEF NothingOfHarness
<1>2. QED BY HarnessInvariant, <1>1, PTL DEF Spec, NothingLeft

\* The roaming subscriber comes into A's mongo only if `roam` has run since a
\* `down` last got to its end.
THEOREM HarnessNotResurrected == Spec => NotResurrected
<1> DEFINE Enters == "mongo" \notin roamer /\ "mongo" \in roamer'
<1>1. HarnessInv /\ [Next]_vars => [Enters => roaming]_vars
    <2> SUFFICES ASSUME HarnessInv, Next, Enters PROVE roaming
        BY DEF vars
    <2>1. "store" \in roamer
        BY DEF Next, Begin, Record, Clone, Peer, CoreA, CoreB, Attach, CreateWan, FedA,
               FedB, Check, Provision, RoamUes, Fails, RmUes, Unroam, RmFedB, RmCoreB,
               RmFedA, RmWan, RmCoreA, RmState, RmCheckout, Restore, Kill, UserUp,
               UserDown, BestEffort, Synced, aVars
    <2>2. QED BY <2>1 DEF HarnessInv, Provisioned
<1>2. QED BY HarnessInvariant, <1>1, PTL DEF Spec, NotResurrected
=============================================================================
