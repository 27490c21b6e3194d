---------------------------- MODULE ApplyProofs ----------------------------
(***************************************************************************)
(* What holds of Apply for any editors, files, containers and bounds: its  *)
(* types, that the next apply or `up` completes the files of an interrupted *)
(* one, and that a command which starts from a system in step and succeeds *)
(* leaves it in step.                                                       *)
(*                                                                         *)
(* The invariant says what a command that is under way has still to do:    *)
(* files it need not write already say what its document says, and a       *)
(* container on an old file is among those it will restart.                *)
(***************************************************************************)
EXTENDS Apply, TLAPS

LEMMA ConstantFacts ==
    /\ consumer \in [File -> Container \cup {NoContainer}]
    /\ Mapped \subseteq File
    /\ Torn \notin Val /\ Stopped \notin Val /\ Torn # Stopped
    /\ NoDoc \notin Doc /\ Torn \notin Doc /\ Torn # NoDoc
    /\ MaxSaves \in Nat /\ MaxCommands \in Nat
BY ApplyAssumption

-----------------------------------------------------------------------------
(* Types.                                                                   *)

LEMMA InitTypes == Init => TypeOK
<1> SUFFICES ASSUME Init PROVE TypeOK
    OBVIOUS
<1> USE ConstantFacts
<1>1. running \in [File -> Val \cup {Torn, Stopped}]
    <2>1. \A f \in File : files[f] \in Val
        BY DEF Init, Doc
    <2>2. QED BY <2>1 DEF Init
<1>2. QED BY <1>1 DEF Init, TypeOK, Doc

LEMMA NextTypes == TypeOK /\ [Next]_vars => TypeOK'
<1> SUFFICES ASSUME TypeOK, [Next]_vars PROVE TypeOK'
    OBVIOUS
<1> USE ConstantFacts
<1>1. ASSUME NEW e \in Editors, OpenPage(e) PROVE TypeOK'
    BY <1>1 DEF TypeOK, OpenPage, diskVars, hostVars
<1>2. ASSUME NEW e \in Editors, SaveCut(e) PROVE TypeOK'
    BY <1>2 DEF TypeOK, SaveCut, Saves, diskVars, hostVars
<1>3. ASSUME NEW e \in Editors, NEW f \in File, NEW v \in Val, Save(e, f, v)
      PROVE  TypeOK'
    <2>1. page'[e] \in Doc /\ page' \in [Editors -> Doc \cup {NoDoc}]
        BY <1>3 DEF TypeOK, Save, Doc
    <2>2. QED BY <1>3, <2>1 DEF TypeOK, Save, Saves, diskVars, hostVars
<1>4. CASE ApplyStarts
    <2>1. todo' \subseteq File
        BY <1>4 DEF ApplyStarts, Different
    <2>2. restarts' \subseteq {consumer[f] : f \in Mapped}
        BY <1>4 DEF ApplyStarts, RestartsFor
    <2>3. QED BY <1>4, <2>1, <2>2
              DEF TypeOK, ApplyStarts, Starts, InStep, Written, docVars, diskVars
<1>5. CASE DumpIsland
    BY <1>5 DEF TypeOK, DumpIsland, docVars
<1>6. CASE ClearDraft
    BY <1>6 DEF TypeOK, ClearDraft, Ends, diskVars
<1>7. ASSUME NEW f \in File, WriteFile(f) PROVE TypeOK'
    <2>1. files' \in [File -> Val \cup {Torn}]
        BY <1>7 DEF TypeOK, WriteFile, Doc
    <2>2. QED BY <1>7, <2>1 DEF TypeOK, WriteFile, docVars
<1>8. ASSUME NEW c \in Container, Restart(c) PROVE TypeOK'
    <2>1. running' \in [File -> Val \cup {Torn, Stopped}]
        BY <1>8 DEF TypeOK, Restart, Reads
    <2>2. QED BY <1>8, <2>1 DEF TypeOK, Restart, Restarting, docVars
<1>9. ASSUME NEW c \in Container, RestartFails(c) PROVE TypeOK'
    <2>1. running' \in [File -> Val \cup {Torn, Stopped}]
        BY <1>9 DEF TypeOK, RestartFails, Reads
    <2>2. QED BY <1>9, <2>1 DEF TypeOK, RestartFails, Ends, docVars
<1>10. CASE UpStarts
    <2>1. running' \in [File -> Val \cup {Torn, Stopped}]
        BY <1>10 DEF TypeOK, UpStarts
    <2>2. QED BY <1>10, <2>1 DEF TypeOK, UpStarts, Starts, InStep, Written, docVars
<1>11. CASE UpRefuses
    BY <1>11 DEF TypeOK, UpRefuses, Ends, docVars, diskVars
<1>12. CASE UpRenders
    <2>1. todo' \subseteq File
        BY <1>12 DEF UpRenders, Different
    <2>2. QED BY <1>12, <2>1 DEF TypeOK, UpRenders, docVars, diskVars
<1>13. CASE UpEnds
    <2>1. running' \in [File -> Val \cup {Torn, Stopped}]
        BY <1>13 DEF TypeOK, UpEnds
    <2>2. QED BY <1>13, <2>1 DEF TypeOK, UpEnds, Ends, docVars
<1>14. CASE Down
    BY <1>14 DEF TypeOK, Down, docVars
<1>15. CASE Die
    <2>1. island' \in Doc \cup {Torn} /\ files' \in [File -> Val \cup {Torn}]
        <3>1. CASE UNCHANGED <<island, files>>
            BY <3>1 DEF TypeOK
        <3>2. CASE island' = Torn /\ UNCHANGED files
            BY <3>2 DEF TypeOK
        <3>3. ASSUME NEW f \in todo, files' = [files EXCEPT ![f] = Torn],
                     UNCHANGED island
              PROVE  island' \in Doc \cup {Torn} /\ files' \in [File -> Val \cup {Torn}]
            BY <3>3 DEF TypeOK
        <3>4. QED BY <1>15, <3>1, <3>2, <3>3 DEF Die
    <2>2. QED BY <1>15, <2>1 DEF TypeOK, Die, Ends, docVars
<1>16. CASE UNCHANGED vars
    BY <1>16 DEF TypeOK, vars
<1>17. CASE UploadMeasured
    BY <1>17 DEF TypeOK, UploadMeasured, Saves, diskVars, hostVars
<1>18. QED
    BY <1>1, <1>2, <1>3, <1>4, <1>5, <1>6, <1>7, <1>8, <1>9, <1>10, <1>11,
       <1>12, <1>13, <1>14, <1>15, <1>16, <1>17 DEF Next

\* Every variable keeps its type.
THEOREM ApplyTypes == Spec => []TypeOK
<1>1. QED BY InitTypes, NextTypes, PTL DEF Spec

-----------------------------------------------------------------------------
(* What a command under way has still to do.                                *)

\* Where the commands are.
Phases ==
    /\ pc = "idle" => cmd = "none"
    /\ pc = "dump" => cmd = "apply"
    /\ pc = "render" => cmd = "up"
    /\ pc = "write" => cmd \in {"apply", "up"}

\* A file that is not to be written says what the command's document says.
Writing ==
    /\ pc = "write" => island = cand
    /\ pc \in {"dump", "write"} => \A f \in File \ todo : files[f] = cand[f]

\* An apply that found everything in step will restart whoever is on an old
\* file, or will be.
Restarts ==
    clean /\ cmd = "apply" =>
        \A f \in Mapped :
            \/ consumer[f] \in restarts
            \/ f \notin todo /\ running[f] \in {files[f], Stopped}

\* An up that found everything in step has nothing to write.
UpInStep == clean /\ cmd = "up" => InStep

ApplyInv == Phases /\ Writing /\ Restarts /\ UpInStep

\* The disk and the containers are what the invariant reads of them.
HostUnchanged == UNCHANGED <<island, files, running, pc, cmd, cand, todo, restarts, clean>>

LEMMA InvUnchanged == ApplyInv /\ HostUnchanged => ApplyInv'
BY DEF ApplyInv, HostUnchanged, Phases, Writing, Restarts, UpInStep, InStep, Written

\* No command, nothing to do.
LEMMA IdleInv == pc = "idle" /\ cmd = "none" => ApplyInv
BY DEF ApplyInv, Phases, Writing, Restarts, UpInStep

LEMMA EndsInv == Ends => ApplyInv'
<1> SUFFICES ASSUME Ends PROVE ApplyInv'
    OBVIOUS
<1>1. pc' = "idle" /\ cmd' = "none"
    BY DEF Ends
<1>2. QED BY <1>1 DEF ApplyInv, Phases, Writing, Restarts, UpInStep

\* Files that agree with a document one by one are that document.
LEMMA FilesAre ==
    ASSUME TypeOK, NEW doc \in Doc, \A f \in File : files[f] = doc[f]
    PROVE  files = doc
<1>1. files = [f \in File |-> files[f]] /\ doc = [f \in File |-> doc[f]]
    BY DEF TypeOK, Doc
<1>2. QED BY <1>1

LEMMA NextInv == TypeOK /\ ApplyInv /\ [Next]_vars => ApplyInv'
<1> SUFFICES ASSUME TypeOK, ApplyInv, [Next]_vars PROVE ApplyInv'
    OBVIOUS
<1> USE ConstantFacts
<1>1. ASSUME NEW e \in Editors, OpenPage(e) \/ SaveCut(e) PROVE ApplyInv'
    <2>1. HostUnchanged
        BY <1>1 DEF OpenPage, SaveCut, diskVars, hostVars, HostUnchanged
    <2>2. QED BY <2>1, InvUnchanged
<1>2. ASSUME NEW e \in Editors, NEW f \in File, NEW v \in Val, Save(e, f, v)
      PROVE  ApplyInv'
    <2>1. HostUnchanged
        BY <1>2 DEF Save, diskVars, hostVars, HostUnchanged
    <2>2. QED BY <2>1, InvUnchanged
<1>3. CASE ApplyStarts
    <2>1. /\ pc' = "dump" /\ cmd' = "apply" /\ clean' = InStep
          /\ cand' = draft /\ todo' = Different(draft)
          /\ restarts' = RestartsFor(todo')
          /\ UNCHANGED <<island, files, running>>
        BY <1>3 DEF ApplyStarts, Starts, diskVars
    <2>2. Phases' /\ UpInStep'
        BY <2>1 DEF Phases, UpInStep
    <2>3. Writing'
        BY <2>1 DEF Writing, Different
    <2>4. ASSUME InStep, NEW f \in Mapped
          PROVE  \/ consumer[f] \in restarts'
                 \/ f \notin todo' /\ running[f] \in {files[f], Stopped}
        BY <2>1, <2>4 DEF InStep, RestartsFor
    <2>5. Restarts'
        BY <2>1, <2>4 DEF Restarts
    <2>6. QED BY <2>2, <2>3, <2>5 DEF ApplyInv
<1>4. CASE DumpIsland
    <2>1. /\ pc = "dump" /\ pc' = "write" /\ island' = cand
          /\ UNCHANGED <<files, running, cmd, cand, todo, restarts, clean>>
        BY <1>4 DEF DumpIsland
    <2>2. cmd = "apply"
        BY <2>1 DEF ApplyInv, Phases
    <2>3. QED
        BY <2>1, <2>2 DEF ApplyInv, Phases, Writing, Restarts, UpInStep
<1>5. CASE ClearDraft
    BY <1>5, EndsInv DEF ClearDraft
<1>6. ASSUME NEW g \in File, WriteFile(g) PROVE ApplyInv'
    <2>1. /\ pc = "write" /\ g \in todo
          /\ files' = [files EXCEPT ![g] = cand[g]] /\ todo' = todo \ {g}
          /\ UNCHANGED <<island, running, pc, cmd, cand, restarts, clean>>
        BY <1>6 DEF WriteFile
    <2>2. Phases'
        BY <2>1 DEF ApplyInv, Phases
    <2>3. Writing'
        BY <2>1 DEF ApplyInv, Writing, TypeOK
    <2>4. Restarts'
        BY <2>1 DEF ApplyInv, Restarts, TypeOK
    <2>5. ASSUME clean, cmd = "up" PROVE InStep'
        <3>1. InStep /\ island = cand
            BY <2>1, <2>5 DEF ApplyInv, UpInStep, Writing
        <3>2. files' = files
            BY <2>1, <3>1 DEF InStep, Written, TypeOK
        <3>3. QED BY <2>1, <3>1, <3>2 DEF InStep, Written
    <2>6. UpInStep'
        BY <2>1, <2>5 DEF UpInStep
    <2>7. QED BY <2>2, <2>3, <2>4, <2>6 DEF ApplyInv
<1>7. ASSUME NEW c \in Container, Restart(c) PROVE ApplyInv'
    <2>1. /\ cmd = "apply" /\ pc = "write" /\ todo = {} /\ Reads(c)
          /\ restarts' = restarts \ {c}
          /\ UNCHANGED <<island, files, pc, cmd, cand, todo, clean>>
        BY <1>7 DEF Restart, Restarting
    <2>2. ASSUME clean, NEW f \in Mapped
          PROVE  \/ consumer[f] \in restarts'
                 \/ f \notin todo' /\ running'[f] \in {files'[f], Stopped}
        <3>1. running'[f] = IF consumer[f] = c THEN files[f] ELSE running[f]
            BY <2>1 DEF Reads
        <3>2. QED BY <2>1, <2>2, <3>1 DEF ApplyInv, Restarts
    <2>3. Restarts'
        BY <2>1, <2>2 DEF Restarts
    <2>4. QED BY <2>1, <2>3 DEF ApplyInv, Phases, Writing, UpInStep
<1>8. ASSUME NEW c \in Container, RestartFails(c) PROVE ApplyInv'
    BY <1>8, EndsInv DEF RestartFails
<1>9. CASE UpStarts
    <2>1. /\ pc' = "render" /\ cmd' = "up" /\ clean' = InStep
          /\ UNCHANGED <<island, files>>
          /\ running' = [f \in File |-> IF NotStarted(f) /\ consumer[f] \in Core
                                        THEN files[f] ELSE running[f]]
        BY <1>9 DEF UpStarts, Starts
    <2>2. InStep => InStep'
        BY <2>1 DEF InStep, Written
    <2>3. QED
        BY <2>1, <2>2 DEF ApplyInv, Phases, Writing, Restarts, UpInStep
<1>10. CASE UpRefuses
    BY <1>10, EndsInv DEF UpRefuses
<1>11. CASE UpRenders
    <2>1. /\ pc = "render" /\ pc' = "write" /\ island \in Doc
          /\ cand' = island /\ todo' = Different(island)
          /\ UNCHANGED <<island, files, running, cmd, restarts, clean>>
        BY <1>11 DEF UpRenders, diskVars
    <2>2. cmd = "up"
        BY <2>1 DEF ApplyInv, Phases
    <2>3. Writing'
        BY <2>1 DEF Writing, Different
    <2>4. UpInStep'
        BY <2>1 DEF ApplyInv, UpInStep, InStep, Written
    <2>5. QED
        BY <2>1, <2>2, <2>3, <2>4 DEF ApplyInv, Phases, Restarts
<1>12. CASE UpEnds
    BY <1>12, EndsInv DEF UpEnds
<1>13. CASE Down
    <2>1. pc' = "idle" /\ cmd' = "none"
        BY <1>13 DEF Down, ApplyInv, Phases
    <2>2. QED BY <2>1 DEF ApplyInv, Phases, Writing, Restarts, UpInStep
<1>14. CASE Die
    BY <1>14, EndsInv DEF Die
<1>15. CASE UNCHANGED vars
    BY <1>15, InvUnchanged DEF vars, HostUnchanged
<1>16. CASE UploadMeasured
    <2>1. HostUnchanged
        BY <1>16 DEF UploadMeasured, diskVars, hostVars, HostUnchanged
    <2>2. QED BY <2>1, InvUnchanged
<1>17. QED
    BY <1>1, <1>2, <1>3, <1>4, <1>5, <1>6, <1>7, <1>8, <1>9, <1>10, <1>11,
       <1>12, <1>13, <1>14, <1>15, <1>16 DEF Next

\* At every moment a command knows all that is left for it to do.
THEOREM ApplyInvariant == Spec => []ApplyInv
<1>1. Init => ApplyInv
    BY DEF Init, ApplyInv, Phases, Writing, Restarts, UpInStep
<1>2. QED BY <1>1, NextInv, ApplyTypes, PTL DEF Spec

-----------------------------------------------------------------------------
(* What a command that succeeds leaves behind.                              *)

\* With nothing left to write, every file says what island.yaml says.
LEMMA WrittenAtEnd ==
    ASSUME TypeOK, ApplyInv, pc = "write", todo = {}
    PROVE  Written
<1>1. cand \in Doc /\ island = cand /\ \A f \in File : files[f] = cand[f]
    BY DEF TypeOK, ApplyInv, Writing
<1>2. files = cand
    BY <1>1, FilesAre
<1>3. QED BY <1>1, <1>2 DEF Written

\* Only a successful apply takes a draft away.
LEMMA OnlyApplyClears ==
    ASSUME TypeOK, [Next]_vars, draft # NoDoc, draft' = NoDoc
    PROVE  ClearDraft
<1> USE ConstantFacts
<1>1. ASSUME NEW e \in Editors, OpenPage(e) \/ SaveCut(e) PROVE FALSE
    BY <1>1 DEF OpenPage, SaveCut
<1>2. ASSUME NEW e \in Editors, NEW f \in File, NEW v \in Val, Save(e, f, v)
      PROVE  FALSE
    <2>1. page'[e] \in Doc
        BY <1>2 DEF TypeOK, Save, Doc
    <2>2. QED BY <1>2, <2>1 DEF Save
<1>3. ASSUME docVars' = docVars PROVE FALSE
    BY <1>3 DEF docVars
<1>4. CASE UploadMeasured
    BY <1>4 DEF UploadMeasured, Saves
<1>5. QED
    BY <1>1, <1>2, <1>3, <1>4
       DEF Next, vars, docVars, ApplyStarts, DumpIsland, WriteFile, Restart,
           RestartFails, UpStarts, UpRefuses, UpRenders, UpEnds, Down, Die

\* A draft disappears only when every file says what island.yaml says: the
\* apply after an interrupted one completes its files.
THEOREM ApplyClearsWritten == Spec => ClearedIsWritten
<1>1. TypeOK /\ ApplyInv /\ [Next]_vars
      => [draft # NoDoc /\ draft' = NoDoc => Written]_vars
    <2> SUFFICES ASSUME TypeOK, ApplyInv, [Next]_vars, draft # NoDoc, draft' = NoDoc
                 PROVE  Written
        OBVIOUS
    <2>1. ClearDraft
        BY OnlyApplyClears
    <2>2. QED BY <2>1, WrittenAtEnd DEF ClearDraft
<1>2. QED BY <1>1, ApplyTypes, ApplyInvariant, PTL DEF Spec, ClearedIsWritten

\* `up` leaves the files as island.yaml has them, and what it starts reads
\* them, whatever was interrupted before.
THEOREM UpServesIsland == Spec => UpServes
<1>1. TypeOK /\ ApplyInv /\ [Next]_vars
      => [Succeeds /\ cmd = "up" =>
            /\ Written'
            /\ \A f \in File : NotStarted(f) => running'[f] = island[f]]_vars
    <2> SUFFICES ASSUME TypeOK, ApplyInv, Succeeds, cmd = "up"
                 PROVE  /\ Written'
                        /\ \A f \in File : NotStarted(f) => running'[f] = island[f]
        OBVIOUS
    <2>1. UpEnds
        BY DEF Succeeds, ClearDraft
    <2>2. Written
        BY <2>1, WrittenAtEnd DEF UpEnds
    <2>3. QED BY <2>1, <2>2 DEF UpEnds, Written
<1>2. QED BY <1>1, ApplyTypes, ApplyInvariant, PTL DEF Spec, UpServes

\* A command that finds everything in step and succeeds leaves it in step.
THEOREM CommandsKeepStep == Spec => EndsInStep
<1>1. TypeOK /\ ApplyInv /\ [Next]_vars => [Succeeds /\ clean => InStep']_vars
    <2> SUFFICES ASSUME TypeOK, ApplyInv, Succeeds, clean
                 PROVE  InStep'
        OBVIOUS
    <2>1. CASE ClearDraft
        <3>1. Written
            BY <2>1, WrittenAtEnd DEF ClearDraft
        <3>2. \A f \in Mapped : running[f] \in {files[f], Stopped}
            BY <2>1 DEF ClearDraft, ApplyInv, Restarts
        <3>3. QED BY <2>1, <3>1, <3>2 DEF ClearDraft, diskVars, InStep, Written
    <2>2. CASE UpEnds
        <3>1. InStep
            BY <2>2 DEF UpEnds, ApplyInv, UpInStep
        <3>2. QED BY <2>2, <3>1, ConstantFacts DEF UpEnds, InStep, Written
    <2>3. QED BY <2>1, <2>2 DEF Succeeds
<1>2. QED BY <1>1, ApplyTypes, ApplyInvariant, PTL DEF Spec, EndsInStep
=============================================================================
