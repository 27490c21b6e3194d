------------------------------- MODULE Apply -------------------------------
(***************************************************************************)
(* How a change of an island's configuration gets from a browser into the  *)
(* running containers: operators edit and save a draft in the Island       *)
(* Console (services/config/console/server.py), `island.sh apply` signs    *)
(* the draft, writes island.yaml, renders it into config files and         *)
(* restarts their containers (island_init/apply.py), and `island.sh up`    *)
(* and `down` render and start or stop everything.                         *)
(*                                                                         *)
(* A document is what the files rendered from it say. A document that does *)
(* not validate is refused before anything changes, wherever it is met, so *)
(* only valid ones are modelled; identity, signature, draft-meta.json and  *)
(* the two logs say nothing that a later step acts on. A file that is      *)
(* being overwritten is useless to its readers, who fail and change        *)
(* nothing, so a write is one step, which a kill may leave half done.      *)
(***************************************************************************)
EXTENDS Naturals, FiniteSets

CONSTANTS
    Editors,        \* browsers on console.island
    File,           \* files rendered from island.yaml
    Container,      \* containers that read such files
    NoContainer,    \* "nothing reads this file"
    consumer,       \* file -> the container that reads it when it starts
    Mapped,         \* files RESTART_MAP names
    Core,           \* containers of stack/core; the others are services
    Val,            \* what a file may say
    Torn, Stopped,  \* a half-written file; a file whose reader is not running
    NoDoc,
    MaxSaves, MaxCommands   \* bounds: drafts saved, host commands started

Doc == [File -> Val]

ASSUME ApplyAssumption ==
    /\ consumer \in [File -> Container \cup {NoContainer}]
    /\ NoContainer \notin Container /\ Core \subseteq Container
    /\ Mapped \subseteq {f \in File : consumer[f] # NoContainer}
    /\ Torn \notin Val /\ Stopped \notin Val /\ Torn # Stopped
    /\ NoDoc \notin Doc /\ Torn \notin Doc /\ Torn # NoDoc
    /\ MaxSaves \in Nat /\ MaxCommands \in Nat

VARIABLES
    page,       \* editor -> the document in the browser, or NoDoc
    draft,      \* draft.yaml: a document, Torn, or NoDoc
    island,     \* island.yaml: a document or Torn
    files,      \* file -> its content on disk
    running,    \* file -> what its container read when it started
    pc, cmd,    \* the host's shell: its next step and its command
    cand,       \* the document the command signed or validated
    todo,       \* files it found different and has not written
    restarts,   \* containers it will restart and has not
    clean,      \* history: the command found everything in step
    saves, commands

docVars   == <<page, draft, saves>>
diskVars  == <<island, files, running>>
hostVars  == <<pc, cmd, cand, todo, restarts, clean, commands>>
vars      == <<page, draft, island, files, running, pc, cmd, cand, todo,
               restarts, clean, saves, commands>>

Read(c)  == {f \in File : consumer[f] = c}
IsUp(c)  == \E f \in Read(c) : running[f] # Stopped

Written == island \in Doc /\ files = island

\* Every file says what island.yaml says, and every container that RESTART_MAP
\* knows and that runs has read it.
InStep ==
    /\ Written
    /\ \A f \in Mapped : running[f] \in {files[f], Stopped}

Init ==
    /\ page = [e \in Editors |-> NoDoc]
    /\ draft = NoDoc
    /\ island \in Doc
    /\ files = island
    /\ running = [f \in File |-> IF consumer[f] = NoContainer THEN Stopped
                                 ELSE files[f]]
    /\ pc = "idle" /\ cmd = "none" /\ cand = NoDoc
    /\ todo = {} /\ restarts = {} /\ clean = TRUE
    /\ saves = 0 /\ commands = 0

-----------------------------------------------------------------------------
(* The console.                                                             *)

\* GET /api/island, when the page is loaded and at no other time.
OpenPage(e) ==
    /\ island \in Doc
    /\ page' = [page EXCEPT ![e] = island]
    /\ UNCHANGED <<draft, saves, diskVars, hostVars>>

Saves ==
    /\ saves < MaxSaves
    /\ saves' = saves + 1

\* POST /api/draft: the browser's whole document, one of its fields edited.
Save(e, f, v) ==
    /\ page[e] # NoDoc
    /\ Saves
    /\ page' = [page EXCEPT ![e][f] = v]
    /\ draft' = page'[e]
    /\ UNCHANGED <<diskVars, hostVars>>

\* The console dies in the middle of the write.
SaveCut(e) ==
    /\ page[e] # NoDoc
    /\ Saves
    /\ draft' = Torn
    /\ UNCHANGED <<page, diskVars, hostVars>>

\* save_measured_csv: not the browser's document but island.yaml's, with one
\* field that no rendered file shows, is staged in place of any other draft.
UploadMeasured ==
    /\ island \in Doc
    /\ Saves
    /\ draft' = island
    /\ UNCHANGED <<page, diskVars, hostVars>>

-----------------------------------------------------------------------------
(* island.sh apply.                                                         *)

Starts(command) ==
    /\ pc = "idle"
    /\ commands < MaxCommands
    /\ commands' = commands + 1
    /\ cmd' = command
    /\ clean' = InStep

Ends ==
    /\ pc' = "idle" /\ cmd' = "none" /\ cand' = NoDoc
    /\ todo' = {} /\ restarts' = {}
    /\ UNCHANGED <<clean, commands>>

\* Mutant of Different: what is to be written is decided by island.yaml.
DifferentFromIsland(doc) == {f \in File : island # Torn => island[f] # doc[f]}

\* render_all: the files whose content is not what doc renders to.
Different(doc) == {f \in File : files[f] # doc[f]}

\* Mutants of RestartsFor: no test for a file that RESTART_MAP lacks; one that
\* ends the loop.
RestartsForAny(changed) == {consumer[f] : f \in changed}
RestartsForAllOrNone(changed) ==
    {consumer[f] : f \in IF changed \subseteq Mapped THEN changed ELSE {}}

\* restart_for: each container once, whatever files of it changed.
RestartsFor(changed) == {consumer[f] : f \in changed \cap Mapped}

\* Load, validate, sign and render: reads only. The draft is validated; of
\* island.yaml only the identity is taken, which a half-written one may still have.
ApplyStarts ==
    /\ Starts("apply")
    /\ draft \in Doc
    /\ cand' = draft
    /\ todo' = Different(draft)
    /\ restarts' = RestartsFor(todo')
    /\ pc' = "dump"
    /\ UNCHANGED <<docVars, diskVars>>

DumpIsland ==
    /\ pc = "dump"
    /\ island' = cand
    /\ pc' = "write"
    /\ UNCHANGED <<docVars, files, running, cmd, cand, todo, restarts, clean, commands>>

\* write_all, one file of it.
WriteFile(f) ==
    /\ pc = "write"
    /\ f \in todo
    /\ files' = [files EXCEPT ![f] = cand[f]]
    /\ todo' = todo \ {f}
    /\ UNCHANGED <<docVars, island, running, pc, cmd, cand, restarts, clean, commands>>

\* The container reads its files anew.
Reads(c) ==
    running' = [f \in File |-> IF consumer[f] = c THEN files[f] ELSE running[f]]

Restarting(c) ==
    /\ cmd = "apply" /\ pc = "write" /\ todo = {}
    /\ c \in restarts

Restart(c) ==
    /\ Restarting(c)
    /\ IsUp(c)
    /\ Reads(c)
    /\ restarts' = restarts \ {c}
    /\ UNCHANGED <<docVars, island, files, pc, cmd, cand, todo, clean, commands>>

\* docker restart fails (there is no such container, or for its own reasons)
\* or times out, in which case the container may have restarted all the same.
RestartFails(c) ==
    /\ Restarting(c)
    /\ \/ UNCHANGED running
       \/ IsUp(c) /\ Reads(c)
    /\ Ends
    /\ UNCHANGED <<docVars, island, files>>

\* Success: the draft, whatever it is by now, is deleted.
ClearDraft ==
    /\ cmd = "apply" /\ pc = "write" /\ todo = {} /\ restarts = {}
    /\ draft' = NoDoc
    /\ Ends
    /\ UNCHANGED <<page, saves, diskVars>>

-----------------------------------------------------------------------------
(* island.sh up and down.                                                   *)

NotStarted(f) == running[f] = Stopped /\ consumer[f] # NoContainer

\* stack/core comes first, with the files as they are.
UpStarts ==
    /\ Starts("up")
    /\ running' = [f \in File |-> IF NotStarted(f) /\ consumer[f] \in Core
                                  THEN files[f] ELSE running[f]]
    /\ pc' = "render"
    /\ UNCHANGED <<docVars, island, files, cand, todo, restarts>>

\* island-init check fails.
UpRefuses ==
    /\ pc = "render"
    /\ island = Torn
    /\ Ends
    /\ UNCHANGED <<docVars, diskVars>>

UpRenders ==
    /\ pc = "render"
    /\ island \in Doc
    /\ cand' = island
    /\ todo' = Different(island)
    /\ pc' = "write"
    /\ UNCHANGED <<docVars, diskVars, cmd, restarts, clean, commands>>

\* Mutant of UpEnds: the services are started before the files are written.
UpEndsUnrendered ==
    /\ cmd = "up" /\ pc = "write"
    /\ running' = [f \in File |-> IF NotStarted(f) THEN files[f] ELSE running[f]]
    /\ Ends
    /\ UNCHANGED <<docVars, island, files>>

\* Then the services. Containers that run are not restarted.
UpEnds ==
    /\ cmd = "up" /\ pc = "write" /\ todo = {}
    /\ running' = [f \in File |-> IF NotStarted(f) THEN files[f] ELSE running[f]]
    /\ Ends
    /\ UNCHANGED <<docVars, island, files>>

Down ==
    /\ pc = "idle"
    /\ commands < MaxCommands
    /\ commands' = commands + 1
    /\ \E f \in File : running[f] # Stopped
    /\ running' = [f \in File |-> Stopped]
    /\ UNCHANGED <<docVars, island, files, pc, cmd, cand, todo, restarts, clean>>

\* The host's command is killed, or its write fails (no space, no permission):
\* the file it was writing may be left half-written.
Die ==
    /\ pc # "idle"
    /\ \/ UNCHANGED <<island, files>>
       \/ pc = "dump" /\ island' = Torn /\ UNCHANGED files
       \/ /\ pc = "write"
          /\ \E f \in todo : files' = [files EXCEPT ![f] = Torn]
          /\ UNCHANGED island
    /\ Ends
    /\ UNCHANGED <<docVars, running>>

Next ==
    \/ \E e \in Editors :
          \/ OpenPage(e) \/ SaveCut(e)
          \/ \E f \in File, v \in Val : Save(e, f, v)
    \/ UploadMeasured
    \/ ApplyStarts \/ DumpIsland \/ ClearDraft
    \/ \E f \in File : WriteFile(f)
    \/ \E c \in Container : Restart(c) \/ RestartFails(c)
    \/ UpStarts \/ UpRefuses \/ UpRenders \/ UpEnds \/ Down
    \/ Die

Spec == Init /\ [][Next]_vars

-----------------------------------------------------------------------------
(* Properties.                                                              *)

\* Every variable holds a value of its kind.
TypeOK ==
    /\ page \in [Editors -> Doc \cup {NoDoc}]
    /\ draft \in Doc \cup {Torn, NoDoc}
    /\ island \in Doc \cup {Torn}
    /\ files \in [File -> Val \cup {Torn}]
    /\ running \in [File -> Val \cup {Torn, Stopped}]
    /\ pc \in {"idle", "dump", "write", "render"}
    /\ cmd \in {"none", "apply", "up"}
    /\ cand \in Doc \cup {NoDoc}
    /\ pc \in {"dump", "write"} => cand \in Doc
    /\ todo \subseteq File /\ restarts \subseteq {consumer[f] : f \in Mapped}
    /\ clean \in BOOLEAN
    /\ saves \in 0..MaxSaves /\ commands \in 0..MaxCommands

Succeeds == pc = "write" /\ pc' = "idle" /\ (ClearDraft \/ UpEnds)

\* A command that finds everything in step and succeeds leaves everything in
\* step: no container that RESTART_MAP knows is left on an old file, whatever
\* was saved meanwhile (apply.py:113-134, 156-160; island.sh:240-253).
EndsInStep == [][Succeeds /\ clean => InStep']_vars

\* A draft disappears only when every file says what island.yaml says, however
\* many applies were killed or failed before: the next apply finishes the
\* writing of an interrupted one (apply.py:192-197).
ClearedIsWritten == [][draft # NoDoc /\ draft' = NoDoc => Written]_vars

\* Whatever happened before, `up` leaves the files as island.yaml has them and
\* starts every service that was down with them (island.sh:240-253).
UpServes ==
    [][Succeeds /\ cmd = "up" =>
          /\ Written'
          /\ \A f \in File : NotStarted(f) => running'[f] = island[f]]_vars

\* app.js:349-351 and services/README.md:285-291: a draft that the console
\* reports as pending waits for `island.sh apply` to sign and apply it. So
\* apply deletes the draft it has applied and no other.
DeletesOnlyApplied ==
    [][draft' = NoDoc /\ draft \in Doc => draft = island]_vars

\* apply.py:156-160: apply "restarts affected services, and clears the draft
\* on success": when the draft is cleared, what RESTART_MAP names runs on it.
ClearedIsRunning ==
    [][draft # NoDoc /\ draft' = NoDoc =>
          \A f \in Mapped : running[f] \in {files[f], Stopped}]_vars
=============================================================================
