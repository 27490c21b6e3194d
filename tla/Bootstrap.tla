----------------------------- MODULE Bootstrap -----------------------------
(***************************************************************************)
(* The whole of `island.sh up` on a fresh clone, or on an instance that an *)
(* older release filled in: the secrets each component needs, generated on *)
(* the first run, around the identity stage of module Identity, whose      *)
(* other commands run when `up` does not.                                  *)
(*                                                                         *)
(* A file of secrets is copied from its committed example and then filled  *)
(* in (cp, sed -i): two steps. A file that is there is taken as done. The  *)
(* .bak that sed leaves, the discarded homeserver.yaml and the core, which *)
(* needs none of this, are left out. sed renames a finished copy, so a     *)
(* kill finds the example or the result, or no file, as before the copy.   *)
(* What is generated in one run bears its number.                          *)
(***************************************************************************)
EXTENDS Identity

CONSTANTS
    Absent,         \* no file; no database yet
    Blank,          \* a file cut before anything useful was in it
    ExampleOf,      \* file -> the secret in its committed example
    MaxUps          \* bound: runs of `up`

\* .env of NOMAD, of the services and of Jitsi, Synapse's secrets.yaml, its
\* signing key, and the gateway's certificate with its key.
Copied == {"nomad", "services", "matrix", "jitsi"}
Generated == {"signing", "cert"}
Secrets == Copied \cup Generated
Outputs == {"render", "token"}

Secret == (0..MaxUps) \cup {ExampleOf[f] : f \in Copied} \cup {Blank}

ASSUME BootstrapAssumption ==
    /\ MaxUps \in Nat
    /\ \A f \in Copied : ExampleOf[f] \notin Nat \cup {Absent, Blank}
    /\ \A f, g \in Copied : ExampleOf[f] = ExampleOf[g] => f = g
    /\ Absent \notin Nat /\ Blank \notin Nat /\ Absent # Blank

VARIABLES
    held,       \* file -> Absent, or the secret in it. Of secrets.yaml it is
                \* the database password, as of the services' .env
    db,         \* the password Postgres's volume was initialised with
    outputs,    \* settings.json, operator-token: which of them exist
    stage,      \* what `up` is doing, or "off"
    copied,     \* the example has been copied and not filled in
    interrupted,\* history: files whose filling was cut
    ups

fileVars == <<held, db, outputs, interrupted>>
bootVars == <<held, db, outputs, interrupted, stage, copied, ups>>
bvars == <<identityVars, bootVars>>

BInit ==
    /\ Init
    /\ IF island = NoFile
       THEN held = [f \in Secrets |-> Absent] /\ db = Absent /\ outputs = {}
       ELSE held = [f \in Secrets |-> 0] /\ db = 0 /\ outputs = Outputs
    /\ stage = "off" /\ copied = FALSE
    /\ interrupted = {}
    /\ ups = 0

-----------------------------------------------------------------------------
(* up, after the core.                                                      *)

\* Mutants of After: Synapse's secrets before the .env their password is from;
\* the services before what is rendered for them.
AfterMatrixFirst ==
    [nomad |-> "signing", signing |-> "matrix", matrix |-> "services",
     services |-> "identity", identity |-> "render", render |-> "token",
     token |-> "start", start |-> "jitsi", jitsi |-> "cert", cert |-> "off"]

AfterUnchecked ==
    [nomad |-> "services", services |-> "signing", signing |-> "matrix",
     matrix |-> "render", identity |-> "jitsi", render |-> "token",
     token |-> "start", start |-> "identity", jitsi |-> "cert", cert |-> "off"]

\* The order of cmd_up.
After ==
    [nomad |-> "services", services |-> "signing", signing |-> "matrix",
     matrix |-> "identity", identity |-> "render", render |-> "token",
     token |-> "start", start |-> "jitsi", jitsi |-> "cert", cert |-> "off"]

\* Mutant of Advance: what is known of one file is believed of the next.
AdvanceStillCopied == stage' = After[stage] /\ UNCHANGED copied

Advance == stage' = After[stage] /\ copied' = FALSE

Up ==
    /\ stage = "off" /\ pc = "idle"
    /\ ups < MaxUps
    /\ ups' = ups + 1
    /\ stage' = "nomad"
    /\ UNCHANGED <<identityVars, fileVars, copied>>

\* A file that is there is taken as done. Nobody asks for Synapse's signing
\* key once secrets.yaml is there.
Done(f) == held[f] # Absent \/ (f = "signing" /\ held["matrix"] # Absent)

Skip(f) ==
    /\ stage = f /\ ~copied
    /\ Done(f)
    /\ Advance
    /\ UNCHANGED <<identityVars, fileVars, ups>>

Copy(f) ==
    /\ stage = f /\ ~copied
    /\ ~Done(f)
    /\ held' = [held EXCEPT ![f] = ExampleOf[f]]
    /\ copied' = TRUE
    /\ UNCHANGED <<identityVars, db, outputs, interrupted, stage, ups>>

\* Mutant of Filled: the pattern of the password matches no line.
FilledButPassword(f) == IF f = "matrix" THEN held[f] ELSE ups

\* secrets.yaml gets the password that is in .env, the others a new one.
Filled(f) == IF f = "matrix" THEN held["services"] ELSE ups

Fill(f) ==
    /\ stage = f /\ copied
    /\ held' = [held EXCEPT ![f] = Filled(f)]
    /\ Advance
    /\ UNCHANGED <<identityVars, db, outputs, interrupted, ups>>

\* synapse generate, openssl req. The certificate and its key, two files that
\* are made again unless both are there, are one here.
Generate(f) ==
    /\ stage = f
    /\ ~Done(f)
    /\ held' = [held EXCEPT ![f] = ups]
    /\ Advance
    /\ UNCHANGED <<identityVars, db, outputs, interrupted, ups>>

\* bootstrap_island_init, whose steps are Identity's.
IdentityStep ==
    /\ stage = "identity"
    /\ \/ /\ UpBegins \/ Dump \/ WriteSigning \/ WriteWireguard
          /\ UNCHANGED bootVars
       \/ /\ UpAccepts
          /\ Advance
          /\ UNCHANGED <<fileVars, ups>>
       \/ /\ UpRefuses
          /\ stage' = "off"
          /\ UNCHANGED <<fileVars, copied, ups>>

\* island-init render; the operator's token, a new one every time.
Output(o) ==
    /\ stage = o
    /\ outputs' = outputs \cup {o}
    /\ Advance
    /\ UNCHANGED <<identityVars, held, db, interrupted, ups>>

\* Postgres takes the password of .env when its volume is empty, and does not
\* initialise without one.
Database == IF db = Absent /\ held["services"] # Blank THEN held["services"] ELSE db

\* docker compose up -d, and every service is healthy: Synapse gets into its
\* database with the password in secrets.yaml.
Start ==
    /\ stage = "start"
    /\ db' = Database
    /\ db' = held["matrix"]
    /\ Advance
    /\ UNCHANGED <<identityVars, held, outputs, interrupted, ups>>

Unhealthy ==
    /\ stage = "start"
    /\ db' = Database
    /\ db' # held["matrix"]
    /\ stage' = "off"
    /\ UNCHANGED <<identityVars, held, outputs, interrupted, copied, ups>>

\* up is killed, or one of its steps fails. A file under way keeps the example,
\* or is cut; a database may have been initialised, a token or a page written.
UpDies ==
    /\ stage # "off"
    /\ IF pc = "idle" THEN UNCHANGED identityVars ELSE Die
    /\ IF stage \in Secrets /\ (copied \/ ~Done(stage))
       THEN \/ UNCHANGED held /\ interrupted' =
                  IF copied THEN interrupted \cup {stage} ELSE interrupted
            \/ /\ ~copied
               /\ held' = [held EXCEPT ![stage] = Blank]
               /\ interrupted' = interrupted \cup {stage}
       ELSE UNCHANGED <<held, interrupted>>
    /\ db' \in {db} \cup IF stage = "start" THEN {Database} ELSE {}
    /\ outputs' \in {outputs, outputs \cup ({stage} \cap Outputs)}
    /\ stage' = "off" /\ copied' = FALSE
    /\ UNCHANGED ups

-----------------------------------------------------------------------------

\* The other commands, one at a time with `up`; the user, and the console once
\* it has a token to admit anybody with, at any moment.
OtherCommand ==
    /\ stage = "off"
    /\ \/ \E source \in Source : New(source)
       \/ Migrate \/ Apply
       \/ Dump \/ WriteSigning \/ WriteWireguard \/ ClearDraft
       \/ Die
    /\ UNCHANGED bootVars

Anytime ==
    /\ \/ "token" \in outputs /\ \E body \in Body : SaveDraft(body)
       \/ \E body \in Body : EditByHand(body)
       \/ PutBack
    /\ UNCHANGED bootVars

BNext ==
    \/ Up
    \/ \E f \in Secrets : Skip(f)
    \/ \E f \in Copied : Copy(f) \/ Fill(f)
    \/ \E f \in Generated : Generate(f)
    \/ IdentityStep
    \/ \E o \in Outputs : Output(o)
    \/ Start \/ Unhealthy
    \/ UpDies
    \/ OtherCommand
    \/ Anytime

BSpec == BInit /\ [][BNext]_bvars

-----------------------------------------------------------------------------
(* Properties.                                                              *)

\* Every variable holds a value of its kind.
BootstrapTypeOK ==
    /\ held \in [Secrets -> Secret \cup {Absent}]
    /\ db \in Secret \cup {Absent}
    /\ outputs \subseteq Outputs
    /\ stage \in DOMAIN After \cup {"off"}
    /\ copied \in BOOLEAN
    /\ copied => stage \in Copied
    /\ interrupted \subseteq Secrets
    /\ ups \in 0..MaxUps

Filling(f) == stage = f /\ copied

\* However often the first runs were interrupted, a file that is there holds
\* this island's own secrets, and no example's, unless it is the one whose
\* filling was cut, or took its password from it (island.sh:106-109).
SecretsAreOwn ==
    \A f \in Secrets :
        \/ Filling(f)
        \/ held[f] \in Nat \cup {Absent}
        \/ f \in interrupted
        \/ f = "matrix" /\ "services" \in interrupted

\* The services that `up` waits for fail over their database's password only
\* if the filling of one of its two copies was cut: two files and a volume,
\* made in any number of runs, agree (matrix.example.env:7-12).
UnhealthyForCause ==
    [][Unhealthy => interrupted \cap {"services", "matrix"} # {}]_bvars

\* Services start only over an island.yaml that passed the check, which nobody
\* but the user has touched since, and only when each file that their
\* containers mount exists (island.sh:210-218, 229-249, 334-339).
StartsChecked ==
    [][Start \/ Unhealthy =>
          /\ touched \/ Accepted
          /\ island # NoFile
          /\ outputs = Outputs]_bvars
=============================================================================
