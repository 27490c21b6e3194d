-------------------------- MODULE BootstrapProofs --------------------------
(***************************************************************************)
(* For any number of runs of `up`, each killed anywhere, with any other    *)
(* commands in between: the first-run secrets are the island's own and     *)
(* agree, unless a filling was cut; services start only over a checked     *)
(* island; and all that module IdentityProofs shows of the identity holds  *)
(* of it inside `up`, because a run of Bootstrap is a run of Identity.     *)
(*                                                                         *)
(* The argument rests on BootInv: what comes later in the order of cmd_up  *)
(* exists only if what it is made from does, so that a password, once      *)
(* copied into a second place, is never generated again in the first.      *)
(***************************************************************************)
EXTENDS Bootstrap, IdentityProofs

\* The identity's shell is busy only in its stage.
Quiet == stage \notin {"off", "identity"} => pc = "idle"

\* secrets.yaml and the volume have their password from a .env that is done.
FromEnv ==
    /\ stage \in {"signing", "matrix"} => held["services"] # Absent
    /\ stage \in {"identity", "render", "token", "start"} => held["matrix"] # Absent
    /\ held["matrix"] # Absent => held["services"] # Absent /\ ~Filling("services")
    /\ held["matrix"] # Absent /\ ~Filling("matrix") /\ "matrix" \notin interrupted
          => held["matrix"] = held["services"]
    /\ db # Absent => db = held["services"] /\ ~Filling("services")

\* What the services are started over has been checked and written.
Ready ==
    /\ stage \in {"render", "token", "start"} =>
          /\ touched \/ Accepted
          /\ island # NoFile
    /\ stage \in {"token", "start"} => "render" \in outputs
    /\ stage = "start" => "token" \in outputs

BootInv == Quiet /\ FromEnv /\ Ready /\ SecretsAreOwn

-----------------------------------------------------------------------------
(* Bootstrap adds to Identity, and only adds.                               *)

LEMMA StepsRefine == [BNext]_bvars => [Next]_identityVars
<1> SUFFICES ASSUME [BNext]_bvars PROVE [Next]_identityVars
    OBVIOUS
<1>1. CASE Up \/ Start \/ Unhealthy
    BY <1>1 DEF Up, Start, Unhealthy
<1>2. ASSUME NEW f \in Secrets, Skip(f) PROVE UNCHANGED identityVars
    BY <1>2 DEF Skip
<1>3. ASSUME NEW f \in Copied, Copy(f) \/ Fill(f) PROVE UNCHANGED identityVars
    BY <1>3 DEF Copy, Fill
<1>4. ASSUME NEW f \in Generated, Generate(f) PROVE UNCHANGED identityVars
    BY <1>4 DEF Generate
<1>5. ASSUME NEW o \in Outputs, Output(o) PROVE UNCHANGED identityVars
    BY <1>5 DEF Output
<1>6. CASE IdentityStep
    BY <1>6 DEF IdentityStep, Next
<1>7. CASE UpDies
    BY <1>7 DEF UpDies, Next
<1>8. CASE OtherCommand
    BY <1>8 DEF OtherCommand, Next
<1>9. CASE Anytime
    BY <1>9 DEF Anytime, Next
<1>10. CASE UNCHANGED bvars
    BY <1>10 DEF bvars
<1>11. QED
    BY <1>1, <1>2, <1>3, <1>4, <1>5, <1>6, <1>7, <1>8, <1>9, <1>10 DEF BNext

\* A run of `up` with its first-run secrets is, for the identity, a run of
\* Identity.
THEOREM BootstrapImplementsIdentity == BSpec => Spec
<1>1. BInit => Init
    BY DEF BInit
<1>2. QED BY <1>1, StepsRefine, PTL DEF BSpec, Spec

\* So the identity is as safe inside `up` as outside.
THEOREM BootstrapKeepsIdentity ==
    BSpec => /\ [](IdentityTypeOK /\ CheckedKeysMatch)
             /\ WrittenIsSound /\ IdentityKept /\ FinishedIsAccepted /\ RefusedForCause
<1>1. Spec => /\ [](IdentityTypeOK /\ CheckedKeysMatch)
              /\ WrittenIsSound /\ IdentityKept /\ FinishedIsAccepted /\ RefusedForCause
    BY IdentityTypes, KeysMatch, CommandsWriteSound, EditsKeepIdentity, FinishedAccepted,
       UpRefusesForCause, PTL
<1>2. QED BY <1>1, BootstrapImplementsIdentity, PTL

-----------------------------------------------------------------------------
(* Types.                                                                   *)

LEMMA FileFacts ==
    /\ MaxUps \in Nat
    /\ \A f \in Copied : ExampleOf[f] \notin Nat \cup {Absent, Blank}
    /\ Absent \notin Nat /\ Blank \notin Nat /\ Absent # Blank
    /\ Copied \subseteq Secrets /\ Generated \subseteq Secrets
BY BootstrapAssumption DEF Secrets

LEMMA Stages ==
    /\ DOMAIN After = Secrets \cup Outputs \cup {"identity", "start"}
    /\ After["nomad"] = "services" /\ After["services"] = "signing"
    /\ After["signing"] = "matrix" /\ After["matrix"] = "identity"
    /\ After["identity"] = "render" /\ After["render"] = "token"
    /\ After["token"] = "start" /\ After["start"] = "jitsi"
    /\ After["jitsi"] = "cert" /\ After["cert"] = "off"
BY DEF After, Secrets, Copied, Generated, Outputs

LEMMA Advancing ==
    ASSUME stage \in DOMAIN After, Advance
    PROVE  stage' \in DOMAIN After \cup {"off"} /\ copied' = FALSE
<1>1. stage' = After[stage] /\ copied' = FALSE
    BY DEF Advance
<1>2. DOMAIN After = {"nomad", "services", "signing", "matrix", "identity", "render",
                     "token", "start", "jitsi", "cert"}
    BY Stages DEF Secrets, Copied, Generated, Outputs
<1>3. CASE stage \in {"nomad", "services", "signing", "matrix", "identity"}
    BY <1>1, <1>2, <1>3, Stages
<1>4. CASE stage \in {"render", "token", "start", "jitsi", "cert"}
    BY <1>1, <1>2, <1>4, Stages
<1>5. QED BY <1>1, <1>2, <1>3, <1>4

LEMMA BInitTypes == BInit => BootstrapTypeOK
<1> SUFFICES ASSUME BInit PROVE BootstrapTypeOK
    OBVIOUS
<1>1. 0 \in Secret
    BY FileFacts DEF Secret
<1>2. /\ held \in [Secrets -> Secret \cup {Absent}] /\ db \in Secret \cup {Absent}
      /\ outputs \subseteq Outputs
    BY <1>1 DEF BInit
<1>3. stage = "off" /\ copied = FALSE /\ interrupted = {} /\ ups = 0
    BY DEF BInit
<1>4. ups \in 0..MaxUps
    BY <1>3, FileFacts
<1>5. copied \in BOOLEAN /\ ~copied /\ interrupted \subseteq Secrets
    BY <1>3
<1>6. QED BY <1>2, <1>3, <1>4, <1>5 DEF BootstrapTypeOK

LEMMA BNextTypes == BootstrapTypeOK /\ [BNext]_bvars => BootstrapTypeOK'
<1> SUFFICES ASSUME BootstrapTypeOK, [BNext]_bvars PROVE BootstrapTypeOK'
    OBVIOUS
<1> USE FileFacts
<1>1. CASE UNCHANGED bootVars
    BY <1>1 DEF BootstrapTypeOK, bootVars
<1>2. CASE Up
    <2>1. stage' \in DOMAIN After /\ stage' = "nomad"
        BY <1>2, Stages DEF Up, Secrets, Copied
    <2>2. ups' \in 0..MaxUps
        BY <1>2 DEF Up, BootstrapTypeOK
    <2>3. copied' = FALSE
        BY <1>2 DEF Up, BootstrapTypeOK, Copied
    <2>4. QED BY <1>2, <2>1, <2>2, <2>3 DEF Up, fileVars, BootstrapTypeOK
<1>3. ASSUME NEW f \in Secrets, Skip(f) PROVE BootstrapTypeOK'
    <2>1. stage' \in DOMAIN After \cup {"off"} /\ copied' = FALSE
        BY <1>3, Stages, Advancing DEF Skip
    <2>2. QED BY <1>3, <2>1 DEF Skip, fileVars, BootstrapTypeOK
<1>4. ASSUME NEW f \in Secrets, NEW v \in Secret \cup {Absent},
             held' = [held EXCEPT ![f] = v]
      PROVE  held' \in [Secrets -> Secret \cup {Absent}]
    BY <1>4 DEF BootstrapTypeOK
<1>5. ASSUME NEW f \in Copied, Copy(f) PROVE BootstrapTypeOK'
    <2>1. held' \in [Secrets -> Secret \cup {Absent}]
        BY <1>4, <1>5 DEF Copy, Secret
    <2>2. copied' = TRUE /\ stage' = f
        BY <1>5 DEF Copy
    <2>3. QED BY <1>5, <2>1, <2>2 DEF Copy, BootstrapTypeOK
<1>6. ups \in Secret
    BY DEF BootstrapTypeOK, Secret
<1>7. ASSUME NEW f \in Copied, Fill(f) PROVE BootstrapTypeOK'
    <2>1. Filled(f) \in Secret \cup {Absent}
        BY <1>6 DEF Filled, BootstrapTypeOK, Secrets, Copied
    <2>2. held' \in [Secrets -> Secret \cup {Absent}]
        BY <1>4, <1>7, <2>1 DEF Fill
    <2>3. stage' \in DOMAIN After \cup {"off"} /\ copied' = FALSE
        BY <1>7, Stages, Advancing DEF Fill
    <2>4. QED BY <1>7, <2>2, <2>3 DEF Fill, BootstrapTypeOK
<1>8. ASSUME NEW f \in Generated, Generate(f) PROVE BootstrapTypeOK'
    <2>1. held' \in [Secrets -> Secret \cup {Absent}]
        BY <1>4, <1>6, <1>8 DEF Generate
    <2>2. stage' \in DOMAIN After \cup {"off"} /\ copied' = FALSE
        BY <1>8, Stages, Advancing DEF Generate
    <2>3. QED BY <1>8, <2>1, <2>2 DEF Generate, BootstrapTypeOK
<1>9. CASE IdentityStep
    <2>1. CASE UpAccepts /\ Advance /\ UNCHANGED <<fileVars, ups>>
        <3>1. stage' \in DOMAIN After \cup {"off"} /\ copied' = FALSE
            BY <1>9, <2>1, Stages, Advancing DEF IdentityStep
        <3>2. QED BY <2>1, <3>1 DEF fileVars, BootstrapTypeOK
    <2>2. CASE UpRefuses /\ stage' = "off" /\ UNCHANGED <<fileVars, copied, ups>>
        <3>1. copied' = FALSE
            BY <1>9, <2>2 DEF IdentityStep, BootstrapTypeOK, Copied
        <3>2. QED BY <2>2, <3>1 DEF fileVars, BootstrapTypeOK
    <2>3. QED BY <1>1, <1>9, <2>1, <2>2 DEF IdentityStep
<1>10. ASSUME NEW o \in Outputs, Output(o) PROVE BootstrapTypeOK'
    <2>1. stage' \in DOMAIN After \cup {"off"} /\ copied' = FALSE
        BY <1>10, Stages, Advancing DEF Output
    <2>2. QED BY <1>10, <2>1 DEF Output, BootstrapTypeOK
<1>11. Database \in Secret \cup {Absent}
    BY DEF Database, BootstrapTypeOK, Secrets, Copied
<1>12. CASE Start
    <2>1. stage' \in DOMAIN After \cup {"off"} /\ copied' = FALSE
        BY <1>12, Stages, Advancing DEF Start
    <2>2. QED BY <1>11, <1>12, <2>1 DEF Start, BootstrapTypeOK
<1>13. CASE Unhealthy
    <2>1. copied' = FALSE
        BY <1>13 DEF Unhealthy, BootstrapTypeOK, Copied
    <2>2. QED BY <1>11, <1>13, <2>1 DEF Unhealthy, BootstrapTypeOK
<1>14. CASE UpDies
    <2>1. held' \in [Secrets -> Secret \cup {Absent}]
        <3>1. \/ stage \in Secrets /\ held' = [held EXCEPT ![stage] = Blank]
              \/ held' = held
            BY <1>14 DEF UpDies
        <3>2. QED BY <1>4, <3>1 DEF Secret, BootstrapTypeOK
    <2>2. interrupted' \subseteq Secrets
        BY <1>14 DEF UpDies, BootstrapTypeOK
    <2>3. db' \in Secret \cup {Absent}
        BY <1>11, <1>14 DEF UpDies, BootstrapTypeOK
    <2>4. outputs' \subseteq Outputs
        BY <1>14 DEF UpDies, BootstrapTypeOK
    <2>5. stage' = "off" /\ copied' = FALSE /\ ups' = ups
        BY <1>14 DEF UpDies
    <2>6. QED BY <2>1, <2>2, <2>3, <2>4, <2>5 DEF BootstrapTypeOK
<1>15. QED
    BY <1>1, <1>2, <1>3, <1>5, <1>7, <1>8, <1>9, <1>10, <1>12, <1>13, <1>14
       DEF BNext, OtherCommand, Anytime, bvars

\* Every variable keeps its type.
THEOREM BootstrapTypes == BSpec => []BootstrapTypeOK
BY BInitTypes, BNextTypes, PTL DEF BSpec

-----------------------------------------------------------------------------
(* The invariant.                                                           *)

BTyped == IdentityTypeOK /\ BootstrapTypeOK

LEMMA BInitInv == BInit => BootInv
<1> SUFFICES ASSUME BInit PROVE BootInv
    OBVIOUS
<1>1. stage = "off" /\ ~copied
    BY DEF BInit
<1>2. \/ held = [f \in Secrets |-> Absent] /\ db = Absent
      \/ held = [f \in Secrets |-> 0] /\ db = 0
    BY DEF BInit
<1>3. {"services", "matrix"} \subseteq Secrets
    BY DEF Secrets, Copied
<1>4. Quiet /\ Ready
    BY <1>1 DEF Quiet, Ready
<1>5. FromEnv
    BY <1>1, <1>2, <1>3 DEF FromEnv, Filling
<1>6. SecretsAreOwn
    BY <1>2 DEF SecretsAreOwn
<1>7. QED BY <1>4, <1>5, <1>6 DEF BootInv

\* Every step of Bootstrap does one of these to the files of `up`.
Keeps == UNCHANGED <<held, copied, interrupted>>

FileStep ==
    \/ UNCHANGED <<held, db, stage, copied, interrupted>>
    \/ stage = "off" /\ stage' = "nomad" /\ Keeps /\ db' = db
    \/ \E f \in Secrets : Skip(f)
    \/ \E f \in Copied : Copy(f)
    \/ \E f \in Copied : Fill(f)
    \/ \E f \in Generated : Generate(f)
    \/ /\ stage \in {"identity", "render", "token"} /\ Advance
       /\ UNCHANGED <<held, db, interrupted>>
    \/ stage = "identity" /\ stage' = "off" /\ Keeps /\ db' = db
    \/ /\ stage = "start" /\ ((stage' = "off" /\ copied' = copied) \/ Advance)
       /\ db' = Database /\ UNCHANGED <<held, interrupted>>
    \/ UpDies

LEMMA FileSteps == [BNext]_bvars => FileStep
<1> SUFFICES ASSUME [BNext]_bvars PROVE FileStep
    OBVIOUS
<1>1. CASE Up
    BY <1>1 DEF Up, FileStep, fileVars, Keeps
<1>2. CASE IdentityStep
    BY <1>2 DEF IdentityStep, FileStep, fileVars, bootVars, Keeps
<1>3. ASSUME NEW o \in Outputs, Output(o) PROVE FileStep
    BY <1>3 DEF Output, FileStep, Outputs
<1>4. CASE Start \/ Unhealthy
    BY <1>4 DEF Start, Unhealthy, FileStep
<1>5. CASE OtherCommand \/ Anytime \/ UNCHANGED bvars
    BY <1>5 DEF OtherCommand, Anytime, bvars, bootVars, FileStep
<1>6. QED BY <1>1, <1>2, <1>3, <1>4, <1>5 DEF BNext, FileStep

\* Only the step that is due changes a file, and it makes something of it.
LEMMA FilesHere == {"services", "matrix"} \subseteq Copied /\ Copied \subseteq Secrets
BY DEF Copied, Secrets

LEMMA FromEnvStep ==
    ASSUME BootstrapTypeOK, FromEnv, FileStep
    PROVE  FromEnv'
<1> USE FileFacts, FilesHere, Stages
<1>1. CASE UNCHANGED <<held, db, stage, copied, interrupted>>
    BY <1>1 DEF FromEnv, Filling
<1>2. CASE stage = "off" /\ stage' = "nomad" /\ Keeps /\ db' = db
    BY <1>2 DEF FromEnv, Filling, Keeps
<1>3. ASSUME NEW f \in Secrets, Skip(f) PROVE FromEnv'
    <2>1. /\ stage = f /\ ~copied /\ stage' = After[f] /\ ~copied'
          /\ UNCHANGED <<held, db, interrupted>>
        BY <1>3 DEF Skip, Advance, fileVars
    <2>2. f \in {"services", "matrix"} => held[f] # Absent
        BY <1>3 DEF Skip, Done
    <2>3. f \in {"nomad", "services", "signing", "matrix", "jitsi", "cert"}
        BY DEF Secrets, Copied, Generated
    <2>4. QED BY <2>1, <2>2, <2>3 DEF FromEnv, Filling
<1>4. ASSUME NEW f \in Copied, Copy(f) PROVE FromEnv'
    <2>1. /\ stage = f /\ stage' = f /\ ~copied /\ copied' /\ held[f] = Absent
          /\ held' = [held EXCEPT ![f] = ExampleOf[f]]
          /\ UNCHANGED <<db, interrupted>>
        BY <1>4 DEF Copy, Done
    <2>2. held \in [Secrets -> Secret \cup {Absent}]
        BY DEF BootstrapTypeOK
    <2>3. f \in {"nomad", "services", "matrix", "jitsi"}
        BY DEF Copied
    <2>4. CASE f = "services"
        BY <2>1, <2>2, <2>4 DEF FromEnv, Filling
    <2>5. CASE f = "matrix"
        BY <2>1, <2>2, <2>5 DEF FromEnv, Filling
    <2>6. CASE f \in {"nomad", "jitsi"}
        BY <2>1, <2>2, <2>6 DEF FromEnv, Filling
    <2>7. QED BY <2>3, <2>4, <2>5, <2>6
<1>5. ASSUME NEW f \in Copied, Fill(f) PROVE FromEnv'
    <2>1. /\ stage = f /\ copied /\ stage' = After[f] /\ ~copied'
          /\ held' = [held EXCEPT ![f] = Filled(f)]
          /\ UNCHANGED <<db, interrupted>>
        BY <1>5 DEF Fill, Advance
    <2>2. held \in [Secrets -> Secret \cup {Absent}] /\ ups \in Nat
        BY DEF BootstrapTypeOK
    <2>3. f \in {"nomad", "services", "matrix", "jitsi"}
        BY DEF Copied
    <2>4. CASE f = "services"
        BY <2>1, <2>2, <2>4 DEF FromEnv, Filling, Filled
    <2>5. CASE f = "matrix"
        BY <2>1, <2>2, <2>5 DEF FromEnv, Filling, Filled
    <2>6. CASE f \in {"nomad", "jitsi"}
        BY <2>1, <2>2, <2>6 DEF FromEnv, Filling
    <2>7. QED BY <2>3, <2>4, <2>5, <2>6
<1>6. ASSUME NEW f \in Generated, Generate(f) PROVE FromEnv'
    <2>1. /\ stage = f /\ stage' = After[f] /\ ~copied' /\ f \in {"signing", "cert"}
          /\ held' = [held EXCEPT ![f] = ups]
          /\ UNCHANGED <<db, interrupted>>
        BY <1>6 DEF Generate, Advance, Generated
    <2>2. held \in [Secrets -> Secret \cup {Absent}] /\ (copied => stage \in Copied)
        BY DEF BootstrapTypeOK
    <2>3. QED BY <2>1, <2>2 DEF FromEnv, Filling
<1>7. CASE /\ stage \in {"identity", "render", "token"} /\ Advance
           /\ UNCHANGED <<held, db, interrupted>>
    BY <1>7 DEF FromEnv, Filling, Advance
<1>8. CASE stage = "identity" /\ stage' = "off" /\ Keeps /\ db' = db
    BY <1>8 DEF FromEnv, Filling, Keeps
<1>9. CASE /\ stage = "start" /\ ((stage' = "off" /\ copied' = copied) \/ Advance)
           /\ db' = Database /\ UNCHANGED <<held, interrupted>>
    <2>1. stage' \in {"off", "jitsi"}
        BY <1>9 DEF Advance
    <2>2. QED BY <1>9, <2>1 DEF FromEnv, Filling, Database
<1>10. CASE UpDies
    <2>1. stage' = "off" /\ ~copied'
        BY <1>10 DEF UpDies
    <2>2. db' = db \/ (stage = "start" /\ db' = Database)
        BY <1>10 DEF UpDies
    <2>3. interrupted \subseteq interrupted' /\ (copied /\ stage \in Secrets => stage \in interrupted')
        BY <1>10 DEF UpDies
    <2>4. \/ held' = held
          \/ /\ held' = [held EXCEPT ![stage] = Blank] /\ stage \in Secrets
             /\ ~Done(stage) /\ ~copied /\ stage \in interrupted'
        BY <1>10 DEF UpDies
    <2>5. held \in [Secrets -> Secret \cup {Absent}]
        BY DEF BootstrapTypeOK
    <2>6. CASE held' = held
        BY <2>1, <2>2, <2>3, <2>6 DEF FromEnv, Filling, Database
    <2>7. CASE /\ held' = [held EXCEPT ![stage] = Blank] /\ stage \in Secrets
               /\ ~Done(stage) /\ ~copied /\ stage \in interrupted'
        <3>1. stage # "start" /\ db' = db
            BY <2>2, <2>7 DEF Secrets, Copied, Generated
        <3>2. CASE stage = "services"
            BY <2>1, <2>3, <2>5, <2>7, <3>1, <3>2 DEF FromEnv, Filling, Done
        <3>3. CASE stage = "matrix"
            BY <2>1, <2>3, <2>5, <2>7, <3>1, <3>3 DEF FromEnv, Filling, Done
        <3>4. CASE stage \notin {"services", "matrix"}
            BY <2>1, <2>3, <2>5, <2>7, <3>1, <3>4 DEF FromEnv, Filling
        <3>5. QED BY <3>2, <3>3, <3>4
    <2>8. QED BY <2>4, <2>6, <2>7
<1>11. QED
    BY <1>1, <1>2, <1>3, <1>4, <1>5, <1>6, <1>7, <1>8, <1>9, <1>10 DEF FileStep

LEMMA OwnStep ==
    ASSUME BootstrapTypeOK, FromEnv, SecretsAreOwn, FileStep
    PROVE  SecretsAreOwn'
<1> USE FileFacts, FilesHere
<1> SUFFICES ASSUME NEW g \in Secrets
             PROVE  \/ Filling(g)'
                    \/ held'[g] \in Nat \cup {Absent}
                    \/ g \in interrupted'
                    \/ g = "matrix" /\ "services" \in interrupted'
    BY DEF SecretsAreOwn
<1>1. held \in [Secrets -> Secret \cup {Absent}] /\ ups \in Nat
    BY DEF BootstrapTypeOK
<1>2. \/ Filling(g)
      \/ held[g] \in Nat \cup {Absent}
      \/ g \in interrupted
      \/ g = "matrix" /\ "services" \in interrupted
    BY DEF SecretsAreOwn
<1>3. CASE /\ UNCHANGED <<held, interrupted>>
           /\ ~Filling(g) \/ UNCHANGED <<stage, copied>>
    BY <1>2, <1>3 DEF Filling
<1>4. CASE \/ UNCHANGED <<held, db, stage, copied, interrupted>>
           \/ stage = "off" /\ stage' = "nomad" /\ Keeps /\ db' = db
           \/ stage = "identity" /\ stage' = "off" /\ Keeps /\ db' = db
    BY <1>3, <1>4 DEF Keeps, Filling, Secrets, Copied, Generated
<1>5. CASE \/ /\ stage \in {"identity", "render", "token"} /\ Advance
              /\ UNCHANGED <<held, db, interrupted>>
           \/ /\ stage = "start" /\ ((stage' = "off" /\ copied' = copied) \/ Advance)
              /\ db' = Database /\ UNCHANGED <<held, interrupted>>
    BY <1>3, <1>5 DEF Filling, Secrets, Copied, Generated
<1>6. CASE \E f \in Secrets : Skip(f)
    <2>1. ~copied /\ UNCHANGED <<held, interrupted>>
        BY <1>6 DEF Skip, fileVars
    <2>2. QED BY <1>3, <2>1 DEF Filling
<1>7. CASE \E f \in Copied : Copy(f)
    <2>1. PICK f \in Copied : Copy(f)
        BY <1>7
    <2>2. /\ stage' = f /\ copied' /\ ~copied /\ interrupted' = interrupted
          /\ held' = [held EXCEPT ![f] = ExampleOf[f]]
        BY <2>1 DEF Copy
    <2>3. QED BY <1>1, <1>2, <2>2 DEF Filling
<1>8. CASE \E f \in Copied : Fill(f)
    <2>1. PICK f \in Copied : Fill(f)
        BY <1>8
    <2>2. /\ stage = f /\ copied /\ interrupted' = interrupted
          /\ held' = [held EXCEPT ![f] = Filled(f)]
        BY <2>1 DEF Fill
    <2>3. CASE g # f
        BY <1>1, <1>2, <2>2, <2>3 DEF Filling
    <2>4. CASE g = f /\ f # "matrix"
        BY <1>1, <2>2, <2>4 DEF Filled
    <2>5. CASE g = f /\ f = "matrix"
        <3>1. held'[g] = held["services"]
            BY <1>1, <2>2, <2>5 DEF Filled
        <3>2. held["services"] \in Nat \cup {Absent} \/ "services" \in interrupted
            BY <2>2, <2>5 DEF SecretsAreOwn, Filling
        <3>3. QED BY <2>2, <2>5, <3>1, <3>2
    <2>6. QED BY <2>3, <2>4, <2>5
<1>9. CASE \E f \in Generated : Generate(f)
    <2>1. PICK f \in Generated : Generate(f)
        BY <1>9
    <2>2. /\ stage = f /\ interrupted' = interrupted
          /\ held' = [held EXCEPT ![f] = ups]
        BY <2>1 DEF Generate
    <2>3. ~Filling(g)
        BY <2>2 DEF BootstrapTypeOK, Filling, Copied, Generated
    <2>4. QED BY <1>1, <1>2, <2>2, <2>3
<1>10. CASE UpDies
    <2>1. interrupted \subseteq interrupted' /\ (Filling(g) => g \in interrupted')
        BY <1>10 DEF UpDies, Filling
    <2>2. \/ held' = held
          \/ held' = [held EXCEPT ![stage] = Blank] /\ stage \in interrupted'
        BY <1>10 DEF UpDies
    <2>3. QED BY <1>1, <1>2, <2>1, <2>2
<1>11. QED
    BY <1>4, <1>5, <1>6, <1>7, <1>8, <1>9, <1>10 DEF FileStep

LEMMA QuietStep == Quiet /\ [BNext]_bvars => Quiet'
<1> SUFFICES ASSUME Quiet, [BNext]_bvars PROVE Quiet'
    OBVIOUS
<1>1. CASE Up
    BY <1>1 DEF Up, Quiet, identityVars
<1>2. ASSUME NEW f \in Secrets,
             Skip(f) \/ (f \in Copied /\ (Copy(f) \/ Fill(f))) \/ (f \in Generated /\ Generate(f))
      PROVE  Quiet'
    <2>1. stage = f /\ pc' = pc
        BY <1>2 DEF Skip, Copy, Fill, Generate, identityVars
    <2>2. stage \notin {"off", "identity"}
        BY <2>1 DEF Secrets, Copied, Generated
    <2>3. QED BY <2>1, <2>2 DEF Quiet
<1>3. CASE IdentityStep
    BY <1>3 DEF IdentityStep, UpAccepts, UpChecked, Ends, Quiet, bootVars
<1>4. ASSUME NEW o \in Outputs, Output(o) PROVE Quiet'
    BY <1>4 DEF Output, Outputs, Quiet, identityVars
<1>5. CASE Start \/ Unhealthy
    BY <1>5 DEF Start, Unhealthy, Quiet, identityVars
<1>6. CASE UpDies
    BY <1>6 DEF UpDies, Quiet
<1>7. CASE OtherCommand
    BY <1>7 DEF OtherCommand, Quiet, bootVars
<1>8. CASE Anytime
    BY <1>8 DEF Anytime, SaveDraft, EditByHand, PutBack, UserWrites, hostVars, Quiet, bootVars
<1>9. CASE UNCHANGED bvars
    BY <1>9 DEF bvars, identityVars, bootVars, Quiet
<1>10. Copied \subseteq Secrets /\ Generated \subseteq Secrets
    BY DEF Secrets
<1>11. QED BY <1>1, <1>2, <1>3, <1>4, <1>5, <1>6, <1>7, <1>8, <1>9, <1>10 DEF BNext

LEMMA ReadyStep == IdentityTypeOK /\ Ready /\ [BNext]_bvars => Ready'
<1> SUFFICES ASSUME IdentityTypeOK, Ready, [BNext]_bvars PROVE Ready'
    OBVIOUS
<1> USE Stages
<1>1. NoFile \notin Doc
    BY IdentityAssumption
<1>2. ASSUME UNCHANGED identityVars PROVE UNCHANGED <<island, touched>> /\ (Accepted <=> Accepted')
    BY <1>2 DEF identityVars, Accepted
<1>3. CASE Up
    BY <1>3 DEF Up, Ready
<1>4. ASSUME NEW f \in Secrets,
             Skip(f) \/ (f \in Copied /\ (Copy(f) \/ Fill(f))) \/ (f \in Generated /\ Generate(f))
      PROVE  Ready'
    <2>1. stage = f /\ (stage' = f \/ stage' = After[f])
        BY <1>4 DEF Skip, Copy, Fill, Generate, Advance
    <2>2. f \in {"nomad", "services", "signing", "matrix", "jitsi", "cert"}
        BY DEF Secrets, Copied, Generated
    <2>3. QED BY <2>1, <2>2 DEF Ready
<1>5. CASE IdentityStep
    <2>1. CASE UNCHANGED bootVars /\ stage = "identity"
        BY <2>1 DEF bootVars, Ready
    <2>2. CASE stage = "identity" /\ UpAccepts /\ Advance
        <3>1. Accepted /\ UNCHANGED <<island, secrets>>
            BY <2>2 DEF UpAccepts, UpChecked
        <3>2. island # NoFile
            BY <3>1, <1>1 DEF Accepted
        <3>3. Accepted'
            BY <3>1 DEF Accepted
        <3>4. QED BY <2>2, <3>1, <3>2, <3>3 DEF Ready, Advance
    <2>3. CASE stage' = "off"
        BY <2>3 DEF Ready
    <2>4. QED BY <1>5, <2>1, <2>2, <2>3 DEF IdentityStep
<1>6. ASSUME NEW o \in Outputs, Output(o) PROVE Ready'
    <2>1. o \in {"render", "token"} /\ stage = o /\ stage' = After[o] /\ outputs' = outputs \cup {o}
        BY <1>6 DEF Output, Outputs, Advance
    <2>2. UNCHANGED identityVars
        BY <1>6 DEF Output
    <2>3. QED BY <1>2, <2>1, <2>2 DEF Ready
<1>7. CASE Start \/ Unhealthy
    BY <1>7 DEF Start, Unhealthy, Advance, Ready
<1>8. CASE UpDies
    BY <1>8 DEF UpDies, Ready
<1>9. CASE OtherCommand
    BY <1>9 DEF OtherCommand, bootVars, Ready
<1>10. CASE Anytime
    <2>1. ASSUME NEW body \in Body, SaveDraft(body)
          PROVE  UNCHANGED <<island, touched>> /\ (Accepted <=> Accepted')
        BY <2>1 DEF SaveDraft, Accepted
    <2>2. ASSUME NEW body \in Body, EditByHand(body) PROVE touched' /\ island' # NoFile
        BY <2>2, <1>1 DEF EditByHand, UserWrites, Doc
    <2>3. ASSUME PutBack PROVE touched' /\ island' # NoFile
        BY <2>3, <1>1 DEF PutBack, UserWrites, IdentityTypeOK
    <2>4. CASE touched' /\ island' # NoFile
        BY <1>10, <2>4 DEF Anytime, bootVars, Ready
    <2>5. CASE UNCHANGED <<island, touched>> /\ (Accepted <=> Accepted')
        BY <1>10, <2>5 DEF Anytime, bootVars, Ready
    <2>6. \/ touched' /\ island' # NoFile
          \/ UNCHANGED <<island, touched>> /\ (Accepted <=> Accepted')
        BY <1>10, <2>1, <2>2, <2>3 DEF Anytime
    <2>7. QED BY <2>4, <2>5, <2>6
<1>11. CASE UNCHANGED bvars
    BY <1>2, <1>11 DEF bvars, bootVars, Ready
<1>12. Copied \subseteq Secrets /\ Generated \subseteq Secrets
    BY DEF Secrets
<1>13. QED
    BY <1>3, <1>4, <1>5, <1>6, <1>7, <1>8, <1>9, <1>10, <1>11, <1>12 DEF BNext

THEOREM BootstrapInvariant == BSpec => [](BTyped /\ BootInv)
<1>1. BInit => BootInv
    BY BInitInv
<1>2. BTyped /\ BootInv /\ [BNext]_bvars => BootInv'
    BY FileSteps, FromEnvStep, OwnStep, QuietStep, ReadyStep DEF BTyped, BootInv
<1>3. BSpec => []BTyped
    BY BootstrapTypes, BootstrapKeepsIdentity, PTL DEF BTyped
<1>4. QED BY <1>1, <1>2, <1>3, PTL DEF BSpec

-----------------------------------------------------------------------------
(* The properties.                                                          *)

\* Whatever was interrupted, what is there is this island's own.
THEOREM SecretsOwn == BSpec => []SecretsAreOwn
<1>1. BootInv => SecretsAreOwn
    BY DEF BootInv
<1>2. QED BY <1>1, BootstrapInvariant, PTL

\* Two copies of the password and the volume agree, or one was cut.
THEOREM UnhealthyOnlyForCause == BSpec => UnhealthyForCause
<1>1. BootstrapTypeOK /\ BootInv /\ Unhealthy => interrupted \cap {"services", "matrix"} # {}
    <2> SUFFICES ASSUME BootstrapTypeOK, BootInv, Unhealthy,
                        "services" \notin interrupted, "matrix" \notin interrupted
                 PROVE  FALSE
        OBVIOUS
    <2>1. stage = "start" /\ Database # held["matrix"]
        BY DEF Unhealthy
    <2>2. held["services"] \in Nat \cup {Absent}
        <3>1. "services" \in Secrets /\ ~Filling("services") /\ "services" # "matrix"
            BY <2>1, FilesHere DEF Filling
        <3>2. QED BY <3>1 DEF BootInv, SecretsAreOwn
    <2>3. held["matrix"] # Absent /\ held["matrix"] = held["services"]
        BY <2>1 DEF BootInv, FromEnv, Filling
    <2>4. Database = held["services"]
        BY <2>2, <2>3, FileFacts DEF Database, BootInv, FromEnv
    <2>5. QED BY <2>1, <2>3, <2>4
<1>2. QED BY <1>1, BootstrapInvariant, PTL DEF UnhealthyForCause, BTyped

\* Nothing starts unchecked, or without the files it mounts.
THEOREM OnlyCheckedStarts == BSpec => StartsChecked
<1>1. BootstrapTypeOK /\ BootInv /\ (Start \/ Unhealthy)
      => (touched \/ Accepted) /\ island # NoFile /\ outputs = Outputs
    BY DEF BootInv, Ready, Start, Unhealthy, BootstrapTypeOK, Outputs
<1>2. QED BY <1>1, BootstrapInvariant, PTL DEF StartsChecked, BTyped
=============================================================================
