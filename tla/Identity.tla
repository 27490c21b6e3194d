------------------------------ MODULE Identity ------------------------------
(***************************************************************************)
(* An island's identity: the signed island.yaml, the private keys under    *)
(* secrets/<island id>/, and the commands that write them: `island-init    *)
(* new` and `migrate` (island_init/cli.py), `apply` (apply.py) and what    *)
(* `island.sh up` does first (bootstrap_island_init). The console stages   *)
(* drafts; the user edits island.yaml by hand, as wizard.py:42-45 suggests,*)
(* or puts back one he had before, as checks.py:208-213 tells.             *)
(*                                                                         *)
(* Only what is on disk counts. A command reads everything it needs and    *)
(* validates before it writes, so its reads are one step; each file it     *)
(* writes is a step, which a kill or a full disk may cut. A command that   *)
(* refuses changes nothing and is no action, except `up`'s. What apply     *)
(* renders and restarts is module Apply. One host command runs at a time.  *)
(***************************************************************************)
EXTENDS Checks

CONSTANTS
    Id,             \* island ids
    Body,           \* what the other fields of a document may say
    Source,         \* documents `new` can build from: [id, body]
    LabSource,      \* the one `new --lab` builds from
    Torn,           \* a cut file that says nothing
    MaxCommands, MaxEdits   \* bounds: host commands, edits by the user

Key == 0..MaxCommands   \* 0: the keys an older release generated

\* "old": lacks only what `migrate` fills in; "cut": lacks more than that.
Unsigned == [shape : {"whole", "old", "cut"}, id : Id, body : Body,
             sk : Key \cup {NoKey}, wg : Key \cup {NoKey}, sig : {NoSig}]
Signature == [by : Key, over : Unsigned]
Doc == [shape : {"whole", "old", "cut"}, id : Id, body : Body,
        sk : Key \cup {NoKey}, wg : Key \cup {NoKey}, sig : Signature \cup {NoSig}]

KeyFile == Key \cup {NoFile, Torn}

\* island.example.yaml: no keys, no signature.
Example == [shape |-> "whole", id |-> LabSource.id, body |-> LabSource.body,
            sk |-> NoKey, wg |-> NoKey, sig |-> NoSig]

\* What `new` builds from a source with a generation of keys: apply_keys.
Built(source, key) ==
    SignDocument([shape |-> "whole", id |-> source.id, body |-> source.body,
                  sk |-> key, wg |-> key, sig |-> NoSig], key)

\* What an older release left there.
OldIsland(source) ==
    SignDocument([shape |-> "old", id |-> source.id, body |-> source.body,
                  sk |-> 0, wg |-> 0, sig |-> NoSig], 0)

ASSUME IdentityAssumption ==
    /\ \A body \in Body :
          /\ body.sites \in Seq(Seq(Nat \cup {NoPci}))
          /\ {body.ue, body.services} \subseteq [address : Nat, size : Nat \ {0}]
    /\ Source \subseteq [id : Id, body : Body]
    /\ LabSource \in Source
    /\ Validates(Example)
    /\ MaxCommands \in Nat /\ MaxEdits \in Nat
    /\ NoKey \notin Nat /\ NoFile \notin Nat \cup Doc /\ Torn \notin Nat \cup Doc
    /\ NoFile # Torn
    /\ NoSig \notin Signature

VARIABLES
    island,     \* island.yaml: NoFile, Torn or a document
    secrets,    \* id -> its signing.key and wireguard.key
    draft,      \* draft.yaml: NoFile or a document without signature
    pc, cmd,    \* the host's shell: its next step and its command
    cand,       \* the document the command is about to write
    keys,       \* generations of keys generated so far
    previous,   \* the document the last `new` replaced, or the example: what
                \* the user has a copy of
    cut,        \* history: a writer was cut, and no `new` has ended since
    touched,    \* history: the user replaced what the last `new` wrote
    sure,       \* history: apply began with an island.yaml that passes check
                \* and its signing key
    commands, edits

hostVars == <<pc, cmd, cand, keys, sure, commands>>
identityVars == <<island, secrets, draft, pc, cmd, cand, keys, previous, cut, touched,
                  sure, commands, edits>>

NoKeys == [signing |-> NoFile, wireguard |-> NoFile]

\* `island-init check`: the file passes, with the keys on disk.
Accepted ==
    /\ island \in Doc
    /\ Validates(island)
    /\ WireguardMatches(island, secrets[island.id].wireguard)

Init ==
    /\ \/ /\ island = NoFile
          /\ secrets = [i \in Id |-> NoKeys]
       \/ \E source \in Source :
             /\ ContentPasses([body |-> source.body])
             /\ island = OldIsland(source)
             /\ secrets = [i \in Id |->
                   IF i = source.id THEN [signing |-> 0, wireguard |-> 0] ELSE NoKeys]
    /\ draft = NoFile
    /\ pc = "idle" /\ cmd = "none" /\ cand = NoFile
    /\ keys = 0
    /\ previous = Example
    /\ cut = FALSE /\ touched = FALSE /\ sure = FALSE
    /\ commands = 0 /\ edits = 0

-----------------------------------------------------------------------------
(* The console and the user.                                                *)

\* Mutants of Candidate: locks nothing; keeps the signature of the page.
CandidateUnlocked(doc, current) == [doc EXCEPT !.sig = NoSig]
CandidateSigned(doc, current) ==
    [doc EXCEPT !.id = current.id, !.sk = current.sk, !.wg = current.wg]

\* build_candidate: the posted document, but whose it is comes from island.yaml.
Candidate(doc, current) ==
    [doc EXCEPT !.id = current.id, !.sk = current.sk, !.wg = current.wg, !.sig = NoSig]

\* do_save_draft: an edited page replaces the draft, if it validates. Who the
\* page says it is does not matter, so it may be as old as it likes.
SaveDraft(body) ==
    /\ island \in Doc
    /\ LET posted == [island EXCEPT !.shape = "whole", !.body = body]
       IN  /\ Validates(Candidate(posted, island))
           /\ draft' = Candidate(posted, island)
    /\ UNCHANGED <<island, secrets, hostVars, previous, cut, touched, edits>>

UserWrites(doc) ==
    /\ edits < MaxEdits
    /\ edits' = edits + 1
    /\ island' = doc
    /\ touched' = TRUE
    /\ UNCHANGED <<secrets, draft, hostVars, previous, cut>>

EditByHand(body) ==
    /\ island \in Doc
    /\ UserWrites([island EXCEPT !.body = body])

PutBack == UserWrites(previous)

-----------------------------------------------------------------------------
(* Commands on the host.                                                    *)

Starts(command) ==
    /\ pc = "idle"
    /\ commands < MaxCommands
    /\ commands' = commands + 1
    /\ cmd' = command

Ends == pc' = "idle" /\ cmd' = "none" /\ cand' = NoFile /\ sure' = FALSE

\* Mutant of Generates: what is built is not validated.
GeneratesUnchecked(source) ==
    /\ keys' = keys + 1
    /\ cand' = Built(source, keys')
    /\ pc' = "dump"
    /\ sure' = FALSE

\* The keypairs exist in memory only until the document is on disk.
Generates(source) ==
    /\ keys' = keys + 1
    /\ cand' = Built(source, keys')
    /\ Validates(cand')
    /\ pc' = "dump"
    /\ sure' = FALSE

New(source) ==
    /\ Starts("new")
    /\ Generates(source)
    /\ UNCHANGED <<island, secrets, draft, previous, cut, touched, edits>>

\* bootstrap_island_init: `new --lab` if there is no file, and then check.
UpBegins ==
    /\ Starts("up")
    /\ \/ island = NoFile /\ Generates(LabSource)
       \/ /\ island # NoFile
          /\ pc' = "check" /\ cand' = NoFile /\ sure' = FALSE
          /\ UNCHANGED keys
    /\ UNCHANGED <<island, secrets, draft, previous, cut, touched, edits>>

\* resign, if the document was signed: with the declared key, or not at all.
Resigned(d) == IF d.sig = NoSig THEN d ELSE SignDocument(d, d.sk)

Migrate ==
    /\ Starts("migrate")
    /\ island \in Doc /\ island.shape = "old"
    /\ island.sig # NoSig =>
          island.sk # NoKey /\ secrets[island.id].signing = island.sk
    /\ cand' = Resigned([island EXCEPT !.shape = "whole"])
    /\ Validates(cand')
    /\ WireguardMatches(cand', secrets[cand'.id].wireguard)
    /\ pc' = "dump" /\ sure' = FALSE
    /\ UNCHANGED <<island, secrets, draft, keys, previous, cut, touched, edits>>

\* apply_draft. The key that signs is whatever is in signing.key; without a
\* declared public key there is no pair to sign with.
Apply ==
    /\ Starts("apply")
    /\ draft # NoFile /\ island \in Doc
    /\ Validates(Candidate(draft, island))
    /\ secrets[island.id].signing \in Key /\ island.sk # NoKey
    /\ cand' = SignDocument(Candidate(draft, island), secrets[island.id].signing)
    /\ sure' = (Accepted /\ secrets[island.id].signing = island.sk)
    /\ pc' = "dump"
    /\ UNCHANGED <<island, secrets, draft, keys, previous, cut, touched, edits>>

\* Only a document `new` built has keys that are not on disk yet.
Dump ==
    /\ pc = "dump"
    /\ island' = cand
    /\ IF cmd = "migrate"
       THEN Ends /\ UNCHANGED touched
       ELSE /\ pc' = IF cmd = "apply" THEN "clear" ELSE "signing"
            /\ touched' = (touched /\ cmd = "apply")
            /\ UNCHANGED <<cmd, cand, sure>>
    /\ previous' = IF cmd \in {"new", "up"} /\ island \in Doc THEN island ELSE previous
    /\ UNCHANGED <<secrets, draft, keys, cut, commands, edits>>

\* Mutants of WriteSigning and WriteWireguard: a key that is there is kept.
KeepSigning ==
    /\ pc = "signing"
    /\ secrets' = IF secrets[cand.id].signing # NoFile THEN secrets
                  ELSE [secrets EXCEPT ![cand.id].signing = cand.sk]
    /\ pc' = "wireguard"
    /\ UNCHANGED <<island, draft, cmd, cand, keys, previous, cut, touched, sure, commands, edits>>

\* write_secrets.
WriteSigning ==
    /\ pc = "signing"
    /\ secrets' = [secrets EXCEPT ![cand.id].signing = cand.sk]
    /\ pc' = "wireguard"
    /\ UNCHANGED <<island, draft, cmd, cand, keys, previous, cut, touched, sure, commands, edits>>

NewEnds ==
    /\ IF cmd = "up"
       THEN pc' = "check" /\ cand' = NoFile /\ UNCHANGED <<cmd, sure>>
       ELSE Ends
    /\ cut' = FALSE
    /\ UNCHANGED <<island, draft, keys, previous, touched, commands, edits>>

KeepWireguard ==
    /\ pc = "wireguard"
    /\ secrets' = IF secrets[cand.id].wireguard # NoFile THEN secrets
                  ELSE [secrets EXCEPT ![cand.id].wireguard = cand.wg]
    /\ NewEnds

WriteWireguard ==
    /\ pc = "wireguard"
    /\ secrets' = [secrets EXCEPT ![cand.id].wireguard = cand.wg]
    /\ NewEnds

ClearDraft ==
    /\ pc = "clear"
    /\ draft' = NoFile
    /\ Ends
    /\ UNCHANGED <<island, secrets, keys, previous, cut, touched, commands, edits>>

UpChecked(passes) ==
    /\ pc = "check"
    /\ Accepted = passes
    /\ Ends
    /\ UNCHANGED <<island, secrets, draft, keys, previous, cut, touched, commands, edits>>

UpAccepts == UpChecked(TRUE)
UpRefuses == UpChecked(FALSE)

\* What a cut write of doc may leave that still reads as a document: fields
\* missing, from the end. The signature comes last, but for what migrate adds; the
\* public keys are in the first block, in either order.
CutShort(doc) ==
    {[doc EXCEPT !.shape = shape, !.sig = NoSig] : shape \in {"whole", "old", "cut"}}
        \cup {[doc EXCEPT !.shape = "cut", !.sk = sk, !.wg = wg, !.sig = NoSig] :
                 sk \in {doc.sk, NoKey}, wg \in {doc.wg, NoKey}}
        \cup {[doc EXCEPT !.shape = shape] :
                 shape \in {"whole", "cut"} \cup IF cmd = "migrate" THEN {"old"} ELSE {}}

\* Killed, or out of space.
Die ==
    /\ pc # "idle"
    /\ \/ UNCHANGED <<island, secrets>>
       \/ /\ pc = "dump"
          /\ island' \in CutShort(cand) \cup {Torn}
          /\ UNCHANGED secrets
       \/ /\ pc = "signing"
          /\ secrets' = [secrets EXCEPT ![cand.id].signing = Torn]
          /\ UNCHANGED island
       \/ /\ pc = "wireguard"
          /\ secrets' = [secrets EXCEPT ![cand.id].wireguard = Torn]
          /\ UNCHANGED island
    /\ cut' = (cut \/ pc \in {"dump", "signing", "wireguard"})
    /\ Ends
    /\ UNCHANGED <<draft, keys, previous, touched, commands, edits>>

Next ==
    \/ \E body \in Body : SaveDraft(body) \/ EditByHand(body)
    \/ PutBack
    \/ \E source \in Source : New(source)
    \/ UpBegins \/ Migrate \/ Apply
    \/ Dump \/ WriteSigning \/ WriteWireguard \/ ClearDraft
    \/ UpAccepts \/ UpRefuses
    \/ Die

Spec == Init /\ [][Next]_identityVars

-----------------------------------------------------------------------------
(* Properties.                                                              *)

\* Every variable holds a value of its kind.
IdentityTypeOK ==
    /\ island \in Doc \cup {NoFile, Torn}
    /\ secrets \in [Id -> [signing : KeyFile, wireguard : KeyFile]]
    /\ draft \in Unsigned \cup {NoFile}
    /\ pc \in {"idle", "dump", "signing", "wireguard", "clear", "check"}
    /\ cmd \in {"none", "new", "up", "migrate", "apply"}
    /\ cand \in Doc \cup {NoFile}
    /\ pc \in {"dump", "signing", "wireguard"} => cand \in Doc
    /\ keys \in 0..commands /\ commands \in 0..MaxCommands
    /\ previous \in Doc
    /\ {cut, touched, sure} \subseteq BOOLEAN
    /\ edits \in 0..MaxEdits

\* No command writes an island.yaml, new or edited or migrated, in which two
\* cells answer to one PCI or an address is both a subscriber's and a
\* service's (checks.py:1-16; cli.py:264-268, 392-396; apply.py:177-181).
WrittenIsSound == [][Dump => Sound(island')]_identityVars

Whose(doc) == <<doc.id, doc.sk, doc.wg>>

\* apply and migrate leave an island its identity, though the draft was
\* staged under, or the page loaded from, an identity that `new` has replaced
\* since; and what was signed stays signed (apply.py:60-63; migrate.py:8-12).
IdentityKept ==
    [][Dump /\ cmd \in {"apply", "migrate"} /\ ~touched =>
          /\ Whose(island') = Whose(island)
          /\ island.sig # NoSig => island'.sig # NoSig]_identityVars

\* What a command that ends leaves, `island-init check` accepts, unless the
\* user edited it meanwhile. Of apply it is true if its island.yaml was
\* accepted and declared the key in signing.key, which apply does not compare
\* (TASKS.md:85; cli.py:210-217; migrate.py:62-81; apply.py:99-110).
FinishedIsAccepted ==
    [][/\ Dump /\ cmd = "migrate" => Accepted'
       /\ Dump /\ cmd = "apply" /\ sure => Accepted'
       /\ WriteWireguard /\ ~touched => Accepted']_identityVars

\* check looks at wireguard.key only, and yet that is enough: if a key is
\* declared and it is that one, so is signing.key, however often `new` was killed,
\* as long as nobody put an older file back (checks.py:222-255; wizard.py:155-156).
CheckedKeysMatch ==
    /\ Accepted /\ ~touched
    /\ island.wg # NoKey /\ secrets[island.id].wireguard \in Key
    => secrets[island.id].signing = island.sk

\* `up` refuses an island.yaml only if the user touched it, a kill cut it, or
\* an older release wrote it (island.sh:229-237).
RefusedForCause ==
    [][UpRefuses => touched \/ cut \/ (island \in Doc /\ island.shape = "old")]_identityVars

\* apply.py:1-6 and island-init/README.md:61: the console stages a candidate
\* "once it passes schema + semantic checks", and apply signs it. So an edit
\* that keeps every rule of an accepted island whose keys are on disk can be
\* staged: what is missing from the draft is only the signature to come.
SoundEditsStage ==
    Accepted /\ secrets[island.id].signing = island.sk =>
        \A body \in Body :
            LET edited == Candidate([island EXCEPT !.body = body], island)
            IN  Validates(SignDocument(edited, island.sk)) => Validates(edited)
=============================================================================
