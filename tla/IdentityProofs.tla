--------------------------- MODULE IdentityProofs ---------------------------
(***************************************************************************)
(* For any islands, documents, commands and edits: what the commands write *)
(* is sound, keeps its identity and is accepted by check, the keys on disk *)
(* are the declared ones, and `up` refuses only what was cut, edited or    *)
(* left by an older release.                                               *)
(*                                                                         *)
(* The argument rests on IdentityInv. Two facts carry it: no key on disk   *)
(* is of a generation that a `new` under way has just generated, so a      *)
(* wireguard.key that is the declared one was written by the same run as   *)
(* the document, after its signing.key; and a document about to be written *)
(* by apply or migrate declares the keys of the one it replaces, until the *)
(* user changes that.                                                      *)
(***************************************************************************)
EXTENDS Identity, ChecksProofs

Building == pc \in {"signing", "wireguard"} \/ (pc = "dump" /\ cmd \in {"new", "up"})
Editing  == pc = "dump" /\ cmd \in {"apply", "migrate"}

\* What `island-init check` would say of a document put in island.yaml.
Acceptable(d) == Validates(d) /\ WireguardMatches(d, secrets[d.id].wireguard)

\* The types that the keys which `new` writes rest on.
Phases ==
    /\ pc = "dump" => cmd # "none"
    /\ Building => cmd \in {"new", "up"} /\ cand.sk \in Key /\ cand.wg \in Key

Typed == IdentityTypeOK /\ Phases

\* What check reads, and `new` completes, is there.
Present == pc \in {"signing", "wireguard", "check"} => island # NoFile

\* A key on disk is of a generation generated by now.
KeysGenerated ==
    \A i \in Id : /\ secrets[i].signing \in (0..keys) \cup {NoFile, Torn}
                 /\ secrets[i].wireguard \in (0..keys) \cup {NoFile, Torn}

\* `new` writes a whole document with new keys, and signing.key first.
NewKeys ==
    Building => /\ cand.sk = keys /\ cand.wg = keys
                /\ Validates(cand)
                /\ pc # "wireguard" => \A i \in Id : secrets[i].wireguard # keys
                /\ pc = "wireguard" => secrets[cand.id].signing = keys
                /\ pc # "dump" /\ ~touched => island = cand

\* apply and migrate keep the identity, and what they write will be accepted.
EditsKeep ==
    Editing => /\ ~touched => /\ island \in Doc /\ cand.sk # NoKey
                              /\ Whose(cand) = Whose(island)
                              /\ island.sig # NoSig => cand.sig # NoSig
               /\ cmd = "migrate" \/ sure \/ (~touched /\ ~cut) => Acceptable(cand)
               /\ ContentPasses(cand)

\* The declared wireguard.key is there only with the declared signing.key; only
\* where a cut has taken more away is no signing key declared.
Declared ==
    ~touched /\ island \in Doc =>
        /\ island.sk = NoKey => island.shape = "cut"
        /\ island.sk # NoKey /\ island.wg # NoKey =>
              /\ island.sk \in Nat /\ island.wg = island.sk
              /\ secrets[island.id].wireguard = island.wg
                    => secrets[island.id].signing = island.sk

\* After runs that ended, both are there, and check passes.
Intact ==
    ~touched /\ ~cut =>
        /\ island # Torn
        /\ island \in Doc /\ pc \notin {"signing", "wireguard"} =>
              /\ secrets[island.id].signing = island.sk
              /\ secrets[island.id].wireguard = island.wg
              /\ island.shape # "old" => Validates(island)

IdentityInv == Present /\ KeysGenerated /\ NewKeys /\ EditsKeep /\ Declared /\ Intact

-----------------------------------------------------------------------------
(* What is assumed of the constants, and the documents that operators make. *)

LEMMA ConstantFacts ==
    /\ MaxCommands \in Nat /\ MaxEdits \in Nat
    /\ NoKey \notin Nat /\ NoFile \notin Nat /\ Torn \notin Nat
    /\ NoFile \notin Doc /\ Torn \notin Doc /\ NoFile # Torn
    /\ NoSig \notin Signature
    /\ \A source \in Source : source.id \in Id /\ source.body \in Body
    /\ LabSource \in Source
BY IdentityAssumption

LEMMA UnsignedIsDoc == Unsigned \subseteq Doc
BY DEF Unsigned, Doc

LEMMA Fields ==
    ASSUME NEW d \in Doc
    PROVE  /\ d.shape \in {"whole", "old", "cut"} /\ d.id \in Id /\ d.body \in Body
           /\ d.sk \in Key \cup {NoKey} /\ d.wg \in Key \cup {NoKey}
           /\ d.sig \in Signature \cup {NoSig}
BY DEF Doc

\* Signing keeps everything else, and what is signed is the rest.
LEMMA Signing ==
    ASSUME NEW d \in Doc, NEW k \in Key
    PROVE  /\ SignDocument(d, k) \in Doc
           /\ SignDocument(d, k).shape = d.shape
           /\ SignDocument(d, k).body = d.body
           /\ Whose(SignDocument(d, k)) = Whose(d)
           /\ SignDocument(d, k).sig # NoSig
           /\ k = d.sk => Verifies(SignDocument(d, k))
<1> DEFINE s == SignDocument(d, k)
<1>1. Payload(d) \in Unsigned
    BY Fields DEF Payload, Unsigned, Doc
<1>2. [by |-> k, over |-> Payload(d)] \in Signature
    BY <1>1 DEF Signature
<1>3. s = [d EXCEPT !.sig = [by |-> k, over |-> Payload(d)]]
    BY DEF SignDocument
<1>4. s \in Doc
    BY <1>2, <1>3 DEF Doc
<1>5. /\ s.shape = d.shape /\ s.body = d.body /\ Whose(s) = Whose(d)
      /\ s.sig = [by |-> k, over |-> Payload(d)]
    BY <1>3 DEF Doc, Whose
<1>6. Payload(s) = Payload(d)
    BY <1>3 DEF Payload, Doc
<1>7. k = d.sk => Verifies(s)
    BY <1>5, <1>6, ConstantFacts DEF Verifies, Key, Whose
<1>8. QED
    BY <1>2, <1>4, <1>5, <1>7, ConstantFacts

\* What validates unsigned validates when its declared key has signed it.
LEMMA SignedValidates ==
    ASSUME NEW d \in Doc, d.sig = NoSig, d.sk \in Key, Validates(d)
    PROVE  Validates(SignDocument(d, d.sk))
<1> DEFINE s == SignDocument(d, d.sk)
<1>1. /\ s.shape = d.shape /\ s.body = d.body /\ s.sig # NoSig /\ Verifies(s)
    BY Signing
<1>2. d.body.profile # "production"
    BY DEF Validates, ProductionPasses
<1>3. QED
    BY <1>1, <1>2 DEF Validates, ContentPasses, ProductionPasses

LEMMA NewDocuments ==
    ASSUME NEW source \in Source, NEW k \in Key
    PROVE  /\ Built(source, k) \in Doc
           /\ Built(source, k).id = source.id
           /\ Built(source, k).sk = k /\ Built(source, k).wg = k
<1> DEFINE d == [shape |-> "whole", id |-> source.id, body |-> source.body,
                 sk |-> k, wg |-> k, sig |-> NoSig]
<1>1. d \in Doc
    BY ConstantFacts DEF Doc
<1>2. QED
    BY <1>1, Signing DEF Built, Whose

LEMMA OldIslands ==
    ASSUME NEW source \in Source
    PROVE  /\ OldIsland(source) \in Doc /\ OldIsland(source).shape = "old"
           /\ OldIsland(source).id = source.id
           /\ OldIsland(source).sk = 0 /\ OldIsland(source).wg = 0
<1> DEFINE d == [shape |-> "old", id |-> source.id, body |-> source.body,
                 sk |-> 0, wg |-> 0, sig |-> NoSig]
<1>1. d \in Doc /\ 0 \in Key
    BY ConstantFacts DEF Doc, Key
<1>2. QED
    BY <1>1, Signing DEF OldIsland, Whose

LEMMA Locking ==
    ASSUME NEW d \in Doc, NEW current \in Doc
    PROVE  /\ Candidate(d, current) \in Unsigned
           /\ Whose(Candidate(d, current)) = Whose(current)
           /\ Candidate(d, current).body = d.body
           /\ Candidate(d, current).sig = NoSig
BY DEF Candidate, Unsigned, Doc, Whose

LEMMA Cutting ==
    ASSUME NEW d \in Doc, NEW c \in CutShort(d)
    PROVE  /\ c \in Doc /\ c.id = d.id
           /\ c.sk \in {d.sk, NoKey} /\ c.wg \in {d.wg, NoKey}
           /\ c.sk = d.sk \/ c.shape = "cut"
<1>1. CASE \E shape \in {"whole", "old", "cut"} :
              c = [d EXCEPT !.shape = shape, !.sig = NoSig] \/ c = [d EXCEPT !.shape = shape]
    BY <1>1 DEF Doc
<1>2. CASE \E sk \in {d.sk, NoKey}, wg \in {d.wg, NoKey} :
              c = [d EXCEPT !.shape = "cut", !.sk = sk, !.wg = wg, !.sig = NoSig]
    BY <1>2 DEF Doc
<1>3. QED BY <1>1, <1>2 DEF CutShort

\* Content that passes the rules is sound, in any document.
LEMMA DocSound ==
    ASSUME NEW d \in Doc, ContentPasses(d)
    PROVE  Sound(d)
<1>1. /\ d.body.sites \in Seq(Seq(Nat \cup {NoPci}))
      /\ {d.body.ue, d.body.services} \subseteq [address : Nat, size : Nat \ {0}]
    BY Fields, IdentityAssumption
<1>2. QED BY <1>1, PassingIsSound DEF Prefixes

-----------------------------------------------------------------------------
(* Types.                                                                   *)

LEMMA InitTypes == Init => Typed
<1> SUFFICES ASSUME Init PROVE Typed
    OBVIOUS
<1> USE ConstantFacts
<1>1. Example \in Doc
    BY DEF Example, Doc
<1>2. /\ island \in Doc \cup {NoFile}
      /\ secrets \in [Id -> [signing : KeyFile, wireguard : KeyFile]]
    <2>1. NoKeys \in [signing : KeyFile, wireguard : KeyFile]
        BY DEF NoKeys, KeyFile
    <2>2. [signing |-> 0, wireguard |-> 0] \in [signing : KeyFile, wireguard : KeyFile]
        BY DEF KeyFile, Key
    <2>3. CASE island = NoFile /\ secrets = [i \in Id |-> NoKeys]
        BY <2>1, <2>3
    <2>4. ASSUME NEW source \in Source, island = OldIsland(source),
                 secrets = [i \in Id |-> IF i = source.id
                               THEN [signing |-> 0, wireguard |-> 0] ELSE NoKeys]
          PROVE  /\ island \in Doc \cup {NoFile}
                 /\ secrets \in [Id -> [signing : KeyFile, wireguard : KeyFile]]
        BY <2>1, <2>2, <2>4, OldIslands
    <2>5. QED BY <2>3, <2>4 DEF Init
<1>3. /\ draft = NoFile /\ pc = "idle" /\ cmd = "none" /\ cand = NoFile
      /\ keys = 0 /\ previous = Example /\ commands = 0 /\ edits = 0
      /\ cut = FALSE /\ touched = FALSE /\ sure = FALSE
    BY DEF Init
<1>4. IdentityTypeOK
    <2>1. keys \in 0..commands /\ commands \in 0..MaxCommands /\ edits \in 0..MaxEdits
        BY <1>3
    <2>2. {cut, touched, sure} \subseteq BOOLEAN
        BY <1>3
    <2>3. previous \in Doc /\ draft \in Unsigned \cup {NoFile}
        BY <1>1, <1>3
    <2>4. pc = "idle" /\ cmd = "none" /\ cand = NoFile
        BY <1>3
    <2>5. QED BY <1>2, <2>1, <2>2, <2>3, <2>4 DEF IdentityTypeOK
<1>5. QED BY <1>3, <1>4 DEF Typed, Phases, Building

LEMMA StartingCounts ==
    ASSUME IdentityTypeOK, NEW command, Starts(command)
    PROVE  /\ commands' \in 0..MaxCommands
           /\ keys \in 0..commands' /\ keys + 1 \in 0..commands'
           /\ keys \in Key /\ keys + 1 \in Key
BY ConstantFacts DEF IdentityTypeOK, Starts, Key

LEMMA KeyFilesTyped ==
    ASSUME IdentityTypeOK, NEW i \in Id
    PROVE  /\ secrets[i].signing \in KeyFile /\ secrets[i].wireguard \in KeyFile
BY DEF IdentityTypeOK

LEMMA NextTypes == Typed /\ [Next]_identityVars => IdentityTypeOK'
<1> SUFFICES ASSUME IdentityTypeOK, Phases, [Next]_identityVars PROVE IdentityTypeOK'
    BY DEF Typed
<1> USE ConstantFacts
<1>1. ASSUME NEW body \in Body, SaveDraft(body) PROVE IdentityTypeOK'
    <2> DEFINE posted == [island EXCEPT !.shape = "whole", !.body = body]
    <2>1. posted \in Doc
        BY <1>1 DEF SaveDraft, Doc
    <2>2. draft' \in Unsigned
        BY <1>1, <2>1, Locking DEF SaveDraft
    <2>3. QED BY <1>1, <2>2 DEF SaveDraft, IdentityTypeOK, hostVars
<1>2. ASSUME NEW doc \in Doc, UserWrites(doc) PROVE IdentityTypeOK'
    BY <1>2 DEF UserWrites, IdentityTypeOK, hostVars
<1>3. ASSUME NEW body \in Body, EditByHand(body) PROVE IdentityTypeOK'
    <2>1. [island EXCEPT !.body = body] \in Doc
        BY <1>3 DEF EditByHand, Doc
    <2>2. QED BY <1>2, <1>3, <2>1 DEF EditByHand
<1>4. CASE PutBack
    BY <1>2, <1>4 DEF PutBack, IdentityTypeOK
<1>5. ASSUME NEW source \in Source, NEW command \in {"new", "up"},
             Starts(command), Generates(source),
             UNCHANGED <<island, secrets, draft, previous, cut, touched, edits>>
      PROVE  IdentityTypeOK'
    <2>1. keys' = keys + 1 /\ keys' \in Key /\ keys' \in 0..commands'
          /\ commands' \in 0..MaxCommands
        BY <1>5, StartingCounts DEF Generates
    <2>2. cand' \in Doc
        BY <1>5, <2>1, NewDocuments DEF Generates
    <2>3. QED BY <1>5, <2>1, <2>2 DEF IdentityTypeOK, Generates, Starts
<1>6. ASSUME NEW source \in Source, New(source) PROVE IdentityTypeOK'
    BY <1>5, <1>6 DEF New
<1>7. CASE UpBegins
    <2>1. CASE Generates(LabSource)
        BY <1>5, <1>7, <2>1 DEF UpBegins
    <2>2. CASE /\ pc' = "check" /\ cand' = NoFile /\ sure' = FALSE
               /\ UNCHANGED keys
        <3>1. keys' \in 0..commands' /\ commands' \in 0..MaxCommands
            BY <1>7, <2>2, StartingCounts DEF UpBegins
        <3>2. QED BY <1>7, <2>2, <3>1 DEF UpBegins, IdentityTypeOK, Starts
    <2>3. QED BY <1>7, <2>1, <2>2 DEF UpBegins
<1>8. CASE Migrate
    <2> DEFINE upgraded == [island EXCEPT !.shape = "whole"]
    <2>1. /\ upgraded \in Doc /\ upgraded.sig = island.sig
          /\ upgraded.sk = island.sk
        BY <1>8 DEF Migrate, Doc
    <2>2. island.sig # NoSig => upgraded.sk \in Key
        BY <1>8, <2>1, Fields DEF Migrate
    <2>3. cand' \in Doc
        BY <1>8, <2>1, <2>2, Signing DEF Migrate, Resigned
    <2>4. keys' \in 0..commands' /\ commands' \in 0..MaxCommands
        BY <1>8, StartingCounts DEF Migrate
    <2>5. QED BY <1>8, <2>3, <2>4 DEF Migrate, IdentityTypeOK, Starts
<1>9. CASE Apply
    <2>1. draft \in Doc /\ Candidate(draft, island) \in Doc
        BY <1>9, Locking, UnsignedIsDoc DEF Apply, IdentityTypeOK
    <2>2. cand' \in Doc
        BY <1>9, <2>1, Signing DEF Apply
    <2>3. keys' \in 0..commands' /\ commands' \in 0..MaxCommands
        BY <1>9, StartingCounts DEF Apply
    <2>4. sure' \in BOOLEAN
        BY <1>9 DEF Apply
    <2>5. QED BY <1>9, <2>2, <2>3, <2>4 DEF Apply, IdentityTypeOK, Starts
<1>10. CASE Dump
    <2>1. cand \in Doc /\ island' = cand
        BY <1>10 DEF Dump, IdentityTypeOK
    <2>2. previous' \in Doc
        BY <1>10 DEF Dump, IdentityTypeOK
    <2>3. touched' \in BOOLEAN
        BY <1>10 DEF Dump, IdentityTypeOK
    <2>4. CASE cmd = "migrate"
        BY <1>10, <2>1, <2>2, <2>4 DEF Dump, Ends, IdentityTypeOK
    <2>5. CASE cmd # "migrate"
        BY <1>10, <2>1, <2>2, <2>3, <2>5 DEF Dump, IdentityTypeOK
    <2>6. QED BY <2>4, <2>5
<1>11. ASSUME NEW content \in KeyFile,
              \/ secrets' = [secrets EXCEPT ![cand.id].signing = content]
              \/ secrets' = [secrets EXCEPT ![cand.id].wireguard = content]
       PROVE  secrets' \in [Id -> [signing : KeyFile, wireguard : KeyFile]]
    BY <1>11 DEF IdentityTypeOK
<1>12. CASE WriteSigning
    <2>1. cand.sk \in KeyFile
        BY <1>12 DEF WriteSigning, Phases, Building, KeyFile
    <2>2. secrets' \in [Id -> [signing : KeyFile, wireguard : KeyFile]]
        BY <1>11, <1>12, <2>1 DEF WriteSigning
    <2>3. QED BY <1>12, <2>2 DEF WriteSigning, IdentityTypeOK
<1>13. CASE WriteWireguard
    <2>1. cand.wg \in KeyFile
        BY <1>13 DEF WriteWireguard, Phases, Building, KeyFile
    <2>2. secrets' \in [Id -> [signing : KeyFile, wireguard : KeyFile]]
        BY <1>11, <1>13, <2>1 DEF WriteWireguard
    <2>3. QED BY <1>13, <2>2 DEF WriteWireguard, NewEnds, Ends, IdentityTypeOK
<1>14. CASE ClearDraft
    BY <1>14 DEF ClearDraft, Ends, IdentityTypeOK
<1>15. CASE UpAccepts \/ UpRefuses
    BY <1>15 DEF UpAccepts, UpRefuses, UpChecked, Ends, IdentityTypeOK
<1>16. CASE Die
    <2>1. Torn \in KeyFile
        BY DEF KeyFile
    <2>2. /\ island' \in Doc \cup {NoFile, Torn}
          /\ secrets' \in [Id -> [signing : KeyFile, wireguard : KeyFile]]
        <3>1. CASE UNCHANGED <<island, secrets>>
            BY <3>1 DEF IdentityTypeOK
        <3>2. CASE /\ pc = "dump" /\ island' \in CutShort(cand) \cup {Torn}
                   /\ UNCHANGED secrets
            BY <3>2, Cutting DEF IdentityTypeOK
        <3>3. CASE /\ \/ secrets' = [secrets EXCEPT ![cand.id].signing = Torn]
                      \/ secrets' = [secrets EXCEPT ![cand.id].wireguard = Torn]
                   /\ UNCHANGED island
            BY <1>11, <2>1, <3>3 DEF IdentityTypeOK
        <3>4. QED BY <1>16, <3>1, <3>2, <3>3 DEF Die
    <2>3. cut' \in BOOLEAN
        BY <1>16 DEF Die, IdentityTypeOK
    <2>4. QED BY <1>16, <2>2, <2>3 DEF Die, Ends, IdentityTypeOK
<1>17. CASE UNCHANGED identityVars
    BY <1>17 DEF identityVars, hostVars, IdentityTypeOK
<1>18. QED
    BY <1>1, <1>3, <1>4, <1>6, <1>7, <1>8, <1>9, <1>10, <1>12, <1>13, <1>14, <1>15,
       <1>16, <1>17 DEF Next

LEMMA NextPhases == Typed /\ [Next]_identityVars => Phases'
<1> SUFFICES ASSUME IdentityTypeOK, Phases, [Next]_identityVars PROVE Phases'
    BY DEF Typed
<1> USE ConstantFacts
<1>1. CASE UNCHANGED <<pc, cmd, cand>>
    BY <1>1 DEF Phases, Building
<1>2. CASE Ends
    BY <1>2 DEF Ends, Phases, Building
<1>3. ASSUME NEW source \in Source, NEW command \in {"new", "up"},
             Starts(command), Generates(source)
      PROVE  Phases'
    <2>1. keys' = keys + 1 /\ keys' \in Key /\ cand' = Built(source, keys')
          /\ cmd' \in {"new", "up"}
        BY <1>3, StartingCounts DEF Generates, Starts
    <2>2. QED BY <2>1, NewDocuments DEF Phases, Building
<1>4. CASE UpBegins
    BY <1>3, <1>4 DEF UpBegins, Phases, Building
<1>5. CASE Migrate \/ Apply
    BY <1>5 DEF Migrate, Apply, Starts, Phases, Building
<1>6. CASE Dump
    BY <1>2, <1>6 DEF Dump, IdentityTypeOK, Phases, Building
<1>7. CASE WriteSigning
    BY <1>7 DEF WriteSigning, Phases, Building
<1>8. CASE WriteWireguard
    BY <1>2, <1>8 DEF WriteWireguard, NewEnds, Phases, Building
<1>9. ASSUME NEW source \in Source, New(source) PROVE Phases'
    BY <1>3, <1>9 DEF New
<1>10. QED
    BY <1>1, <1>2, <1>4, <1>5, <1>6, <1>7, <1>8, <1>9
       DEF Next, SaveDraft, EditByHand, PutBack, UserWrites, hostVars, identityVars,
           ClearDraft, UpAccepts, UpRefuses, UpChecked, Die

LEMMA TypesInvariant == Spec => []Typed
<1>1. Typed /\ [Next]_identityVars => Typed'
    BY NextTypes, NextPhases DEF Typed
<1>2. QED BY <1>1, InitTypes, PTL DEF Spec

\* Every variable keeps its type.
THEOREM IdentityTypes == Spec => []IdentityTypeOK
<1>1. Typed => IdentityTypeOK
    BY DEF Typed
<1>2. QED BY <1>1, TypesInvariant, PTL

-----------------------------------------------------------------------------
(* The invariant.                                                           *)

LEMMA InitInv == Init => IdentityInv
<1> SUFFICES ASSUME Init PROVE IdentityInv
    OBVIOUS
<1> USE ConstantFacts
<1>1. pc = "idle" /\ keys = 0
    BY DEF Init
<1>2. Present /\ NewKeys /\ EditsKeep
    BY <1>1 DEF Present, NewKeys, EditsKeep, Building, Editing
<1>3. CASE island = NoFile /\ secrets = [i \in Id |-> NoKeys]
    BY <1>1, <1>2, <1>3 DEF IdentityInv, KeysGenerated, Declared, Intact, NoKeys
<1>4. ASSUME NEW source \in Source, island = OldIsland(source),
             secrets = [i \in Id |-> IF i = source.id
                           THEN [signing |-> 0, wireguard |-> 0] ELSE NoKeys]
      PROVE  IdentityInv
    <2>1. /\ island \in Doc /\ island.shape = "old" /\ island.id = source.id
          /\ island.sk = 0 /\ island.wg = 0 /\ source.id \in Id
        BY <1>4, OldIslands
    <2>2. secrets[island.id].signing = 0 /\ secrets[island.id].wireguard = 0
        BY <1>4, <2>1
    <2>3. KeysGenerated
        BY <1>1, <1>4 DEF KeysGenerated, NoKeys
    <2>4. Declared /\ Intact
        BY <2>1, <2>2 DEF Declared, Intact
    <2>5. QED BY <1>2, <2>3, <2>4 DEF IdentityInv
<1>5. QED BY <1>3, <1>4 DEF Init

LEMMA WritesOneKey ==
    ASSUME IdentityTypeOK, cand.id \in Id, NEW content, NEW i \in Id
    PROVE  /\ secrets' = [secrets EXCEPT ![cand.id].signing = content] =>
                /\ secrets'[i].wireguard = secrets[i].wireguard
                /\ secrets'[i].signing = IF i = cand.id THEN content
                                         ELSE secrets[i].signing
           /\ secrets' = [secrets EXCEPT ![cand.id].wireguard = content] =>
                /\ secrets'[i].signing = secrets[i].signing
                /\ secrets'[i].wireguard = IF i = cand.id THEN content
                                           ELSE secrets[i].wireguard
BY DEF IdentityTypeOK

\* Nothing moves.
LEMMA InvUnchanged ==
    ASSUME IdentityInv,
           UNCHANGED <<island, secrets, pc, cmd, cand, keys, cut, touched, sure>>
    PROVE  IdentityInv'
BY DEF IdentityInv, Present, KeysGenerated, NewKeys, EditsKeep, Declared, Intact,
       Building, Editing, Acceptable, Whose

\* A command is over, and nothing else moves.
LEMMA InvEnds ==
    ASSUME IdentityInv, Ends, pc \notin {"signing", "wireguard"},
           UNCHANGED <<island, secrets, keys, cut, touched>>
    PROVE  IdentityInv'
BY DEF IdentityInv, Ends, Present, KeysGenerated, NewKeys, EditsKeep, Declared, Intact,
       Building, Editing

LEMMA InvUserWrites ==
    ASSUME Typed, IdentityInv, NEW doc \in Doc, UserWrites(doc)
    PROVE  IdentityInv'
<1>1. /\ island' = doc /\ touched' = TRUE
      /\ UNCHANGED <<secrets, pc, cmd, cand, keys, cut, sure>>
    BY DEF UserWrites, hostVars
<1>2. Present' /\ KeysGenerated'
    BY <1>1, ConstantFacts DEF IdentityInv, Present, KeysGenerated
<1>3. NewKeys'
    BY <1>1 DEF IdentityInv, NewKeys, Building
<1>4. EditsKeep'
    BY <1>1 DEF IdentityInv, EditsKeep, Editing, Acceptable
<1>5. Declared' /\ Intact'
    BY <1>1 DEF Declared, Intact
<1>6. QED BY <1>2, <1>3, <1>4, <1>5 DEF IdentityInv

LEMMA InvGenerates ==
    ASSUME Typed, IdentityInv, NEW source \in Source, NEW command \in {"new", "up"},
           Starts(command), Generates(source),
           UNCHANGED <<island, secrets, cut, touched>>
    PROVE  IdentityInv'
<1> USE ConstantFacts
<1>1. /\ pc = "idle" /\ pc' = "dump" /\ cmd' \in {"new", "up"}
      /\ keys \in Nat /\ keys' = keys + 1
      /\ cand'.sk = keys' /\ cand'.wg = keys' /\ Validates(cand')
    BY StartingCounts, NewDocuments DEF Typed, Starts, Generates, IdentityTypeOK
<1>2. \A i \in Id : /\ secrets[i].signing \in (0..keys) \cup {NoFile, Torn}
                    /\ secrets[i].wireguard \in (0..keys) \cup {NoFile, Torn}
    BY DEF IdentityInv, KeysGenerated
<1>3. Present' /\ EditsKeep'
    BY <1>1 DEF Present, EditsKeep, Editing
<1>4. KeysGenerated'
    BY <1>1, <1>2 DEF KeysGenerated
<1>5. NewKeys'
    BY <1>1, <1>2 DEF NewKeys, Building
<1>6. Declared' /\ Intact'
    BY <1>1 DEF IdentityInv, Declared, Intact
<1>7. QED BY <1>3, <1>4, <1>5, <1>6 DEF IdentityInv

LEMMA InvUpChecks ==
    ASSUME IdentityInv, pc = "idle", pc' = "check", island # NoFile,
           UNCHANGED <<island, secrets, keys, cut, touched>>
    PROVE  IdentityInv'
BY DEF IdentityInv, Present, KeysGenerated, NewKeys, EditsKeep, Declared, Intact,
       Building, Editing

LEMMA InvMigrate ==
    ASSUME Typed, IdentityInv, Migrate
    PROVE  IdentityInv'
<1> USE ConstantFacts
<1> DEFINE upgraded == [island EXCEPT !.shape = "whole"]
<1>1. /\ pc = "idle" /\ pc' = "dump" /\ cmd' = "migrate" /\ island \in Doc
      /\ cand' = Resigned(upgraded)
      /\ Validates(cand') /\ WireguardMatches(cand', secrets[cand'.id].wireguard)
      /\ UNCHANGED <<island, secrets, keys, cut, touched>>
    BY DEF Migrate, Starts
<1>2. /\ upgraded \in Doc /\ upgraded.sig = island.sig
      /\ Whose(upgraded) = Whose(island) /\ upgraded.sk = island.sk
    BY <1>1 DEF Doc, Whose
<1>3. /\ Whose(cand') = Whose(island)
      /\ island.sig # NoSig => cand'.sig # NoSig
    <2>1. CASE island.sig = NoSig
        BY <1>1, <1>2, <2>1 DEF Resigned
    <2>2. CASE island.sig # NoSig
        <3>1. island.sk \in Key
            BY <1>1, <2>2, Fields DEF Migrate
        <3>2. cand' = SignDocument(upgraded, upgraded.sk)
            BY <1>1, <1>2, <2>2 DEF Resigned
        <3>3. QED BY <1>2, <3>1, <3>2, Signing
    <2>3. QED BY <2>1, <2>2
<1>4. EditsKeep'
    <2>1. ~touched => cand'.sk # NoKey
        <3>1. ~touched => island.sk # NoKey
            BY <1>1 DEF Migrate, IdentityInv, Declared
        <3>2. QED BY <1>3, <3>1 DEF Whose
    <2>2. QED BY <1>1, <1>3, <2>1 DEF EditsKeep, Acceptable, Whose, Validates
<1>5. Present' /\ NewKeys'
    BY <1>1 DEF Present, NewKeys, Building
<1>6. KeysGenerated' /\ Declared' /\ Intact'
    BY <1>1 DEF IdentityInv, KeysGenerated, Declared, Intact
<1>7. QED BY <1>4, <1>5, <1>6 DEF IdentityInv

LEMMA InvApply ==
    ASSUME Typed, IdentityInv, Apply
    PROVE  IdentityInv'
<1> USE ConstantFacts
<1> DEFINE locked == Candidate(draft, island)
           key == secrets[island.id].signing
<1>1. /\ pc = "idle" /\ pc' = "dump" /\ cmd' = "apply" /\ island \in Doc
      /\ draft \in Doc /\ Validates(locked) /\ key \in Key /\ island.sk # NoKey
      /\ cand' = SignDocument(locked, key)
      /\ sure' = (Accepted /\ key = island.sk)
      /\ UNCHANGED <<island, secrets, keys, cut, touched>>
    BY UnsignedIsDoc DEF Apply, Starts, Typed, IdentityTypeOK
<1>2. /\ locked \in Doc /\ locked.sig = NoSig /\ Whose(locked) = Whose(island)
    BY <1>1, Locking, UnsignedIsDoc
<1>3. /\ Whose(cand') = Whose(island) /\ cand'.sig # NoSig
      /\ cand'.body = locked.body
    BY <1>1, <1>2, Signing
<1>4. ASSUME key = island.sk,
             WireguardMatches(island, secrets[island.id].wireguard)
      PROVE  Acceptable(cand)'
    <2>1. locked.sk = key
        BY <1>2, <1>4 DEF Whose
    <2>2. Validates(cand')
        BY <1>1, <1>2, <2>1, SignedValidates
    <2>3. cand'.id = island.id /\ cand'.wg = island.wg
        BY <1>3 DEF Whose
    <2>4. WireguardMatches(cand', secrets[cand'.id].wireguard)
        BY <1>4, <2>3 DEF WireguardMatches
    <2>5. QED BY <1>1, <2>2, <2>4 DEF Acceptable
<1>5. ASSUME sure' PROVE Acceptable(cand)'
    BY <1>1, <1>4, <1>5 DEF Accepted
<1>6. ASSUME ~touched, ~cut PROVE Acceptable(cand)'
    <2>1. key = island.sk /\ secrets[island.id].wireguard = island.wg
        BY <1>1, <1>6 DEF IdentityInv, Intact
    <2>2. QED BY <1>4, <2>1 DEF WireguardMatches
<1>7. ContentPasses(cand')
    BY <1>1, <1>3 DEF Validates, ContentPasses
<1>8. EditsKeep'
    BY <1>1, <1>3, <1>5, <1>6, <1>7 DEF EditsKeep, Whose
<1>9. Present' /\ NewKeys'
    BY <1>1 DEF Present, NewKeys, Building
<1>10. KeysGenerated' /\ Declared' /\ Intact'
    BY <1>1 DEF IdentityInv, KeysGenerated, Declared, Intact
<1>11. QED BY <1>8, <1>9, <1>10 DEF IdentityInv

\* apply or migrate has replaced island.yaml: by a document with its keys.
LEMMA InvDumpEdit ==
    ASSUME Typed, IdentityInv, Editing, Dump
    PROVE  IdentityInv'
<1> USE ConstantFacts
<1>1. /\ cand \in Doc /\ island' = cand
      /\ UNCHANGED <<secrets, keys, cut, touched>>
      /\ pc' \in {"idle", "clear"}
    BY DEF Dump, Ends, Editing, Typed, IdentityTypeOK
<1>2. Present' /\ NewKeys' /\ EditsKeep' /\ KeysGenerated'
    BY <1>1 DEF IdentityInv, Present, NewKeys, EditsKeep, KeysGenerated, Building, Editing
<1>3. ASSUME ~touched
      PROVE  /\ island \in Doc /\ cand.sk # NoKey
             /\ cand.id = island.id /\ cand.sk = island.sk /\ cand.wg = island.wg
    BY <1>3 DEF IdentityInv, EditsKeep, Whose
<1>4. Declared'
    BY <1>1, <1>3 DEF IdentityInv, Declared
<1>5. ASSUME ~touched, ~cut
      PROVE  /\ secrets[cand.id].signing = cand.sk
             /\ secrets[cand.id].wireguard = cand.wg
             /\ Validates(cand)
    BY <1>3, <1>5 DEF IdentityInv, EditsKeep, Intact, Acceptable, Editing
<1>6. Intact'
    BY <1>1, <1>5 DEF Intact
<1>7. QED BY <1>2, <1>4, <1>6 DEF IdentityInv

\* `new` has: none of the keys it names is there yet.
LEMMA InvDumpNew ==
    ASSUME Typed, IdentityInv, Building, Dump
    PROVE  IdentityInv'
<1> USE ConstantFacts
<1>1. /\ pc = "dump" /\ cmd \in {"new", "up"}
      /\ cand \in Doc /\ island' = cand /\ pc' = "signing" /\ touched' = FALSE
      /\ UNCHANGED <<secrets, keys, cut, cmd, cand>>
      /\ keys \in Nat
    <2>1. pc = "dump" /\ cmd \in {"new", "up"} /\ cand \in Doc /\ keys \in Nat
        BY DEF Dump, Building, Typed, IdentityTypeOK
    <2>2. touched' = FALSE
        BY <2>1 DEF Dump
    <2>3. QED BY <2>1, <2>2 DEF Dump
<1>2. /\ cand.sk = keys /\ cand.wg = keys /\ Validates(cand) /\ cand.id \in Id
      /\ \A i \in Id : secrets[i].wireguard # keys
    BY <1>1, Fields DEF IdentityInv, NewKeys
<1>3. Present' /\ NewKeys' /\ EditsKeep' /\ KeysGenerated'
    BY <1>1, <1>2 DEF IdentityInv, Present, NewKeys, EditsKeep, KeysGenerated, Building,
                      Editing
<1>4. Declared' /\ Intact'
    BY <1>1, <1>2 DEF Declared, Intact
<1>5. QED BY <1>3, <1>4 DEF IdentityInv

LEMMA InvWriteSigning ==
    ASSUME Typed, IdentityInv, WriteSigning
    PROVE  IdentityInv'
<1> USE ConstantFacts
<1>1. /\ pc = "signing" /\ pc' = "wireguard" /\ cand.id \in Id
      /\ cand.sk = keys /\ cand.wg = keys /\ Validates(cand)
      /\ \A i \in Id : secrets[i].wireguard # keys
      /\ ~touched => island = cand
      /\ UNCHANGED <<island, cmd, cand, keys, cut, touched>>
      /\ keys \in Nat
    BY Fields DEF WriteSigning, IdentityInv, NewKeys, Building, Typed, IdentityTypeOK
<1>2. \A i \in Id : /\ secrets'[i].wireguard = secrets[i].wireguard
                    /\ secrets'[i].signing = IF i = cand.id THEN keys
                                             ELSE secrets[i].signing
    BY <1>1, WritesOneKey DEF WriteSigning, Typed
<1>3. Present' /\ EditsKeep'
    BY <1>1 DEF IdentityInv, Present, EditsKeep, Editing
<1>4. NewKeys'
    BY <1>1, <1>2 DEF NewKeys, Building
<1>5. KeysGenerated'
    BY <1>1, <1>2 DEF IdentityInv, KeysGenerated
<1>6. Declared' /\ Intact'
    BY <1>1, <1>2 DEF IdentityInv, Declared, Intact
<1>7. QED BY <1>3, <1>4, <1>5, <1>6 DEF IdentityInv

LEMMA InvWriteWireguard ==
    ASSUME Typed, IdentityInv, WriteWireguard
    PROVE  IdentityInv'
<1> USE ConstantFacts
<1>1. /\ pc = "wireguard" /\ pc' \in {"idle", "check"} /\ cand.id \in Id
      /\ cand.sk = keys /\ cand.wg = keys /\ Validates(cand)
      /\ secrets[cand.id].signing = keys
      /\ island # NoFile
      /\ ~touched => island = cand
      /\ UNCHANGED <<island, keys, touched>>
      /\ keys \in Nat
    BY Fields DEF WriteWireguard, NewEnds, Ends, IdentityInv, Present, NewKeys, Building,
                  Typed, IdentityTypeOK
<1>2. \A i \in Id : /\ secrets'[i].signing = secrets[i].signing
                    /\ secrets'[i].wireguard = IF i = cand.id THEN keys
                                               ELSE secrets[i].wireguard
    BY <1>1, WritesOneKey DEF WriteWireguard, Typed
<1>3. Present' /\ NewKeys' /\ EditsKeep'
    BY <1>1 DEF Present, NewKeys, EditsKeep, Building, Editing
<1>4. KeysGenerated'
    BY <1>1, <1>2 DEF IdentityInv, KeysGenerated
<1>5. ASSUME ~touched
      PROVE  island \in Doc => /\ island'.sk = keys /\ island'.wg = keys
                               /\ secrets'[island'.id].signing = keys
                               /\ secrets'[island'.id].wireguard = keys
    BY <1>1, <1>2, <1>5
<1>6. Declared'
    BY <1>1, <1>5 DEF Declared
<1>7. Intact'
    BY <1>1, <1>5 DEF Intact, Typed, IdentityTypeOK, Phases
<1>8. QED BY <1>3, <1>4, <1>6, <1>7 DEF IdentityInv

LEMMA InvDie ==
    ASSUME Typed, IdentityInv, Die
    PROVE  IdentityInv'
<1> USE ConstantFacts
<1>1. Ends /\ UNCHANGED <<keys, touched>>
    BY DEF Die
<1>2. Present' /\ NewKeys' /\ EditsKeep'
    BY <1>1 DEF Ends, Present, NewKeys, EditsKeep, Building, Editing
<1>3. CASE pc \notin {"dump", "signing", "wireguard"}
    <2>1. UNCHANGED <<island, secrets, cut>>
        BY <1>3 DEF Die, Typed, IdentityTypeOK
    <2>2. QED BY <1>1, <1>3, <2>1, InvEnds
<1>4. CASE pc \in {"dump", "signing", "wireguard"} /\ UNCHANGED <<island, secrets>>
    <2>1. cut' = TRUE
        BY <1>4 DEF Die
    <2>2. KeysGenerated' /\ Declared' /\ Intact'
        BY <1>1, <1>4, <2>1 DEF IdentityInv, KeysGenerated, Declared, Intact
    <2>3. QED BY <1>2, <2>2 DEF IdentityInv
<1>5. CASE /\ pc = "dump" /\ island' \in CutShort(cand) \cup {Torn}
           /\ UNCHANGED secrets
    <2>1. cut' = TRUE /\ cand \in Doc
        BY <1>5 DEF Die, Typed, IdentityTypeOK
    <2>2. KeysGenerated' /\ Intact'
        BY <1>1, <1>5, <2>1 DEF IdentityInv, KeysGenerated, Intact
    <2>3. ASSUME ~touched, island' \in Doc
          PROVE  /\ island'.sk = NoKey => island'.shape = "cut"
                 /\ island'.sk # NoKey /\ island'.wg # NoKey =>
                       /\ island'.sk \in Nat /\ island'.wg = island'.sk
                       /\ secrets[island'.id].wireguard = island'.wg
                             => secrets[island'.id].signing = island'.sk
        <3>1. /\ island'.id = cand.id /\ cand.id \in Id
              /\ island'.sk \in {cand.sk, NoKey} /\ island'.wg \in {cand.wg, NoKey}
              /\ island'.sk = cand.sk \/ island'.shape = "cut"
            BY <1>5, <2>1, <2>3, Cutting, Fields
        <3>2. CASE Building
            <4>1. /\ cand.sk = keys /\ cand.wg = keys /\ keys \in Nat
                  /\ secrets[cand.id].wireguard # keys
                BY <1>5, <3>1, <3>2 DEF IdentityInv, NewKeys, Typed, IdentityTypeOK
            <4>2. QED BY <3>1, <4>1
        <3>3. CASE Editing
            <4>1. /\ island \in Doc /\ cand.id = island.id /\ cand.sk # NoKey
                  /\ cand.sk = island.sk /\ cand.wg = island.wg
                BY <2>3, <3>3 DEF IdentityInv, EditsKeep, Whose
            <4>2. QED BY <2>3, <3>1, <4>1 DEF IdentityInv, Declared
        <3>4. Building \/ Editing
            BY <1>5 DEF Typed, Phases, IdentityTypeOK, Building, Editing
        <3>5. QED BY <3>2, <3>3, <3>4
    <2>4. Declared'
        BY <1>1, <1>5, <2>3 DEF Declared
    <2>5. QED BY <1>2, <2>2, <2>4 DEF IdentityInv
<1>6. CASE /\ pc \in {"signing", "wireguard"} /\ UNCHANGED island
           /\ \/ pc = "signing" /\ secrets' = [secrets EXCEPT ![cand.id].signing = Torn]
              \/ pc = "wireguard" /\ secrets' = [secrets EXCEPT ![cand.id].wireguard = Torn]
    <2>1. /\ cut' = TRUE /\ cand.id \in Id /\ keys \in Nat
          /\ cand.wg = keys
          /\ ~touched => island = cand
          /\ pc = "signing" => secrets[cand.id].wireguard # keys
        <3>1. cand \in Doc /\ keys \in Nat
            BY <1>6 DEF Typed, IdentityTypeOK
        <3>2. cut' = TRUE /\ cand.id \in Id
            BY <1>6, <3>1, Fields DEF Die
        <3>3. QED BY <1>6, <3>1, <3>2 DEF IdentityInv, NewKeys, Building
    <2>2. \A i \in Id :
             /\ secrets'[i].signing \in {secrets[i].signing, Torn}
             /\ secrets'[i].wireguard \in {secrets[i].wireguard, Torn}
        BY <1>6, <2>1, WritesOneKey DEF Typed
    <2>3. KeysGenerated' /\ Intact'
        BY <1>1, <2>1, <2>2 DEF IdentityInv, KeysGenerated, Intact
    <2>4. secrets'[cand.id].wireguard # keys
        BY <1>6, <2>1, WritesOneKey DEF Typed
    <2>5. Declared'
        BY <1>1, <1>6, <2>1, <2>4 DEF IdentityInv, Declared
    <2>6. QED BY <1>2, <2>3, <2>5 DEF IdentityInv
<1>7. QED BY <1>3, <1>4, <1>5, <1>6 DEF Die

LEMMA NextInv == Typed /\ IdentityInv /\ [Next]_identityVars => IdentityInv'
<1> SUFFICES ASSUME Typed, IdentityInv, [Next]_identityVars PROVE IdentityInv'
    OBVIOUS
<1>1. ASSUME NEW body \in Body, SaveDraft(body) PROVE IdentityInv'
    BY <1>1, InvUnchanged DEF SaveDraft, hostVars
<1>2. ASSUME NEW body \in Body, EditByHand(body) PROVE IdentityInv'
    <2>1. [island EXCEPT !.body = body] \in Doc
        BY <1>2 DEF EditByHand, Doc
    <2>2. QED BY <1>2, <2>1, InvUserWrites DEF EditByHand
<1>3. CASE PutBack
    <2>1. previous \in Doc
        BY DEF Typed, IdentityTypeOK
    <2>2. QED BY <1>3, <2>1, InvUserWrites DEF PutBack
<1>4. ASSUME NEW source \in Source, New(source) PROVE IdentityInv'
    BY <1>4, InvGenerates DEF New
<1>5. CASE UpBegins
    <2>1. CASE Generates(LabSource)
        BY <1>5, <2>1, InvGenerates, ConstantFacts DEF UpBegins
    <2>2. CASE island # NoFile /\ pc' = "check" /\ UNCHANGED keys
        BY <1>5, <2>2, InvUpChecks DEF UpBegins, Starts
    <2>3. QED BY <1>5, <2>1, <2>2 DEF UpBegins
<1>6. CASE Migrate
    BY <1>6, InvMigrate
<1>7. CASE Apply
    BY <1>7, InvApply
<1>8. CASE Dump
    <2>1. Building \/ Editing
        BY <1>8 DEF Dump, Typed, Phases, IdentityTypeOK, Building, Editing
    <2>2. QED BY <1>8, <2>1, InvDumpEdit, InvDumpNew
<1>9. CASE WriteSigning
    BY <1>9, InvWriteSigning
<1>10. CASE WriteWireguard
    BY <1>10, InvWriteWireguard
<1>11. CASE ClearDraft \/ UpAccepts \/ UpRefuses
    BY <1>11, InvEnds DEF ClearDraft, UpAccepts, UpRefuses, UpChecked
<1>12. CASE Die
    BY <1>12, InvDie
<1>13. CASE UNCHANGED identityVars
    BY <1>13, InvUnchanged DEF identityVars, hostVars
<1>14. QED
    BY <1>1, <1>2, <1>3, <1>4, <1>5, <1>6, <1>7, <1>8, <1>9, <1>10, <1>11, <1>12, <1>13
       DEF Next

\* The keys on disk and the document about to be written fit island.yaml.
THEOREM IdentityInvariant == Spec => []IdentityInv
BY InitInv, NextInv, TypesInvariant, PTL DEF Spec

-----------------------------------------------------------------------------
(* What it is for.                                                          *)

\* If check accepts a wireguard.key against a declared one, signing.key is the
\* declared one too.
THEOREM KeysMatch == Spec => []CheckedKeysMatch
<1>1. Typed /\ IdentityInv => CheckedKeysMatch
    BY ConstantFacts
       DEF IdentityInv, Declared, CheckedKeysMatch, Accepted, Validates,
           WireguardMatches, Key
<1>2. QED BY <1>1, TypesInvariant, IdentityInvariant, PTL

\* Every document a command writes keeps the rules it was checked for.
THEOREM CommandsWriteSound == Spec => WrittenIsSound
<1>1. Typed /\ IdentityInv => [Dump => Sound(island')]_identityVars
    <2> SUFFICES ASSUME Typed, IdentityInv, Dump PROVE Sound(island')
        OBVIOUS
    <2>1. cand \in Doc /\ island' = cand
        BY DEF Dump, Typed, IdentityTypeOK
    <2>2. Building \/ Editing
        BY DEF Dump, Typed, Phases, IdentityTypeOK, Building, Editing
    <2>3. ContentPasses(cand)
        BY <2>2 DEF IdentityInv, NewKeys, EditsKeep, Validates
    <2>4. QED BY <2>1, <2>3, DocSound
<1>2. QED BY <1>1, TypesInvariant, IdentityInvariant, PTL DEF Spec, WrittenIsSound

\* apply and migrate change neither whose an island is nor that it is signed.
THEOREM EditsKeepIdentity == Spec => IdentityKept
<1>1. Typed /\ IdentityInv
      => [Dump /\ cmd \in {"apply", "migrate"} /\ ~touched =>
             /\ Whose(island') = Whose(island)
             /\ island.sig # NoSig => island'.sig # NoSig]_identityVars
    BY DEF IdentityInv, EditsKeep, Editing, Dump
<1>2. QED BY <1>1, TypesInvariant, IdentityInvariant, PTL DEF Spec, IdentityKept

\* What a command that ends leaves, check accepts.
THEOREM FinishedAccepted == Spec => FinishedIsAccepted
<1>1. Typed /\ IdentityInv
      => [/\ Dump /\ cmd = "migrate" => Accepted'
          /\ Dump /\ cmd = "apply" /\ sure => Accepted'
          /\ WriteWireguard /\ ~touched => Accepted']_identityVars
    <2> SUFFICES ASSUME Typed, IdentityInv
                 PROVE  /\ Dump /\ cmd = "migrate" => Accepted'
                        /\ Dump /\ cmd = "apply" /\ sure => Accepted'
                        /\ WriteWireguard /\ ~touched => Accepted'
        OBVIOUS
    <2>1. ASSUME Dump, cmd = "migrate" \/ (cmd = "apply" /\ sure) PROVE Accepted'
        <3>1. cand \in Doc /\ island' = cand /\ secrets' = secrets
            BY <2>1 DEF Dump, Typed, IdentityTypeOK
        <3>2. Acceptable(cand)
            BY <2>1 DEF IdentityInv, EditsKeep, Editing, Dump
        <3>3. QED BY <3>1, <3>2 DEF Accepted, Acceptable
    <2>2. ASSUME WriteWireguard, ~touched PROVE Accepted'
        <3>1. /\ cand \in Doc /\ island' = cand /\ Validates(cand) /\ cand.id \in Id
            <4>1. cand \in Doc /\ island' = island
                BY <2>2 DEF WriteWireguard, NewEnds, Typed, IdentityTypeOK
            <4>2. island = cand /\ Validates(cand)
                BY <2>2 DEF WriteWireguard, IdentityInv, NewKeys, Building
            <4>3. QED BY <4>1, <4>2, Fields
        <3>2. secrets'[cand.id].wireguard = cand.wg
            BY <2>2, <3>1 DEF WriteWireguard, Typed, IdentityTypeOK
        <3>3. QED BY <3>1, <3>2 DEF Accepted, WireguardMatches
    <2>3. QED BY <2>1, <2>2
<1>2. QED BY <1>1, TypesInvariant, IdentityInvariant, PTL DEF Spec, FinishedIsAccepted

\* `up` refuses only what was touched, cut, or is an older release's.
THEOREM UpRefusesForCause == Spec => RefusedForCause
<1>1. Typed /\ IdentityInv
      => [UpRefuses => touched \/ cut \/ (island \in Doc /\ island.shape = "old")]_identityVars
    <2> SUFFICES ASSUME Typed, IdentityInv, UpRefuses, ~touched, ~cut,
                        ~(island \in Doc /\ island.shape = "old")
                 PROVE  FALSE
        OBVIOUS
    <2>1. pc = "check" /\ ~Accepted
        BY DEF UpRefuses, UpChecked
    <2>2. island \in Doc
        BY <2>1 DEF IdentityInv, Present, Intact, Typed, IdentityTypeOK
    <2>3. Validates(island) /\ secrets[island.id].wireguard = island.wg
        BY <2>1, <2>2 DEF IdentityInv, Intact
    <2>4. QED BY <2>1, <2>2, <2>3 DEF Accepted, WireguardMatches
<1>2. QED BY <1>1, TypesInvariant, IdentityInvariant, PTL DEF Spec, RefusedForCause
=============================================================================
