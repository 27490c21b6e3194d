------------------------------ MODULE CoreSync ------------------------------
(***************************************************************************)
(* One island's core database (Open5GS's `subscribers` collection in       *)
(* MongoDB) and the scripts resccom-sim runs against it: `db sync`         *)
(* (sync.py), which makes it follow the local store, and `roaming import`  *)
(* and `roaming remove` (roaming.py), which keep other islands' subscribers *)
(* in the same collection as marked, credential-free documents.            *)
(*                                                                         *)
(* A script is a mongosh program: each database call is atomic, the script *)
(* is not. Between a script's findOne and its write, and between list_all  *)
(* and the script, the local store is edited, Open5GS writes to documents  *)
(* of attached UEs, and (with MaxRunning > 1) other scripts run. The local *)
(* store is the atomic map that SubscriberStore implements. MongoDB and    *)
(* Open5GS are modelled as src/ uses them; nothing in src/ creates a       *)
(* unique index on the IMSI.                                               *)
(***************************************************************************)
EXTENDS Naturals, Sequences, SequencesExt, FiniteSets

CONSTANTS
    Procs,          \* operators and rigs that run scripts
    Imsi, Cred, NoRow, Destroyed,   \* as in AtomicStore
    NoImsi,         \* "no write is pending"
    MaxRunning,     \* scripts that may overlap
    MaxScripts,     \* bound: scripts started
    MaxEdits        \* bound: changes of the local store

Mode == {"lbo", "hr"}
Row  == [cred : Cred, mode : Mode]
Rows == [Imsi -> Row \cup {NoRow}]

\* A document sync owns; `used` when Open5GS has written its own keys to it
\* (sqn, imeisv, ...), as it does once the UE attaches.
LocalDoc  == [kind : {"local"}, cred : Cred, mode : Mode, used : BOOLEAN]
\* resccom_inbound_roamer: true. It has no credentials.
RoamerDoc == [kind : {"roamer"}, mode : Mode]
Doc       == LocalDoc \cup RoamerDoc

\* What another island exports of a subscriber: no key, no OPc.
PolicyRecord == [mode : Mode]

ASSUME CoreAssumption ==
    /\ NoRow \notin Row \cup PolicyRecord
    /\ Destroyed \notin Rows
    /\ NoImsi \notin Imsi
    /\ {MaxRunning, MaxScripts, MaxEdits} \subseteq Nat

VARIABLES
    store,      \* the local store
    mongo,      \* IMSI -> its documents, in the order findOne meets them
    kind,       \* process -> "idle", "sync" or "import"
    plan,       \* process -> what its script was generated from
    todo,       \* process -> IMSIs its loop has not looked at
    pending,    \* process -> IMSI it has looked up and is about to write
    found,      \* process -> had the findOne of pending found a document?
    scripts,    \* scripts started
    edits       \* changes of the local store

procVars == <<kind, plan, todo, pending, found>>
vars     == <<store, mongo, kind, plan, todo, pending, found, scripts, edits>>

Local == INSTANCE AtomicStore WITH raced <- FALSE

NoPlan == [i \in Imsi |-> NoRow]

\* _doc_js and _inbound_doc_js.
LocalDocOf(row)   == [kind |-> "local", cred |-> row.cred, mode |-> row.mode,
                      used |-> FALSE]
RoamerDocOf(rec)  == [kind |-> "roamer", mode |-> rec.mode]

IsRoamer(d) == d.kind = "roamer"

\* Mutant of SameContent: the keys Open5GS writes are compared as well.
SameContentAndKeys(d, row) == ~IsRoamer(d) /\ d = LocalDocOf(row)

\* canon(existing) === canon(sub.doc), which ignores the keys Open5GS writes.
SameContent(d, row) ==
    ~IsRoamer(d) /\ d.cred = row.cred /\ d.mode = row.mode

\* The documents at these places, in their order; SelectSeq, which the prover
\* does not know.
Places(docs, at) ==
    [n \in 1..Cardinality(at) |->
        docs[CHOOSE k \in at : Cardinality({j \in at : j < k}) = n - 1]]
Where(docs, P(_)) == Places(docs, {k \in DOMAIN docs : P(docs[k])})

Present(i)   == mongo[i] # <<>>
Existing(i)  == Head(mongo[i])
ReplaceFirst(docs, d) == <<d>> \o Tail(docs)

-----------------------------------------------------------------------------
Init ==
    /\ store \in Rows
    /\ mongo = [i \in Imsi |-> <<>>]
    /\ kind = [p \in Procs |-> "idle"]
    /\ plan = [p \in Procs |-> NoPlan]
    /\ todo = [p \in Procs |-> {}]
    /\ pending = [p \in Procs |-> NoImsi]
    /\ found = [p \in Procs |-> FALSE]
    /\ scripts = 0
    /\ edits = 0

Running == {p \in Procs : kind[p] # "idle"}

Start ==
    /\ Cardinality(Running) < MaxRunning
    /\ scripts < MaxScripts
    /\ scripts' = scripts + 1

\* Mutant of Run: the loop covers every IMSI, listed or not.
RunAll(p, k, what) ==
    /\ kind[p] = "idle"
    /\ Start
    /\ kind' = [kind EXCEPT ![p] = k]
    /\ plan' = [plan EXCEPT ![p] = what]
    /\ todo' = [todo EXCEPT ![p] = Imsi]
    /\ UNCHANGED <<store, mongo, pending, found, edits>>

Run(p, k, what) ==
    /\ kind[p] = "idle"
    /\ Start
    /\ kind' = [kind EXCEPT ![p] = k]
    /\ plan' = [plan EXCEPT ![p] = what]
    /\ todo' = [todo EXCEPT ![p] = {i \in Imsi : what[i] # NoRow}]
    /\ UNCHANGED <<store, mongo, pending, found, edits>>

\* The script is over, or was killed with its remaining steps undone.
Quit(p) ==
    /\ kind' = [kind EXCEPT ![p] = "idle"]
    /\ plan' = [plan EXCEPT ![p] = NoPlan]
    /\ todo' = [todo EXCEPT ![p] = {}]
    /\ pending' = [pending EXCEPT ![p] = NoImsi]
    /\ found' = [found EXCEPT ![p] = FALSE]

\* The loop's findOne for IMSI i, in the script of kind k.
LooksAt(p, k, i) ==
    /\ kind[p] = k
    /\ pending[p] = NoImsi
    /\ i \in todo[p]
    /\ todo' = [todo EXCEPT ![p] = @ \ {i}]

Skip == UNCHANGED <<store, mongo, kind, plan, pending, found, scripts, edits>>

GoesOnToWrite(p, i) ==
    /\ pending' = [pending EXCEPT ![p] = i]
    /\ found' = [found EXCEPT ![p] = Present(i)]
    /\ UNCHANGED <<store, mongo, kind, plan, scripts, edits>>

\* The write to the pending IMSI has made its documents docs.
Writes(p, docs) ==
    /\ mongo' = [mongo EXCEPT ![pending[p]] = docs]
    /\ pending' = [pending EXCEPT ![p] = NoImsi]
    /\ found' = [found EXCEPT ![p] = FALSE]
    /\ UNCHANGED <<store, kind, plan, todo, scripts, edits>>

-----------------------------------------------------------------------------
(* db sync.                                                                 *)

\* list_all, and the script generated from it.
SyncStarts(p) == Run(p, "sync", store)

\* Left alone: a roamer's document, or one with the same content.
SyncLeaves(p, i) ==
    /\ LooksAt(p, "sync", i)
    /\ Present(i)
    /\ IsRoamer(Existing(i)) \/ SameContent(Existing(i), plan[p][i])
    /\ Skip

\* Mutant of SyncFinds: no check for the roamer mark.
SyncFindsRoamersToo(p, i) ==
    /\ LooksAt(p, "sync", i)
    /\ Present(i) => IsRoamer(Existing(i)) \/ ~SameContent(Existing(i), plan[p][i])
    /\ GoesOnToWrite(p, i)

SyncFinds(p, i) ==
    /\ LooksAt(p, "sync", i)
    /\ Present(i) => /\ ~IsRoamer(Existing(i))
                     /\ ~SameContent(Existing(i), plan[p][i])
    /\ GoesOnToWrite(p, i)

\* insertOne, or replaceOne of the first match (of none: no effect).
SyncWrites(p) ==
    /\ kind[p] = "sync"
    /\ pending[p] # NoImsi
    /\ LET i == pending[p]
           d == LocalDocOf(plan[p][i])
       IN  Writes(p, IF ~found[p] THEN Append(mongo[i], d)
                     ELSE IF Present(i) THEN ReplaceFirst(mongo[i], d)
                     ELSE <<>>)

\* Mutant of SyncDeletes: documents of IMSIs not listed are left behind.
SyncDeletesNothing(p) ==
    /\ kind[p] = "sync"
    /\ todo[p] = {} /\ pending[p] = NoImsi
    /\ Quit(p)
    /\ UNCHANGED <<store, mongo, scripts, edits>>

\* Mutant of SyncDeletes: the filter does not look at the roamer mark.
SyncDeletesMarked(p) ==
    /\ kind[p] = "sync"
    /\ todo[p] = {} /\ pending[p] = NoImsi
    /\ mongo' = [i \in Imsi |-> IF plan[p][i] = NoRow THEN <<>> ELSE mongo[i]]
    /\ Quit(p)
    /\ UNCHANGED <<store, scripts, edits>>

\* deleteMany of the unmarked documents of IMSIs not listed; the end.
SyncDeletes(p) ==
    /\ kind[p] = "sync"
    /\ todo[p] = {} /\ pending[p] = NoImsi
    /\ mongo' = [i \in Imsi |-> IF plan[p][i] = NoRow
                                THEN Where(mongo[i], IsRoamer)
                                ELSE mongo[i]]
    /\ Quit(p)
    /\ UNCHANGED <<store, scripts, edits>>

-----------------------------------------------------------------------------
(* roaming import and roaming remove.                                       *)

\* The records of an export file another island handed over: IMSI -> policy.
ImportStarts(p) ==
    \E recs \in [Imsi -> PolicyRecord \cup {NoRow}] :
        /\ recs # NoPlan
        /\ Run(p, "import", recs)

\* A conflict: reported at the end, the other records are imported.
ImportRefuses(p, i) ==
    /\ LooksAt(p, "import", i)
    /\ Present(i)
    /\ ~IsRoamer(Existing(i))
    /\ Skip

\* Mutant of ImportFinds: no conflict check.
ImportFindsAnything(p, i) ==
    /\ LooksAt(p, "import", i)
    /\ GoesOnToWrite(p, i)

ImportFinds(p, i) ==
    /\ LooksAt(p, "import", i)
    /\ Present(i) => IsRoamer(Existing(i))
    /\ GoesOnToWrite(p, i)

\* Mutant of ImportWrites: insertOne where replaceOne with upsert belongs.
ImportInserts(p) ==
    /\ kind[p] = "import"
    /\ pending[p] # NoImsi
    /\ Writes(p, Append(mongo[pending[p]], RoamerDocOf(plan[p][pending[p]])))

\* replaceOne with upsert: whatever the first match is by now.
ImportWrites(p) ==
    /\ kind[p] = "import"
    /\ pending[p] # NoImsi
    /\ LET i == pending[p]
           d == RoamerDocOf(plan[p][i])
       IN  Writes(p, IF Present(i) THEN ReplaceFirst(mongo[i], d) ELSE <<d>>)

ImportEnds(p) ==
    /\ kind[p] = "import"
    /\ todo[p] = {} /\ pending[p] = NoImsi
    /\ Quit(p)
    /\ UNCHANGED <<store, mongo, scripts, edits>>

\* deleteOne of a marked document: one call, the whole script.
RoamingRemove(p, i) ==
    /\ kind[p] = "idle"
    /\ Start
    /\ \E k \in DOMAIN mongo[i] :
          /\ IsRoamer(mongo[i][k])
          /\ \A j \in 1..(k - 1) : ~IsRoamer(mongo[i][j])
          /\ mongo' = [mongo EXCEPT ![i] = RemoveAt(@, k)]
    /\ UNCHANGED <<store, procVars, edits>>

-----------------------------------------------------------------------------
(* Everyone else.                                                           *)

\* A sub command changes the local store.
LocalEdit ==
    /\ edits < MaxEdits
    /\ edits' = edits + 1
    /\ Local!Command
    /\ UNCHANGED <<mongo, procVars, scripts>>

\* A UE attaches: Open5GS writes its own keys to the document it finds.
Attach(i) ==
    /\ Present(i)
    /\ ~IsRoamer(Existing(i))
    /\ ~Existing(i).used
    /\ mongo' = [mongo EXCEPT ![i] = ReplaceFirst(@, [Existing(i) EXCEPT !.used = TRUE])]
    /\ UNCHANGED <<store, procVars, scripts, edits>>

\* The script dies: mongo restarts, the shell is closed.
Kill(p) ==
    /\ kind[p] # "idle"
    /\ Quit(p)
    /\ UNCHANGED <<store, mongo, scripts, edits>>

Next ==
    \/ \E p \in Procs :
          \/ SyncStarts(p) \/ SyncWrites(p) \/ SyncDeletes(p)
          \/ ImportStarts(p) \/ ImportWrites(p) \/ ImportEnds(p)
          \/ Kill(p)
          \/ \E i \in Imsi :
                \/ SyncLeaves(p, i) \/ SyncFinds(p, i)
                \/ ImportRefuses(p, i) \/ ImportFinds(p, i)
                \/ RoamingRemove(p, i)
    \/ \E i \in Imsi : Attach(i)
    \/ LocalEdit

Spec == Init /\ [][Next]_vars

-----------------------------------------------------------------------------
(* Properties.                                                              *)

\* Every variable holds a value of its kind.
TypeOK ==
    /\ store \in Rows
    /\ mongo \in [Imsi -> Seq(Doc)]
    /\ kind \in [Procs -> {"idle", "sync", "import"}]
    /\ plan \in [Procs -> Rows \cup [Imsi -> PolicyRecord \cup {NoRow}]]
    /\ todo \in [Procs -> SUBSET Imsi]
    /\ \A p \in Procs : \A i \in todo[p] : plan[p][i] # NoRow
    /\ pending \in [Procs -> Imsi \cup {NoImsi}]
    /\ found \in [Procs -> BOOLEAN]
    /\ scripts \in 0..MaxScripts /\ edits \in 0..MaxEdits

\* A local document has the content of a row of the store.
Says(d, row) == [cred |-> d.cred, mode |-> d.mode] = row

IsLocal(d) == ~IsRoamer(d)

\* "safe for several rigs to db sync the same shared store repeatedly without
\* disturbing each other's live sessions" (sim-tools/README.md:178-180): the
\* document of an attached UE stays while it says what the local store says.
LiveUndisturbed ==
    [][\A i \in Imsi :
          /\ Present(i) /\ IsLocal(Existing(i)) /\ Existing(i).used
          /\ Says(Existing(i), store[i])
          => mongo'[i] # <<>> /\ Existing(i)' = Existing(i)]_vars
=============================================================================
