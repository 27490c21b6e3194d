------------------------------ MODULE Overlaps ------------------------------
(***************************************************************************)
(* What two scripts that run at one time do to each other. CoreSync with   *)
(* two history variables, and what its scripts promise: some of it until   *)
(* two scripts overlap, some of it for every script whose lookup still     *)
(* holds when it writes, however many others run.                          *)
(***************************************************************************)
EXTENDS CoreSync

VARIABLES
    overlapped, \* some script has started while another was running
    beaten      \* process -> another script has written to the IMSI that this
                \* one has looked up and is about to write

ovars == <<vars, overlapped, beaten>>

OInit ==
    /\ Init
    /\ overlapped = FALSE
    /\ beaten = [p \in Procs |-> FALSE]

\* What Open5GS adds when a UE attaches is no script's write.
ScriptChanges(i) == mongo'[i] # mongo[i] /\ ~Attach(i)

ONext ==
    /\ Next
    /\ overlapped' = (overlapped \/ (scripts' # scripts /\ Running # {}))
    /\ beaten' = [p \in Procs |->
                     /\ pending[p] # NoImsi /\ pending'[p] = pending[p]
                     /\ beaten[p] \/ ScriptChanges(pending[p])]

OSpec == OInit /\ [][ONext]_ovars

-----------------------------------------------------------------------------
(* Properties: one script at a time.                                        *)

\* Until two scripts overlap, an IMSI has one document, whichever scripts ran,
\* in whatever order and however often they were killed
\* (sim-tools/README.md:164-166: "no duplicates"): Open5GS and the scripts
\* would read the one and write another.
OnePerImsi == \A i \in Imsi : Len(mongo[i]) <= 1
OneUntilOverlap == ~overlapped => OnePerImsi

Docs(m, P(_)) == [i \in Imsi |-> Where(m[i], P)]

\* Until then a sync that gets to its end has made the collection mirror the
\* list it started from: no local document of any other subscriber, and for
\* each of its own one document with the listed content, unless a roamer's
\* document stands in the way (sync.py:187-195, 206-212).
MirrorAfterSync ==
    [][\A p \in Procs :
          ~overlapped /\ SyncDeletes(p) =>
          \A i \in Imsi :
             LET docs == Docs(mongo', IsLocal)[i] IN
             \/ mongo'[i] # <<>> /\ IsRoamer(Head(mongo'[i]))
             \/ plan[p][i] = NoRow /\ docs = <<>>
             \/ /\ plan[p][i] # NoRow
                /\ Len(docs) = 1 /\ Says(docs[1], plan[p][i])]_vars

\* Until then the collection is the two tables of Registry: every lookup,
\* write and filter is one of its steps or changes nothing, and what Open5GS
\* adds to a document does not show.
HasLocal(i)  == Present(i) /\ IsLocal(Existing(i))
HasRoamer(i) == Present(i) /\ IsRoamer(Existing(i))

oursBar == [i \in Imsi |->
    IF HasLocal(i) THEN [cred |-> Existing(i).cred, mode |-> Existing(i).mode] ELSE NoRow]
guestsBar == [i \in Imsi |->
    IF HasRoamer(i) THEN [mode |-> Existing(i).mode] ELSE NoRow]
syncingBar == \E p \in Procs : kind[p] = "sync"
listBar == IF syncingBar THEN plan[CHOOSE p \in Procs : kind[p] = "sync"] ELSE NoPlan

Collection == INSTANCE Registry
    WITH ours <- oursBar, guests <- guestsBar, syncing <- syncingBar, list <- listBar,
         raced <- overlapped
ImplementsRegistry == Collection!Spec

-----------------------------------------------------------------------------
(* Properties: any number of scripts at a time.                             *)

\* Scripts that overlap can give an IMSI several documents, for findOne and
\* insertOne are two calls, but never more than the scripts that may run at one
\* time, however many run one after the other (sync.py:205-214): whoever looks
\* up an IMSI that has a document inserts none.
DuplicatesBounded == \A i \in Imsi : Len(mongo[i]) <= MaxRunning

\* The steps that p's script takes.
Steps(p) == kind[p] # "idle" /\ <<kind[p], todo[p], pending[p]>>'
                                   # <<kind[p], todo[p], pending[p]>>

\* No db sync changes a document that roaming import put there, even when the
\* roamer's IMSI is in the local store too (sync.py:206-212, 223-230), unless
\* the import got in between the sync's findOne and its write.
SyncSparesRoamers ==
    [][\A p \in Procs : kind[p] = "sync" /\ ~beaten[p] /\ Steps(p) =>
          Docs(mongo', IsRoamer) = Docs(mongo, IsRoamer)]_vars

\* An import never changes a local subscriber's document, whatever other
\* scripts run (roaming.py:185-205), unless one of them wrote the document
\* between the import's own findOne and its replaceOne (roaming.py:173, 182).
\* In that gap it can, so that "an inbound-roamer import can never silently
\* clobber that island's own real subscriber" (sim-tools/README.md:240-241)
\* does not hold without the condition.
ImportSparesLocal ==
    [][\A p \in Procs : kind[p] = "import" /\ ~beaten[p] /\ Steps(p) =>
          Docs(mongo', IsLocal) = Docs(mongo, IsLocal)]_vars

\* A sync never writes to a document whose content is what it lists, so a UE
\* that attached at any moment of the sync keeps its session (sync.py:17-41),
\* unless another script brought the document to that content between the
\* sync's findOne and its write.
OnlyDifferencesWritten ==
    [][\A p \in Procs, i \in Imsi :
          /\ kind[p] = "sync" /\ pending[p] = i /\ ~beaten[p] /\ Steps(p)
          /\ Present(i) /\ IsLocal(Existing(i))
          /\ Says(Existing(i), plan[p][i])
          => mongo'[i] = mongo[i]]_vars
=============================================================================
