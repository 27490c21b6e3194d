------------------------------ MODULE Registry ------------------------------
(***************************************************************************)
(* What `db sync`, `roaming import` and `roaming remove` promise about an  *)
(* island's core database, as long as no two of them overlap: two tables,  *)
(* one of the island's own subscribers and one of guests, no IMSI in both. *)
(*                                                                         *)
(* The own table is brought row by row to what the local store was when    *)
(* the sync began; a sync that gives up leaves it half way. Guests come    *)
(* and go between syncs and never where a local subscriber is, and no sync *)
(* adds, changes or drops one. There are no scripts here, no documents, no *)
(* lookups before writes, and nothing of what Open5GS adds.                *)
(***************************************************************************)

CONSTANTS
    Imsi, Cred, NoRow   \* as in AtomicStore

Mode == {"lbo", "hr"}
Row  == [cred : Cred, mode : Mode]
Rows == [Imsi -> Row \cup {NoRow}]
PolicyRecord == [mode : Mode]

Nobody == [i \in Imsi |-> NoRow]

VARIABLES
    store,      \* the local store
    ours,       \* IMSI -> its row in the core, if it is a local subscriber
    guests,     \* IMSI -> its policy in the core, if it is a roamer
    syncing,    \* a sync is under way
    list,       \* and this is what it started from
    raced       \* two have overlapped: nothing is promised any more

absVars == <<store, ours, guests, syncing, list, raced>>

Init ==
    /\ store \in Rows
    /\ ours = Nobody /\ guests = Nobody
    /\ syncing = FALSE /\ list = Nobody
    /\ raced = FALSE

Begin ==
    /\ ~syncing
    /\ syncing' = TRUE
    /\ list' = store
    /\ UNCHANGED <<store, ours, guests>>

\* A listed subscriber that is missing or different is written.
Put(i) ==
    /\ syncing
    /\ list[i] # NoRow /\ ours[i] # list[i]
    /\ guests[i] = NoRow
    /\ ours' = [ours EXCEPT ![i] = list[i]]
    /\ UNCHANGED <<store, guests, syncing, list>>

\* All that are listed are there, but where a guest stands in the way; the
\* others go.
Finish ==
    /\ syncing
    /\ \A i \in Imsi : list[i] # NoRow /\ guests[i] = NoRow => ours[i] = list[i]
    /\ ours' = [i \in Imsi |-> IF list[i] = NoRow THEN NoRow ELSE ours[i]]
    /\ syncing' = FALSE /\ list' = Nobody
    /\ UNCHANGED <<store, guests>>

GiveUp ==
    /\ syncing
    /\ syncing' = FALSE /\ list' = Nobody
    /\ UNCHANGED <<store, ours, guests>>

Admit(i, policy) ==
    /\ ~syncing
    /\ ours[i] = NoRow
    /\ guests' = [guests EXCEPT ![i] = policy]
    /\ UNCHANGED <<store, ours, syncing, list>>

Dismiss(i) ==
    /\ ~syncing
    /\ guests[i] # NoRow
    /\ guests' = [guests EXCEPT ![i] = NoRow]
    /\ UNCHANGED <<store, ours, syncing, list>>

\* The local store is edited at any time.
Edit ==
    /\ store' \in Rows
    /\ UNCHANGED <<ours, guests, syncing, list>>

Apart ==
    /\ ~raced /\ raced' = raced
    /\ \/ Begin \/ Finish \/ GiveUp \/ Edit
       \/ \E i \in Imsi :
             \/ Put(i) \/ Dismiss(i)
             \/ \E policy \in PolicyRecord : Admit(i, policy)

\* One starts while another is under way.
Race == raced' = TRUE

Next == Apart \/ Race

Spec == Init /\ [][Next]_absVars
=============================================================================
