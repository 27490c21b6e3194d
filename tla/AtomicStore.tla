---------------------------- MODULE AtomicStore ----------------------------
(***************************************************************************)
(* What the `sub` commands of resccom-sim promise about the local          *)
(* subscriber store, with no file, no encryption and no processes: a map   *)
(* from IMSIs to subscribers that every command changes in one step.       *)
(*                                                                         *)
(* The promise has two limits, both of the code (store.py takes no lock    *)
(* and overwrites its file in place):                                      *)
(*   - a command killed while it writes the file destroys the store;       *)
(*   - once a command has written over a file that changed after it read   *)
(*     it (raced), nothing is promised any more.                           *)
(***************************************************************************)

CONSTANTS
    Imsi,       \* the IMSIs subscribers may have
    Cred,       \* key, OPc, AMF, label and notes, as one opaque value
    NoRow,      \* "no subscriber with this IMSI"
    Destroyed   \* the value of a store no passphrase opens any more

\* lbo_roaming_allowed: Local Breakout (true) or Home-Routed (false).
Mode == {"lbo", "hr"}
Row  == [cred : Cred, mode : Mode]
Rows == [Imsi -> Row \cup {NoRow}]

VARIABLES
    store,      \* the subscribers, or Destroyed
    raced       \* a command has written from a stale copy

absVars == <<store, raced>>

Init ==
    /\ store \in Rows
    /\ raced = FALSE

Insert(i, row) ==
    /\ store[i] = NoRow
    /\ store' = [store EXCEPT ![i] = row]

SetMode(i, mode) ==
    /\ store[i] # NoRow
    /\ store' = [store EXCEPT ![i].mode = mode]

Delete(i) ==
    /\ store[i] # NoRow
    /\ store' = [store EXCEPT ![i] = NoRow]

\* One command takes effect, whole.
Command ==
    /\ ~raced
    /\ store # Destroyed
    /\ raced' = raced
    /\ \E i \in Imsi :
          \/ \E row \in Row : Insert(i, row)
          \/ \E mode \in Mode : SetMode(i, mode)
          \/ Delete(i)

\* A command is killed after it emptied the file and before it filled it.
Destroy ==
    /\ store # Destroyed
    /\ store' = Destroyed
    /\ raced' = raced

\* A command writes from a copy that is older than the file.
Race ==
    /\ raced' = TRUE
    /\ store' \in Rows \cup {Destroyed}

Next == Command \/ Destroy \/ Race

Spec == Init /\ [][Next]_absVars
=============================================================================
