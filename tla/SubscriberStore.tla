-------------------------- MODULE SubscriberStore --------------------------
(***************************************************************************)
(* The encrypted local subscriber store of resccom-sim                     *)
(* (sim-tools/resccom_sim/store.py) and the commands that change it        *)
(* (cli.py: sub add, sub add --if-missing, sub edit, sub remove), run by   *)
(* several processes that share the one file: the rigs' verify scripts,    *)
(* `island.sh up`, an operator.                                            *)
(*                                                                         *)
(* Every command decrypts the whole file into a private copy, runs its     *)
(* SQL on the copy and writes the whole copy back. No lock is held, and    *)
(* the write truncates the file before it fills it, so the commands of     *)
(* two processes interleave at three points: the read, the truncation and  *)
(* the write. What a process does to its private copy is invisible to the  *)
(* others and belongs to the step that read the file. Encrypted copies     *)
(* differ in length: one written over a longer one leaves its tail behind, *)
(* and no passphrase opens that mixture.                                   *)
(***************************************************************************)
EXTENDS Naturals

CONSTANTS
    Procs,          \* processes running resccom-sim on this store
    Imsi,           \* IMSIs, as the number after the test PLMN prefix
    Cred,           \* key, OPc, AMF, label, notes: what two rows may differ in
    NoRow,          \* "no subscriber with this IMSI"
    Destroyed,      \* the refinement's name for a store nobody can open
    MaxCommands     \* bound: commands started in one behaviour

Mode      == {"lbo", "hr"}
Row       == [cred : Cred, mode : Mode]
\* A row written before the lbo_roaming_allowed column existed has no mode.
StoredRow == [cred : Cred, mode : Mode \cup {"unset"}]
Rows      == [Imsi -> Row \cup {NoRow}]

ASSUME StoreAssumption ==
    /\ Imsi \subseteq Nat
    /\ NoRow \notin StoredRow
    /\ Destroyed \notin Rows
    /\ MaxCommands \in Nat

VARIABLES
    st,         \* the file: "absent", "sealed" (decrypts), "empty" (truncated)
                \* or "garbled" (part of a copy, or a mixture of two)
    rows,       \* what a sealed file decrypts to
    pc,         \* where each process is in its command
    cmd,        \* the command each process runs
    snap,       \* each process's private copy, its SQL already applied
    \* History, read by no action of the code:
    stale,      \* the file changed since this process read it
    raced,      \* some process has written from a stale copy
    overlapped, \* some process has truncated while another was about to write
    killed,     \* some process died between truncation and write
    owed,       \* IMSIs reported added or present, and not reported removed
    started     \* commands started so far

fileVars == <<st, rows>>
histVars == <<stale, raced, overlapped, killed, owed>>
vars == <<st, rows, pc, cmd, snap,
          stale, raced, overlapped, killed, owed, started>>

Ops     == {"add", "ensure", "edit", "remove"}
Command == [op : Ops, imsi : Imsi, row : Row]
NoCmd   == [op |-> "none"]

NoRows == [i \in Imsi |-> NoRow]

\* decrypt (crypto.py) refuses the file: too short, or its tag does not fit.
Torn == st \in {"empty", "garbled"}

-----------------------------------------------------------------------------
(* The SQL each command runs on its private copy.                           *)

\* Mutant of Migrate: the private copy keeps the old schema.
MigrateNot(db) == db

\* Opening an old store adds the missing column with default 1: Local Breakout.
Migrate(db) ==
    [i \in Imsi |->
        IF db[i] # NoRow /\ db[i].mode = "unset"
        THEN [db[i] EXCEPT !.mode = "lbo"]
        ELSE db[i]]

\* Mutant of Refused: INSERT OR IGNORE, a plain add of an existing IMSI passes.
RefusedOnConflictOnly(c, db) ==
    db[c.imsi] # NoRow /\ c.op = "ensure" /\ db[c.imsi] # c.row

\* SubscriberExistsError and SubscriberConflictError: raised inside the
\* transaction, before the file is written.
Refused(c, db) ==
    /\ db[c.imsi] # NoRow
    /\ \/ c.op = "add"
       \/ c.op = "ensure" /\ db[c.imsi] # c.row

\* Mutants of Result: a DELETE without its WHERE; an edit that writes the
\* whole row it was given.
ResultRemovesAll(c, db) ==
    IF c.op = "remove" THEN NoRows
    ELSE IF db[c.imsi] = NoRow
         THEN IF c.op = "edit" THEN db ELSE [db EXCEPT ![c.imsi] = c.row]
         ELSE IF c.op = "edit" THEN [db EXCEPT ![c.imsi].mode = c.row.mode] ELSE db

ResultEditsWholeRow(c, db) ==
    IF c.op = "remove" THEN [db EXCEPT ![c.imsi] = NoRow]
    ELSE IF c.op = "edit" \/ db[c.imsi] = NoRow
         THEN [db EXCEPT ![c.imsi] = c.row] ELSE db

\* A command with nothing to change still rewrites the file (mutate=True).
Result(c, db) ==
    CASE c.op \in {"add", "ensure"} ->
            IF db[c.imsi] = NoRow THEN [db EXCEPT ![c.imsi] = c.row] ELSE db
      [] c.op = "edit" ->
            IF db[c.imsi] = NoRow THEN db
            ELSE [db EXCEPT ![c.imsi].mode = c.row.mode]
      [] c.op = "remove" -> [db EXCEPT ![c.imsi] = NoRow]

\* generate_test_imsi: the lowest number no row has.
IsNextFree(i, db) ==
    /\ db[i] = NoRow
    /\ \A j \in Imsi : j < i => db[j] # NoRow

-----------------------------------------------------------------------------
Init ==
    /\ \/ st = "absent" /\ rows = NoRows
       \/ /\ st = "sealed"    \* left by an earlier release of the tool
          /\ rows \in [Imsi -> [cred : Cred, mode : {"unset"}] \cup {NoRow}]
    /\ pc = [p \in Procs |-> "idle"]
    /\ cmd = [p \in Procs |-> NoCmd]
    /\ snap = [p \in Procs |-> NoRows]
    /\ stale = [p \in Procs |-> FALSE]
    /\ raced = FALSE
    /\ overlapped = FALSE
    /\ killed = FALSE
    /\ owed = {}
    /\ started = 0

\* The process's command is over: its private copy is deleted.
Leave(p) ==
    /\ pc' = [pc EXCEPT ![p] = "idle"]
    /\ cmd' = [cmd EXCEPT ![p] = NoCmd]
    /\ snap' = [snap EXCEPT ![p] = NoRows]

\* The file changes under every other process that has already read it.
MakeOthersStale(p) ==
    stale' = [q \in Procs |-> q # p /\ (stale[q] \/ pc[q] = "write")]

\* `sub add --test` without --imsi reads the store once to choose an IMSI.
\* On a torn file it fails at once, which changes nothing.
Pick(p, op, row) ==
    /\ pc[p] = "idle"
    /\ started < MaxCommands
    /\ op \in {"add", "ensure"}
    /\ ~Torn
    /\ \E i \in Imsi :
          /\ IsNextFree(i, rows)
          /\ cmd' = [cmd EXCEPT ![p] = [op |-> op, imsi |-> i, row |-> row]]
    /\ pc' = [pc EXCEPT ![p] = "picked"]
    /\ started' = started + 1
    /\ UNCHANGED <<fileVars, histVars, snap>>

\* Mutant of Load: a file that does not decrypt counts as a missing one.
LoadTornAsEmpty(p, c) ==
    /\ pc[p] = "idle"
    /\ started < MaxCommands
    /\ started' = started + 1
    /\ ~Refused(c, Migrate(rows))
    /\ snap' = [snap EXCEPT ![p] = Result(c, Migrate(rows))]
    /\ cmd' = [cmd EXCEPT ![p] = c]
    /\ pc' = [pc EXCEPT ![p] = "write"]
    /\ UNCHANGED <<fileVars, histVars>>

\* _with_db up to the commit of the private copy, for a command that goes on.
Load(p, c) ==
    /\ \/ /\ pc[p] = "idle"
          /\ started < MaxCommands
          /\ started' = started + 1
       \/ /\ pc[p] = "picked"
          /\ c = cmd[p]
          /\ started' = started
    /\ ~Torn
    /\ ~Refused(c, Migrate(rows))
    /\ snap' = [snap EXCEPT ![p] = Result(c, Migrate(rows))]
    /\ cmd' = [cmd EXCEPT ![p] = c]
    /\ pc' = [pc EXCEPT ![p] = "write"]
    /\ UNCHANGED <<fileVars, histVars>>

\* Mutant of LoadFails: the file is opened for writing before the row is
\* refused.
LoadFailsAfterTruncating(p) ==
    /\ pc[p] = "picked"
    /\ Torn \/ Refused(cmd[p], Migrate(rows))
    /\ st' = "empty"
    /\ rows' = NoRows
    /\ Leave(p)
    /\ UNCHANGED <<histVars, started>>

\* The same for a command that ends here: the file does not decrypt, or the
\* row is refused. (From "idle" such a command changes nothing at all.)
LoadFails(p) ==
    /\ pc[p] = "picked"
    /\ Torn \/ Refused(cmd[p], Migrate(rows))
    /\ Leave(p)
    /\ UNCHANGED <<fileVars, histVars, started>>

\* Path.write_bytes opens the file for writing: it is empty now.
Truncate(p) ==
    /\ pc[p] = "write"
    /\ st' = "empty"
    /\ rows' = NoRows
    /\ pc' = [pc EXCEPT ![p] = "seal"]
    /\ raced' = (raced \/ stale[p])
    /\ overlapped' = (overlapped \/ \E q \in Procs : pc[q] = "seal")
    /\ MakeOthersStale(p)
    /\ UNCHANGED <<cmd, snap, killed, owed, started>>

\* ... and writes the encrypted copy from the start of the file. Where another
\* command wrote since the truncation, the longer of the two copies keeps its
\* tail. The command reports what it did, whatever is in the file then.
Seal(p) ==
    /\ pc[p] = "seal"
    /\ \/ st' = "sealed" /\ rows' = snap[p]
       \/ st # "empty" /\ st' = "garbled" /\ rows' = NoRows
    /\ owed' = IF snap[p][cmd[p].imsi] = NoRow
               THEN owed \ {cmd[p].imsi}
               ELSE owed \cup {cmd[p].imsi}
    /\ Leave(p)
    /\ MakeOthersStale(p)
    /\ UNCHANGED <<raced, overlapped, killed, started>>

\* Ctrl-C, a killed script, a power cut: the file stays as it is, or has got
\* part of the copy.
Crash(p) ==
    /\ pc[p] # "idle"
    /\ \/ UNCHANGED fileVars /\ stale' = [stale EXCEPT ![p] = FALSE]
       \/ /\ pc[p] = "seal"
          /\ st' = "garbled" /\ rows' = NoRows
          /\ MakeOthersStale(p)
    /\ killed' = (killed \/ pc[p] = "seal")
    /\ Leave(p)
    /\ UNCHANGED <<raced, overlapped, owed, started>>

Next ==
    \E p \in Procs :
        \/ \E op \in Ops, row \in Row : Pick(p, op, row)
        \/ \E c \in Command : Load(p, c)
        \/ LoadFails(p)
        \/ Truncate(p)
        \/ Seal(p)
        \/ Crash(p)

Spec == Init /\ [][Next]_vars

-----------------------------------------------------------------------------
(* Properties.                                                              *)

\* Every variable holds a value of its kind; a private copy is always of the
\* current schema, never an old row without its roaming mode.
TypeOK ==
    /\ st \in {"absent", "sealed", "empty", "garbled"}
    /\ rows \in [Imsi -> StoredRow \cup {NoRow}]
    /\ pc \in [Procs -> {"idle", "picked", "write", "seal"}]
    /\ cmd \in [Procs -> Command \cup {NoCmd}]
    /\ \A p \in Procs : pc[p] # "idle" => cmd[p] \in Command
    /\ snap \in [Procs -> Rows]
    /\ stale \in [Procs -> BOOLEAN]
    /\ {raced, overlapped, killed} \subseteq BOOLEAN
    /\ owed \subseteq Imsi
    /\ started \in 0..MaxCommands

\* The file is unreadable only while a command is between the truncation and
\* the write, because one was killed there, or because two were there at once
\* and the shorter copy was written last: no refused command, no write from a
\* stale copy that came after the other one, and no later command that finds
\* the file unreadable makes it so (store.py:67-99).
TornForCause ==
    Torn => killed \/ overlapped \/ \E p \in Procs : pc[p] = "seal"

\* Until some command writes from a stale copy, every subscriber a command
\* last reported as added or present is in the file (store.py:125-127).
ReportedIsStored ==
    ~raced /\ st = "sealed" => \A i \in owed : rows[i] # NoRow

\* The same with no such limit: what store.py:125-127 and the README say of
\* rigs that share one store, "the store becomes the union of every rig's
\* test subscribers".
UnionOfRigs ==
    st = "sealed" => \A i \in owed : rows[i] # NoRow

\* Until then too, a plain `sub add` that succeeds names an IMSI that nobody
\* was told is in the store: two rigs never get the same test IMSI
\* (store.py:101-116, model.py:52-59).
AddedIsNew ==
    [][\A p \in Procs :
          /\ ~raced
          /\ pc[p] = "seal" /\ cmd[p].op = "add"
          /\ st = "empty" /\ st' = "sealed"
          => cmd[p].imsi \notin owed]_vars

\* The store as the next command will find it once the write under way ends.
storeBar ==
    IF ~Torn THEN Migrate(rows)
    ELSE IF \E p \in Procs : pc[p] = "seal"
         THEN snap[CHOOSE p \in Procs : pc[p] = "seal"]
         ELSE Destroyed

\* A subscriber's credentials and label never change while it is there, not
\* even by add --if-missing with other ones (store.py:121-124): only removing
\* the subscriber makes room for others.
NeverOverwritten ==
    [][\A i \in Imsi :
          /\ ~raced'
          /\ storeBar # Destroyed /\ storeBar' # Destroyed
          /\ storeBar[i] # NoRow /\ storeBar'[i] # NoRow
          => storeBar'[i].cred = storeBar[i].cred]_vars

\* The file and its whole-file rewrites implement the atomic map, up to the
\* two limits AtomicStore states.
Atomic == INSTANCE AtomicStore WITH store <- storeBar
ImplementsAtomicStore == Atomic!Spec
=============================================================================
