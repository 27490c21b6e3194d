----------------------- MODULE SubscriberStoreProofs -----------------------
(***************************************************************************)
(* For any number of processes, IMSIs, credentials and commands: the store *)
(* is typed, an unreadable file is explained by a write under way, a       *)
(* killed command or two writes that overlapped, what was reported is      *)
(* stored until a stale write, and the file implements the atomic map.     *)
(*                                                                         *)
(* The argument rests on StoreInv: two writes overlap only after a stale   *)
(* one; until they do, at most one process is between truncation and       *)
(* write, and the file is empty then; and until a stale write, a private   *)
(* copy that is not stale was made from exactly the rows the file holds    *)
(* now.                                                                    *)
(***************************************************************************)
EXTENDS SubscriberStore, TLAPS

Sealing(p) == pc[p] = "seal"

\* A process inside the write window is alone there, and the file is empty.
OneWriter ==
    ~overlapped => \A p \in Procs : Sealing(p) =>
                      /\ st = "empty"
                      /\ \A q \in Procs : Sealing(q) => q = p

\* Whoever truncates under another's write read the file before that one did.
OverlapIsRace == overlapped => raced

\* A private copy that is not stale is the command applied to the file.
FreshCopy ==
    ~raced => \A p \in Procs : pc[p] = "write" /\ ~stale[p] =>
                 /\ ~Torn
                 /\ ~Refused(cmd[p], Migrate(rows))
                 /\ snap[p] = Result(cmd[p], Migrate(rows))

\* What was reported is in the file, or in the copy about to replace it.
Kept ==
    ~raced => \A i \in owed :
                 /\ ~Torn => rows[i] # NoRow
                 /\ \A p \in Procs : Sealing(p) =>
                       cmd[p].imsi = i \/ snap[p][i] # NoRow

\* A plain add about to be written names an IMSI nobody was told is stored.
NewAdd ==
    ~raced => \A p \in Procs : Sealing(p) /\ cmd[p].op = "add" =>
                 cmd[p].imsi \notin owed

StoreInv ==
    OneWriter /\ OverlapIsRace /\ FreshCopy /\ Kept /\ NewAdd /\ TornForCause

-----------------------------------------------------------------------------
(* What the SQL returns.                                                    *)

\* Opening a store of any age yields rows of the current schema, and the same
\* subscribers.
LEMMA MigrateRows ==
    ASSUME NEW db \in [Imsi -> StoredRow \cup {NoRow}]
    PROVE  /\ Migrate(db) \in Rows
           /\ \A i \in Imsi : Migrate(db)[i] = NoRow <=> db[i] = NoRow
  BY StoreAssumption DEF Migrate, Rows, Row, StoredRow, Mode

\* A store of the current schema is not changed by being opened.
LEMMA MigrateIdentity ==
    ASSUME NEW db \in Rows
    PROVE  Migrate(db) = db
  <1>1. \A i \in Imsi : ~(db[i] # NoRow /\ db[i].mode = "unset")
    BY DEF Rows, Row, Mode
  <1>2. Migrate(db) = [i \in Imsi |-> db[i]]
    BY <1>1 DEF Migrate
  <1>3. QED
    BY <1>2 DEF Rows

\* A command maps rows to rows and touches no IMSI but its own.
LEMMA ResultRows ==
    ASSUME NEW c \in Command, NEW db \in Rows
    PROVE  /\ Result(c, db) \in Rows
           /\ \A i \in Imsi : i # c.imsi => Result(c, db)[i] = db[i]
  <1>1. c.op \in Ops /\ c.imsi \in Imsi /\ c.row \in Row
    BY DEF Command
  <1>2. CASE c.op \in {"add", "ensure"}
    <2>1. Result(c, db) = IF db[c.imsi] = NoRow
                          THEN [db EXCEPT ![c.imsi] = c.row] ELSE db
      BY <1>2 DEF Result
    <2>2. QED
      BY <2>1, <1>1 DEF Rows
  <1>3. CASE c.op = "edit"
    <2>1. Result(c, db) = IF db[c.imsi] = NoRow THEN db
                          ELSE [db EXCEPT ![c.imsi].mode = c.row.mode]
      BY <1>3 DEF Result
    <2>2. ASSUME db[c.imsi] # NoRow
          PROVE  [db[c.imsi] EXCEPT !.mode = c.row.mode] \in Row
      BY <2>2, <1>1 DEF Rows, Row
    <2>3. QED
      BY <2>1, <2>2, <1>1 DEF Rows
  <1>4. CASE c.op = "remove"
    <2>1. Result(c, db) = [db EXCEPT ![c.imsi] = NoRow]
      BY <1>4 DEF Result
    <2>2. QED
      BY <2>1, <1>1 DEF Rows
  <1>5. QED
    BY <1>1, <1>2, <1>3, <1>4 DEF Ops

-----------------------------------------------------------------------------
(* Types.                                                                   *)

LEMMA NoRowsTyped == NoRows \in Rows
  BY DEF NoRows, Rows

LEMMA RowsAreStored == Rows \subseteq [Imsi -> StoredRow \cup {NoRow}]
  BY DEF Rows, Row, StoredRow

LEMMA InitTypes == Init => TypeOK
  <1> SUFFICES ASSUME Init PROVE TypeOK
    OBVIOUS
  <1>1. rows \in [Imsi -> StoredRow \cup {NoRow}]
    <2>1. CASE rows = NoRows
      BY <2>1, NoRowsTyped, RowsAreStored
    <2>2. CASE rows \in [Imsi -> [cred : Cred, mode : {"unset"}] \cup {NoRow}]
      BY <2>2 DEF StoredRow
    <2>3. QED
      BY <2>1, <2>2 DEF Init
  <1>2. snap \in [Procs -> Rows]
    BY NoRowsTyped DEF Init
  <1>3. started \in 0..MaxCommands
    BY StoreAssumption DEF Init
  <1>4. /\ st \in {"absent", "sealed", "empty", "garbled"}
        /\ pc \in [Procs -> {"idle", "picked", "write", "seal"}]
        /\ cmd \in [Procs -> Command \cup {NoCmd}]
        /\ \A p \in Procs : pc[p] # "idle" => cmd[p] \in Command
    BY DEF Init
  <1>5. /\ stale \in [Procs -> BOOLEAN]
        /\ {raced, overlapped, killed} \subseteq BOOLEAN
        /\ owed \subseteq Imsi
    BY DEF Init
  <1>6. QED
    BY <1>1, <1>2, <1>3, <1>4, <1>5 DEF TypeOK

LEMMA NextTypes == TypeOK /\ [Next]_vars => TypeOK'
  <1> SUFFICES ASSUME TypeOK, [Next]_vars PROVE TypeOK'
    OBVIOUS
  <1>1. ASSUME NEW p \in Procs, NEW op \in Ops, NEW row \in Row, Pick(p, op, row)
        PROVE  TypeOK'
    <2>1. PICK i \in Imsi :
             cmd' = [cmd EXCEPT ![p] = [op |-> op, imsi |-> i, row |-> row]]
      BY <1>1 DEF Pick
    <2>2. [op |-> op, imsi |-> i, row |-> row] \in Command
      BY DEF Command
    <2>3. started' \in 0..MaxCommands
      BY <1>1, StoreAssumption DEF Pick, TypeOK
    <2>4. cmd' \in [Procs -> Command \cup {NoCmd}]
      BY <2>1, <2>2 DEF TypeOK
    <2>5. \A q \in Procs : pc'[q] # "idle" => cmd'[q] \in Command
      BY <1>1, <2>1, <2>2 DEF Pick, TypeOK
    <2>6. QED
      BY <1>1, <2>3, <2>4, <2>5 DEF Pick, TypeOK, fileVars, histVars
  <1>2. ASSUME NEW p \in Procs, NEW c \in Command, Load(p, c)
        PROVE  TypeOK'
    <2>1. started' \in 0..MaxCommands
      BY <1>2, StoreAssumption DEF Load, TypeOK
    <2>2. Result(c, Migrate(rows)) \in Rows
      BY MigrateRows, ResultRows DEF TypeOK
    <2>3. QED
      BY <1>2, <2>1, <2>2 DEF Load, TypeOK, fileVars, histVars
  <1>3. ASSUME NEW p \in Procs, LoadFails(p)
        PROVE  TypeOK'
    BY <1>3, NoRowsTyped DEF LoadFails, Leave, TypeOK, fileVars, histVars
  <1>4. ASSUME NEW p \in Procs, Truncate(p)
        PROVE  TypeOK'
    <2>1. rows' \in [Imsi -> StoredRow \cup {NoRow}]
      BY <1>4, NoRowsTyped, RowsAreStored DEF Truncate
    <2>2. stale' \in [Procs -> BOOLEAN] /\ raced' \in BOOLEAN
      BY <1>4 DEF Truncate, MakeOthersStale, TypeOK
    <2>3. QED
      BY <1>4, <2>1, <2>2 DEF Truncate, TypeOK
  <1>5. ASSUME NEW p \in Procs, Seal(p)
        PROVE  TypeOK'
    <2>1. rows' \in [Imsi -> StoredRow \cup {NoRow}]
      BY <1>5, NoRowsTyped, RowsAreStored DEF Seal, TypeOK
    <2>2. stale' \in [Procs -> BOOLEAN]
      BY <1>5 DEF Seal, MakeOthersStale, TypeOK
    <2>3. cmd[p].imsi \in Imsi
      BY <1>5 DEF Seal, TypeOK, Command
    <2>4. owed' \subseteq Imsi
      BY <1>5, <2>3 DEF Seal, TypeOK
    <2>5. QED
      BY <1>5, <2>1, <2>2, <2>4, NoRowsTyped DEF Seal, Leave, TypeOK
  <1>6. ASSUME NEW p \in Procs, Crash(p)
        PROVE  TypeOK'
    <2>1. rows' \in [Imsi -> StoredRow \cup {NoRow}]
      BY <1>6, NoRowsTyped, RowsAreStored DEF Crash, fileVars, TypeOK
    <2>2. stale' \in [Procs -> BOOLEAN]
      BY <1>6 DEF Crash, MakeOthersStale, TypeOK
    <2>3. QED
      BY <1>6, <2>1, <2>2, NoRowsTyped DEF Crash, Leave, TypeOK, fileVars
  <1>7. CASE UNCHANGED vars
    BY <1>7 DEF vars, TypeOK
  <1>8. QED
    BY <1>1, <1>2, <1>3, <1>4, <1>5, <1>6, <1>7 DEF Next

\* Every variable keeps a value of its kind, and a private copy is never of
\* the old schema (store.py:78-88), for any number of processes and rows.
THEOREM StoreTypes == Spec => []TypeOK
  BY InitTypes, NextTypes, PTL DEF Spec

-----------------------------------------------------------------------------
(* The invariant behind the safety properties.                              *)

LEMMA InitInv == Init => StoreInv
  BY DEF Init, StoreInv, OneWriter, OverlapIsRace, FreshCopy, Kept, NewAdd,
         TornForCause, Torn, Sealing

\* While the file stays, FreshCopy may be read with its old rows.
LEMMA FreshWhileFileStays ==
    ASSUME UNCHANGED <<st, rows>>,
           ~raced' => \A q \in Procs : pc'[q] = "write" /\ ~stale'[q] =>
              /\ ~Torn
              /\ ~Refused(cmd'[q], Migrate(rows))
              /\ snap'[q] = Result(cmd'[q], Migrate(rows))
    PROVE  FreshCopy'
  <1>1. Migrate(rows)' = Migrate(rows)
    BY DEF Migrate
  <1>2. QED
    BY <1>1 DEF FreshCopy, Refused, Result, Torn

\* Reading the store, or giving up, disturbs neither the file nor the writer.
LEMMA ReadersKeepInv ==
    ASSUME TypeOK, StoreInv, NEW p \in Procs,
           UNCHANGED <<st, rows, raced, overlapped, killed, owed>>,
           pc[p] # "seal", pc'[p] # "seal",
           \A q \in Procs : q # p =>
              /\ pc'[q] = pc[q] /\ cmd'[q] = cmd[q]
              /\ snap'[q] = snap[q] /\ stale'[q] = stale[q],
           pc'[p] = "write" =>
              /\ ~Torn
              /\ ~Refused(cmd'[p], Migrate(rows))
              /\ snap'[p] = Result(cmd'[p], Migrate(rows))
    PROVE  StoreInv'
  <1>1. \A q \in Procs : Sealing(q)' <=> Sealing(q)
    BY DEF Sealing
  <1>2. OneWriter' /\ OverlapIsRace' /\ (Torn' <=> Torn)
    BY <1>1 DEF StoreInv, OneWriter, OverlapIsRace, Torn
  <1>3. FreshCopy'
    <2>1. SUFFICES ASSUME ~raced', NEW q \in Procs,
                          pc'[q] = "write" /\ ~stale'[q]
                   PROVE  /\ ~Torn
                          /\ ~Refused(cmd'[q], Migrate(rows))
                          /\ snap'[q] = Result(cmd'[q], Migrate(rows))
      BY FreshWhileFileStays
    <2>2. CASE q = p
      BY <2>1, <2>2
    <2>3. CASE q # p
      BY <2>1, <2>3 DEF StoreInv, FreshCopy
    <2>4. QED
      BY <2>2, <2>3
  <1>4. Kept' /\ NewAdd'
    BY <1>1, <1>2 DEF StoreInv, Kept, NewAdd, Sealing
  <1>5. TornForCause'
    BY <1>1, <1>2 DEF StoreInv, TornForCause, Sealing
  <1>6. QED
    BY <1>2, <1>3, <1>4, <1>5 DEF StoreInv

LEMMA NextInv == TypeOK /\ StoreInv /\ [Next]_vars => StoreInv'
  <1> SUFFICES ASSUME TypeOK, StoreInv, [Next]_vars PROVE StoreInv'
    OBVIOUS
  <1>1. ASSUME NEW p \in Procs, NEW op \in Ops, NEW row \in Row, Pick(p, op, row)
        PROVE  StoreInv'
    BY <1>1, ReadersKeepInv DEF Pick, TypeOK, fileVars, histVars
  <1>2. ASSUME NEW p \in Procs, NEW c \in Command, Load(p, c)
        PROVE  StoreInv'
    <2>1. cmd'[p] = c /\ snap'[p] = Result(c, Migrate(rows))
      BY <1>2 DEF Load, TypeOK
    <2>2. QED
      BY <1>2, <2>1, ReadersKeepInv DEF Load, TypeOK, fileVars, histVars
  <1>3. ASSUME NEW p \in Procs, LoadFails(p)
        PROVE  StoreInv'
    BY <1>3, ReadersKeepInv DEF LoadFails, Leave, TypeOK, fileVars, histVars
  <1>4. ASSUME NEW p \in Procs, Truncate(p)
        PROVE  StoreInv'
    <2> USE <1>4 DEF Truncate
    <2>1. /\ Sealing(p)' /\ st' = "empty" /\ Torn'
          /\ \A q \in Procs : q # p => (Sealing(q)' <=> Sealing(q))
      BY DEF Sealing, TypeOK, Torn
    <2>2. ASSUME ~raced'
          PROVE  /\ ~Torn
                 /\ ~Refused(cmd[p], Migrate(rows))
                 /\ snap[p] = Result(cmd[p], Migrate(rows))
                 /\ \A q \in Procs : ~Sealing(q)
      BY <2>2 DEF StoreInv, FreshCopy, OneWriter, OverlapIsRace, Sealing, Torn
    <2>3. OneWriter' /\ OverlapIsRace'
      <3>1. OverlapIsRace'
        BY <2>2 DEF StoreInv, OverlapIsRace, Sealing
      <3>2. ~overlapped' => ~overlapped /\ \A q \in Procs : ~Sealing(q)
        BY DEF Sealing
      <3>3. QED
        BY <2>1, <3>1, <3>2 DEF OneWriter
    <2>4. FreshCopy'
      BY DEF FreshCopy, MakeOthersStale, TypeOK
    <2>5. Kept'
      <3>1. SUFFICES ASSUME ~raced', NEW i \in owed
                     PROVE  cmd[p].imsi = i \/ snap[p][i] # NoRow
        BY <2>1, <2>2 DEF Kept
      <3>2. cmd[p] \in Command /\ Migrate(rows) \in Rows /\ i \in Imsi
        BY MigrateRows DEF TypeOK
      <3>3. Migrate(rows)[i] # NoRow
        BY <2>2, <3>1, <3>2, MigrateRows DEF StoreInv, Kept, TypeOK
      <3>4. QED
        BY <2>2, <3>1, <3>2, <3>3, ResultRows
    <2>6. NewAdd'
      <3>1. SUFFICES ASSUME ~raced', cmd[p].op = "add"
                     PROVE  cmd[p].imsi \notin owed
        BY <2>1, <2>2 DEF NewAdd
      <3>2. cmd[p].imsi \in Imsi
        BY DEF TypeOK, Command
      <3>3. rows[cmd[p].imsi] = NoRow
        BY <2>2, <3>1, <3>2, MigrateRows DEF Refused, TypeOK
      <3>4. QED
        BY <2>2, <3>1, <3>3 DEF StoreInv, Kept
    <2>7. TornForCause'
      BY <2>1 DEF TornForCause, Sealing
    <2>8. QED
      BY <2>3, <2>4, <2>5, <2>6, <2>7 DEF StoreInv
  <1>5. ASSUME NEW p \in Procs, Seal(p)
        PROVE  StoreInv'
    <2> USE <1>5 DEF Seal, Leave
    <2>1. ~Sealing(p)' /\ \A q \in Procs : q # p => (Sealing(q)' <=> Sealing(q))
      BY DEF Sealing, TypeOK
    <2>2. ASSUME ~raced
          PROVE  /\ \A q \in Procs : ~Sealing(q)'
                 /\ rows' = snap[p] /\ ~Torn'
      BY <2>1, <2>2 DEF StoreInv, OneWriter, OverlapIsRace, Sealing, Torn
    <2>3. OneWriter' /\ OverlapIsRace' /\ NewAdd'
      <3>1. OneWriter'
        BY <2>1 DEF StoreInv, OneWriter, Sealing
      <3>2. QED
        BY <2>2, <3>1 DEF StoreInv, OverlapIsRace, NewAdd
    <2>4. FreshCopy'
      BY DEF FreshCopy, MakeOthersStale, TypeOK
    <2>5. Kept'
      <3>1. SUFFICES ASSUME ~raced, NEW i \in owed'
                     PROVE  snap[p][i] # NoRow
        BY <2>2 DEF Kept
      <3>2. CASE i = cmd[p].imsi
        BY <3>1, <3>2
      <3>3. CASE i # cmd[p].imsi
        BY <3>1, <3>3 DEF StoreInv, Kept, Sealing
      <3>4. QED
        BY <3>2, <3>3
    <2>6. TornForCause'
      <3>1. ~overlapped => ~Torn'
        BY DEF StoreInv, OneWriter, Sealing, Torn
      <3>2. QED
        BY <3>1 DEF TornForCause
    <2>7. QED
      BY <2>3, <2>4, <2>5, <2>6 DEF StoreInv
  <1>6. ASSUME NEW p \in Procs, Crash(p)
        PROVE  StoreInv'
    <2> USE <1>6 DEF Crash, Leave, fileVars
    <2>1. ~Sealing(p)' /\ \A q \in Procs : q # p => (Sealing(q)' <=> Sealing(q))
      BY DEF Sealing, TypeOK
    <2>2. CASE ~Sealing(p)
      <3>1. UNCHANGED <<st, rows>> /\ stale' = [stale EXCEPT ![p] = FALSE]
        BY <2>2 DEF Sealing
      <3>2. OneWriter' /\ OverlapIsRace' /\ NewAdd'
        BY <2>1, <3>1 DEF StoreInv, OneWriter, OverlapIsRace, NewAdd, TypeOK
      <3>3. FreshCopy'
        <4>1. SUFFICES ASSUME ~raced, NEW q \in Procs, pc'[q] = "write",
                              ~stale'[q]
                       PROVE  /\ ~Torn
                              /\ ~Refused(cmd'[q], Migrate(rows))
                              /\ snap'[q] = Result(cmd'[q], Migrate(rows))
          BY <3>1, FreshWhileFileStays
        <4>2. q # p /\ pc[q] = "write" /\ ~stale[q]
          BY <3>1, <4>1 DEF TypeOK
        <4>3. QED
          BY <4>1, <4>2 DEF StoreInv, FreshCopy, TypeOK
      <3>4. Torn' <=> Torn
        BY <3>1 DEF Torn
      <3>5. Kept'
        BY <2>1, <3>1, <3>4 DEF StoreInv, Kept, TypeOK
      <3>6. TornForCause'
        BY <2>1, <2>2, <3>4 DEF StoreInv, TornForCause, Sealing
      <3>7. QED
        BY <3>2, <3>3, <3>5, <3>6 DEF StoreInv
    <2>3. CASE Sealing(p)
      \* Killed in its own write: the file is unreadable, and nobody writes.
      <3>1. killed'
        BY <2>3 DEF Sealing
      <3>2. ~overlapped => Torn' /\ \A q \in Procs : ~Sealing(q)'
        BY <2>1, <2>3 DEF StoreInv, OneWriter, Sealing, Torn
      <3>3. OneWriter' /\ OverlapIsRace' /\ NewAdd' /\ TornForCause' /\ Kept'
        BY <3>1, <3>2 DEF StoreInv, OneWriter, OverlapIsRace, NewAdd,
                          TornForCause, Kept
      <3>4. FreshCopy'
        <4>1. ASSUME ~raced, NEW q \in Procs, pc'[q] = "write" PROVE stale'[q]
          <5>1. st = "empty" /\ q # p /\ pc[q] = "write"
            BY <2>3, <4>1 DEF StoreInv, OneWriter, OverlapIsRace, Sealing, TypeOK
          <5>2. stale[q]
            BY <4>1, <5>1 DEF StoreInv, FreshCopy, Torn
          <5>3. QED
            BY <4>1, <5>1, <5>2 DEF MakeOthersStale, TypeOK
        <4>2. QED
          BY <4>1 DEF FreshCopy
      <3>5. QED
        BY <3>3, <3>4 DEF StoreInv
    <2>4. QED
      BY <2>2, <2>3
  <1>7. CASE UNCHANGED vars
    <2>1. FreshCopy'
      BY <1>7, FreshWhileFileStays DEF vars, StoreInv, FreshCopy
    <2>2. QED
      BY <1>7, <2>1 DEF vars, StoreInv, OneWriter, OverlapIsRace, Kept, NewAdd,
                        TornForCause, Torn, Sealing
  <1>8. QED
    BY <1>1, <1>2, <1>3, <1>4, <1>5, <1>6, <1>7 DEF Next

THEOREM StoreInvariant == Spec => []StoreInv
  BY InitInv, NextInv, StoreTypes, PTL DEF Spec

\* The store is unreadable only while a command writes it, because one was
\* killed there, or because two truncated it before either had written
\* (store.py:67-99): two commands whose writes follow each other leave it
\* readable, stale or not, and so does every refused one.
THEOREM StoreTornForCause == Spec => []TornForCause
  <1>1. StoreInv => TornForCause
    BY DEF StoreInv
  <1>2. QED
    BY <1>1, StoreInvariant, PTL

\* Until a stale write, what any command reported is in the file, however
\* many commands ran and whichever of them were killed (store.py:125-127).
THEOREM StoreKeepsReported == Spec => []ReportedIsStored
  <1>1. StoreInv => ReportedIsStored
    BY DEF StoreInv, Kept, ReportedIsStored, Torn
  <1>2. QED
    BY <1>1, StoreInvariant, PTL

\* Until then no plain add succeeds for an IMSI already reported: a test IMSI
\* is handed out once (model.py:52-59).
THEOREM StoreAddsNew == Spec => AddedIsNew
  <1>1. StoreInv =>
          \A p \in Procs :
             /\ ~raced
             /\ pc[p] = "seal" /\ cmd[p].op = "add"
             /\ st = "empty" /\ st' = "sealed"
             => cmd[p].imsi \notin owed
    BY DEF StoreInv, NewAdd, Sealing
  <1>2. QED
    BY <1>1, StoreInvariant, PTL DEF AddedIsNew

-----------------------------------------------------------------------------
(* The file implements the atomic map.                                      *)

LEMMA StoreBarTyped == TypeOK => storeBar \in Rows \cup {Destroyed}
  <1> SUFFICES ASSUME TypeOK PROVE storeBar \in Rows \cup {Destroyed}
    OBVIOUS
  <1>1. CASE ~Torn
    BY <1>1, MigrateRows DEF TypeOK, storeBar
  <1>2. CASE Torn /\ \E p \in Procs : pc[p] = "seal"
    <2>1. (CHOOSE p \in Procs : pc[p] = "seal") \in Procs
      BY <1>2
    <2>2. QED
      BY <1>2, <2>1 DEF TypeOK, storeBar
  <1>3. CASE Torn /\ ~ \E p \in Procs : pc[p] = "seal"
    BY <1>3 DEF storeBar
  <1>4. QED
    BY <1>1, <1>2, <1>3

\* The one writer's copy is what the store is about to be.
LEMMA StoreBarOfWriter ==
    ASSUME NEW p \in Procs, Torn, pc[p] = "seal",
           \A q \in Procs : pc[q] = "seal" => q = p
    PROVE  storeBar = snap[p]
  <1>1. (CHOOSE q \in Procs : pc[q] = "seal") = p
    OBVIOUS
  <1>2. QED
    BY <1>1 DEF storeBar

\* The SQL of one command is one command of the atomic map, or changes nothing.
LEMMA ResultIsCommand ==
    ASSUME NEW c \in Command, NEW db \in Rows, ~Refused(c, db), ~raced,
           UNCHANGED raced, storeBar = db, storeBar' = Result(c, db)
    PROVE  Atomic!Command \/ UNCHANGED storeBar
  <1>1. c.op \in Ops /\ c.imsi \in Imsi /\ c.row \in Row /\ c.row.mode \in Mode
    BY DEF Command, Row
  <1>2. db # Destroyed
    BY StoreAssumption
  <1>3. CASE c.op \in {"add", "ensure"}
    <2>1. CASE db[c.imsi] = NoRow
      <3>1. storeBar' = [db EXCEPT ![c.imsi] = c.row]
        BY <1>3, <2>1 DEF Result
      <3>2. Atomic!Insert(c.imsi, c.row)
        BY <2>1, <3>1 DEF Atomic!Insert
      <3>3. c.row \in Atomic!Row
        BY <1>1 DEF Atomic!Row, Atomic!Mode, Row, Mode
      <3>4. QED
        BY <1>1, <1>2, <3>2, <3>3 DEF Atomic!Command
    <2>2. CASE db[c.imsi] # NoRow
      BY <1>3, <2>2 DEF Result
    <2>3. QED
      BY <2>1, <2>2
  <1>4. CASE c.op = "edit"
    <2>1. CASE db[c.imsi] # NoRow
      <3>1. storeBar' = [db EXCEPT ![c.imsi].mode = c.row.mode]
        BY <1>4, <2>1 DEF Result
      <3>2. Atomic!SetMode(c.imsi, c.row.mode)
        BY <2>1, <3>1 DEF Atomic!SetMode
      <3>3. c.row.mode \in Atomic!Mode
        BY <1>1 DEF Atomic!Mode, Mode
      <3>4. QED
        BY <1>1, <1>2, <3>2, <3>3 DEF Atomic!Command
    <2>2. CASE db[c.imsi] = NoRow
      BY <1>4, <2>2 DEF Result
    <2>3. QED
      BY <2>1, <2>2
  <1>5. CASE c.op = "remove"
    <2>1. storeBar' = [db EXCEPT ![c.imsi] = NoRow]
      BY <1>5 DEF Result
    <2>2. CASE db[c.imsi] # NoRow
      <3>1. Atomic!Delete(c.imsi)
        BY <2>1, <2>2 DEF Atomic!Delete
      <3>2. QED
        BY <1>1, <1>2, <3>1 DEF Atomic!Command
    <2>3. CASE db[c.imsi] = NoRow
      BY <2>1, <2>3 DEF Rows
    <2>4. QED
      BY <2>2, <2>3
  <1>6. QED
    BY <1>1, <1>3, <1>4, <1>5 DEF Ops

LEMMA InitRefines == Init => Atomic!Init
  <1> SUFFICES ASSUME Init PROVE Atomic!Init
    OBVIOUS
  <1>1. TypeOK /\ ~Torn
    BY InitTypes DEF Init, Torn
  <1>2. storeBar \in Rows
    BY <1>1, MigrateRows DEF storeBar, TypeOK
  <1>3. QED
    BY <1>2 DEF Init, Atomic!Init, Atomic!Rows, Atomic!Row, Atomic!Mode,
                Rows, Row, Mode

LEMMA RacedIsForever == TypeOK /\ [Next]_vars /\ raced => raced'
  BY DEF Next, Pick, Load, LoadFails, Truncate, Seal, Crash, vars, histVars

LEMMA NextRefines ==
    TypeOK /\ TypeOK' /\ StoreInv /\ StoreInv' /\ [Next]_vars
      => [Atomic!Next]_Atomic!absVars
  <1> SUFFICES ASSUME TypeOK, TypeOK', StoreInv, StoreInv', [Next]_vars
               PROVE  [Atomic!Next]_Atomic!absVars
    OBVIOUS
  <1>1. CASE raced'
    <2>1. storeBar' \in Rows \cup {Destroyed}
      <3>1. TypeOK' => (storeBar \in Rows \cup {Destroyed})'
        BY StoreBarTyped, PTL
      <3>2. QED
        BY <3>1
    <2>2. raced' = TRUE
      BY <1>1 DEF TypeOK
    <2>3. QED
      BY <2>1, <2>2 DEF Atomic!Next, Atomic!Race, Atomic!Rows, Atomic!Row,
                        Atomic!Mode, Rows, Row, Mode
  <1>2. CASE ~raced'
    <2>1. ~raced /\ raced' = raced /\ ~overlapped /\ ~overlapped'
      BY <1>2, RacedIsForever DEF TypeOK, StoreInv, OverlapIsRace
    <2>2. SUFFICES Atomic!Command \/ Atomic!Destroy \/ UNCHANGED storeBar
      BY <2>1 DEF Atomic!Next, Atomic!absVars
    <2>3. ASSUME UNCHANGED <<st, rows>>, ~Torn
          PROVE  UNCHANGED storeBar
      BY <2>3 DEF storeBar, Migrate, Torn
    <2>4. ASSUME UNCHANGED <<st, rows>>, Torn,
                 \A q \in Procs : pc[q] = "seal" <=> pc'[q] = "seal",
                 \A q \in Procs : pc[q] = "seal" => snap'[q] = snap[q]
          PROVE  UNCHANGED storeBar
      <3>1. CASE \E p \in Procs : pc[p] = "seal"
        <4>1. PICK p \in Procs : pc[p] = "seal"
          BY <3>1
        <4>2. \A q \in Procs : pc[q] = "seal" => q = p
          BY <2>1, <4>1 DEF StoreInv, OneWriter, Sealing
        <4>3. storeBar = snap[p]
          BY <2>4, <4>1, <4>2, StoreBarOfWriter
        <4>4. (CHOOSE q \in Procs : pc'[q] = "seal") = p
          BY <2>4, <4>1, <4>2
        <4>5. storeBar' = snap'[p]
          BY <2>4, <4>1, <4>4 DEF storeBar, Torn
        <4>6. QED
          BY <2>4, <4>1, <4>3, <4>5
      <3>2. CASE ~ \E p \in Procs : pc[p] = "seal"
        BY <2>4, <3>2 DEF storeBar, Torn
      <3>3. QED
        BY <3>1, <3>2
    <2>5. ASSUME NEW p \in Procs, NEW op \in Ops, NEW row \in Row,
                 Pick(p, op, row)
          PROVE  UNCHANGED storeBar
      BY <2>3, <2>5 DEF Pick, fileVars
    <2>6. ASSUME NEW p \in Procs, NEW c \in Command, Load(p, c)
          PROVE  UNCHANGED storeBar
      BY <2>3, <2>6 DEF Load, fileVars
    <2>7. ASSUME NEW p \in Procs, LoadFails(p)
          PROVE  UNCHANGED storeBar
      BY <2>3, <2>4, <2>7 DEF LoadFails, Leave, fileVars, TypeOK
    <2>8. ASSUME NEW p \in Procs, Truncate(p)
          PROVE  Atomic!Command \/ UNCHANGED storeBar
      <3>1. pc'[p] = "seal" /\ Torn' /\ snap'[p] = snap[p]
        BY <2>8 DEF Truncate, TypeOK, Torn
      <3>2. /\ ~Torn
            /\ ~Refused(cmd[p], Migrate(rows))
            /\ snap[p] = Result(cmd[p], Migrate(rows))
        BY <2>1, <2>8 DEF Truncate, StoreInv, FreshCopy, TypeOK
      <3>3. cmd[p] \in Command /\ Migrate(rows) \in Rows
        BY <2>8, MigrateRows DEF Truncate, TypeOK
      <3>4. \A q \in Procs : pc'[q] = "seal" => q = p
        BY <2>1, <3>1 DEF StoreInv, OneWriter, Sealing
      <3>5. (CHOOSE q \in Procs : pc'[q] = "seal") = p
        BY <3>1, <3>4
      <3>6. storeBar' = Result(cmd[p], Migrate(rows))
        BY <3>1, <3>2, <3>5 DEF storeBar
      <3>7. storeBar = Migrate(rows)
        BY <3>2 DEF storeBar
      <3>8. QED
        BY <2>1, <3>2, <3>3, <3>6, <3>7, ResultIsCommand
    <2>9. ASSUME NEW p \in Procs, Seal(p)
          PROVE  UNCHANGED storeBar
      <3>1. pc[p] = "seal" /\ st = "empty" /\ st' = "sealed" /\ rows' = snap[p]
        BY <2>1, <2>9 DEF Seal, StoreInv, OneWriter, Sealing
      <3>2. storeBar = snap[p]
        BY <2>1, <3>1, StoreBarOfWriter DEF StoreInv, OneWriter, Sealing, Torn
      <3>3. Migrate(snap[p]) = snap[p]
        BY MigrateIdentity DEF TypeOK
      <3>4. storeBar' = Migrate(rows')
        BY <3>1 DEF storeBar, Migrate, Torn
      <3>5. QED
        BY <3>1, <3>2, <3>3, <3>4
    <2>10. ASSUME NEW p \in Procs, Crash(p)
           PROVE  Atomic!Destroy \/ UNCHANGED storeBar
      <3>1. CASE pc[p] = "seal"
        <4>1. st = "empty" /\ \A q \in Procs : pc[q] = "seal" => q = p
          BY <2>1, <3>1 DEF StoreInv, OneWriter, Sealing
        <4>2. storeBar = snap[p] /\ snap[p] # Destroyed
          BY <3>1, <4>1, StoreBarOfWriter, StoreAssumption DEF TypeOK, Torn
        <4>3. Torn' /\ ~ \E q \in Procs : pc'[q] = "seal"
          BY <2>10, <4>1 DEF Crash, Leave, fileVars, TypeOK, Torn
        <4>4. storeBar' = Destroyed
          BY <4>3 DEF storeBar
        <4>5. QED
          BY <2>1, <4>2, <4>4 DEF Atomic!Destroy
      <3>2. CASE pc[p] # "seal"
        BY <2>3, <2>4, <2>10, <3>2 DEF Crash, Leave, fileVars, TypeOK
      <3>3. QED
        BY <3>1, <3>2
    <2>11. CASE UNCHANGED vars
      BY <2>3, <2>4, <2>11 DEF vars
    <2>12. QED
      BY <2>5, <2>6, <2>7, <2>8, <2>9, <2>10, <2>11 DEF Next
  <1>3. QED
    BY <1>1, <1>2

\* For any processes, IMSIs and credentials, the file that is read, truncated
\* and rewritten whole behaves as a map changed by atomic commands, until a
\* command is killed in the write or writes from a stale copy (store.py:67-99).
THEOREM StoreImplementsMap == Spec => ImplementsAtomicStore
  BY InitRefines, NextRefines, StoreTypes, StoreInvariant, PTL
     DEF Spec, Atomic!Spec, ImplementsAtomicStore

\* What that means for the credentials of a subscriber nobody removed.
LEMMA AtomicKeepsCredentials ==
    ASSUME TypeOK, [Atomic!Next]_Atomic!absVars, NEW i \in Imsi, ~raced',
           storeBar # Destroyed, storeBar' # Destroyed,
           storeBar[i] # NoRow, storeBar'[i] # NoRow
    PROVE  storeBar'[i].cred = storeBar[i].cred
  <1>1. storeBar \in Rows
    BY StoreBarTyped
  <1>2. storeBar[i] \in Row
    BY <1>1 DEF Rows
  <1>3. CASE Atomic!Command
    <2>1. ASSUME NEW j \in Imsi, NEW row, Atomic!Insert(j, row)
          PROVE  storeBar'[i] = storeBar[i]
      BY <1>1, <2>1 DEF Atomic!Insert, Rows
    <2>2. ASSUME NEW j \in Imsi, NEW mode, Atomic!SetMode(j, mode)
          PROVE  storeBar'[i].cred = storeBar[i].cred
      <3>1. storeBar'[i] = IF i = j THEN [storeBar[i] EXCEPT !.mode = mode]
                                    ELSE storeBar[i]
        BY <1>1, <2>2 DEF Atomic!SetMode, Rows
      <3>2. QED
        BY <1>2, <3>1 DEF Row
    <2>3. ASSUME NEW j \in Imsi, Atomic!Delete(j)
          PROVE  storeBar'[i] = storeBar[i]
      BY <1>1, <2>3 DEF Atomic!Delete, Rows
    <2>4. QED
      BY <1>3, <2>1, <2>2, <2>3 DEF Atomic!Command
  <1>4. QED
    BY <1>3 DEF Atomic!Next, Atomic!absVars, Atomic!Destroy, Atomic!Race

\* No sequence of commands changes the credentials of a subscriber that stays
\* in the store (store.py:118-153), until a stale write.
THEOREM StoreNeverOverwrites == Spec => NeverOverwritten
  <1>1. TypeOK /\ [Atomic!Next]_Atomic!absVars =>
          \A i \in Imsi :
             /\ ~raced'
             /\ storeBar # Destroyed /\ storeBar' # Destroyed
             /\ storeBar[i] # NoRow /\ storeBar'[i] # NoRow
             => storeBar'[i].cred = storeBar[i].cred
    BY AtomicKeepsCredentials
  <1>2. QED
    BY <1>1, NextRefines, StoreTypes, StoreInvariant, PTL
       DEF Spec, NeverOverwritten

=============================================================================
