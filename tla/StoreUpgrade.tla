------------------------------ MODULE StoreUpgrade ------------------------------
(***************************************************************************)
(* ChiefStateStore.initialize.  Every operation of the store opens a       *)
(* connection, and every connection initializes the database first: it     *)
(* looks for the file, reads its schema version, refuses a newer one,      *)
(* backs an older one up, creates what tables are missing and stamps the   *)
(* version.  SQLite makes each statement atomic; executescript commits     *)
(* them one by one, so several processes interleave and die between them.  *)
(*                                                                         *)
(* No statement of initialize touches a row, so a database is its version  *)
(* and its tables.  Table i is the i-th of _create_schema.                 *)
(***************************************************************************)
EXTENDS Naturals, FiniteSets

CONSTANTS
    Processes,  \* CLI commands, library programs, the API server
    NumTables,  \* number of tables of the schema
    Latest,     \* LATEST_SCHEMA_VERSION
    Found,      \* the databases, or Absent, that may be there at first
    Absent,     \* no file
    Broken,     \* a backup file that is no complete copy of one state
    MaxFaults   \* bound on failed calls and killed processes

Tables    == 1 .. NumTables
Databases == [version : Nat, tables : SUBSET Tables]
Empty     == [version |-> 0, tables |-> {}]
Current   == [version |-> Latest, tables |-> Tables]

\* Any runtime stamps a version only on a complete schema.
ASSUME UpgradeAssumption ==
    /\ NumTables \in Nat \ {0}
    /\ Latest \in Nat \ {0}
    /\ Absent \notin Databases /\ Broken \notin Databases
    /\ Absent # Broken
    /\ Found \subseteq Databases \cup {Absent}
    /\ \A d \in Found \ {Absent} : d.version >= Latest => d.tables = Tables
    /\ MaxFaults \in Nat

VARIABLES
    found,    \* what was there at first
    db,       \* .chief/chief.sqlite3
    backup,   \* .chief/chief.sqlite3.bak
    copies,   \* history: the copies that returned
    pc,       \* where each process is
    existed,  \* existing_database
    seen,     \* the database each process saw when it began to copy
    alone,    \* its copy is the only one since it began
    table,    \* the table each process creates next
    faults    \* failures so far

locals == <<existed, seen, alone, table>>
vars   == <<found, db, backup, copies, pc, locals, faults>>

-----------------------------------------------------------------------------
Steps == {"connect", "version", "copy", "copying", "create", "stamp", "use"}

Goto(p, step) == pc' = [pc EXCEPT ![p] = step]

Init ==
    /\ found \in Found
    /\ db = found
    /\ backup = Absent
    /\ copies = {}
    /\ pc = [p \in Processes |-> "idle"]
    /\ existed = [p \in Processes |-> FALSE]
    /\ seen = [p \in Processes |-> Absent]
    /\ alone = [p \in Processes |-> FALSE]
    /\ table = [p \in Processes |-> 1]
    /\ faults = 0

\* An operation of the store is called: mkdir, is_file.
Open(p) ==
    /\ pc[p] = "idle"
    /\ existed' = [existed EXCEPT ![p] = db # Absent]
    /\ Goto(p, "connect")
    /\ UNCHANGED <<found, db, backup, copies, seen, alone, table, faults>>

\* sqlite3.connect creates an empty file.
Connect(p) ==
    /\ pc[p] = "connect"
    /\ db' = IF db = Absent THEN Empty ELSE db
    /\ Goto(p, "version")
    /\ UNCHANGED <<found, backup, copies, locals, faults>>

\* Mutant of CheckVersion: nothing is backed up.
CheckWithoutBackup(p) ==
    /\ pc[p] = "version"
    /\ Goto(p, IF db.version > Latest THEN "idle" ELSE "create")
    /\ table' = [table EXCEPT ![p] = 1]
    /\ UNCHANGED <<found, db, backup, copies, existed, seen, alone, faults>>

\* PRAGMA user_version: a newer schema raises, an older file is backed up.
CheckVersion(p) ==
    /\ pc[p] = "version"
    /\ \/ db.version > Latest /\ Goto(p, "idle")
       \/ db.version < Latest /\ existed[p] /\ Goto(p, "copy")
       \/ db.version <= Latest /\ ~ (db.version < Latest /\ existed[p]) /\ Goto(p, "create")
    /\ table' = [table EXCEPT ![p] = 1]
    /\ UNCHANGED <<found, db, backup, copies, existed, seen, alone, faults>>

Copying(p) == pc[p] = "copying"

\* p begins to copy: nobody else is alone any more, and p is not either when
\* another is copying.
AloneFrom(p) ==
    [q \in Processes |-> q = p /\ \A o \in Processes \ {p} : ~ Copying(o)]

\* Mutant of BeginCopy: an existing backup is not overwritten but refused.
RefuseSecondCopy(p) ==
    /\ pc[p] = "copy"
    /\ backup' = IF backup = Absent THEN Broken ELSE backup
    /\ seen' = [seen EXCEPT ![p] = db]
    /\ alone' = AloneFrom(p)
    /\ Goto(p, IF backup = Absent THEN "copying" ELSE "idle")
    /\ UNCHANGED <<found, db, copies, existed, table, faults>>

\* shutil.copy2 empties the backup file, whoever else is filling it ...
BeginCopy(p) ==
    /\ pc[p] = "copy"
    /\ backup' = Broken
    /\ seen' = [seen EXCEPT ![p] = db]
    /\ alone' = AloneFrom(p)
    /\ Goto(p, "copying")
    /\ UNCHANGED <<found, db, copies, existed, table, faults>>

\* ... and fills it: with a mixture if the database changes meanwhile, and
\* perhaps with a hole, where another copy emptied the file under it, or with
\* pieces of another copy.
EndCopy(p) ==
    /\ Copying(p)
    /\ \/ db = seen[p] /\ backup' = db
       \/ (db # seen[p] \/ ~ alone[p]) /\ backup' = Broken
    /\ copies' = copies \cup {[of |-> seen[p], whole |-> backup' # Broken, alone |-> alone[p]]}
    /\ Goto(p, "create")
    /\ UNCHANGED <<found, db, locals, faults>>

\* Mutant of CreateTable: the version is stamped with the first table.
CreateTableStamped(p) ==
    /\ pc[p] = "create"
    /\ db' = [version |-> Latest, tables |-> db.tables \cup {table[p]}]
    /\ table' = [table EXCEPT ![p] = @ + 1]
    /\ Goto(p, IF table[p] = NumTables THEN "stamp" ELSE "create")
    /\ UNCHANGED <<found, backup, copies, existed, seen, alone, faults>>

\* CREATE TABLE IF NOT EXISTS, committed by itself.
CreateTable(p) ==
    /\ pc[p] = "create"
    /\ db' = [db EXCEPT !.tables = @ \cup {table[p]}]
    /\ table' = [table EXCEPT ![p] = @ + 1]
    /\ Goto(p, IF table[p] = NumTables THEN "stamp" ELSE "create")
    /\ UNCHANGED <<found, backup, copies, existed, seen, alone, faults>>

\* PRAGMA user_version = LATEST_SCHEMA_VERSION.
Stamp(p) ==
    /\ pc[p] = "stamp"
    /\ db' = [db EXCEPT !.version = Latest]
    /\ Goto(p, "use")
    /\ UNCHANGED <<found, backup, copies, locals, faults>>

\* The operation itself, on a second connection.
Use(p) ==
    /\ pc[p] = "use"
    /\ Goto(p, "done")
    /\ UNCHANGED <<found, db, backup, copies, locals, faults>>

\* The process goes on to its next operation.
Return(p) ==
    /\ pc[p] = "done"
    /\ Goto(p, "idle")
    /\ UNCHANGED <<found, db, backup, copies, locals, faults>>

\* The database is locked, the disk is full, or the process dies.
Fail(p) ==
    /\ pc[p] \in Steps
    /\ faults < MaxFaults
    /\ faults' = faults + 1
    /\ Goto(p, "idle")
    /\ UNCHANGED <<found, db, backup, copies, locals>>

-----------------------------------------------------------------------------
Step(p) ==
    \/ Open(p) \/ Connect(p) \/ CheckVersion(p) \/ BeginCopy(p) \/ EndCopy(p)
    \/ CreateTable(p) \/ Stamp(p) \/ Use(p)

Next == \E p \in Processes : Step(p) \/ Return(p) \/ Fail(p)

Spec == Init /\ [][Next]_vars

\* A process that wants an operation tries until it is done.
FairSpec == Spec /\ \A p \in Processes : WF_vars(Step(p))

-----------------------------------------------------------------------------
(* Properties                                                               *)

\* The types of the state.
TypeOK ==
    /\ found \in Found
    /\ db \in Databases \cup {Absent}
    /\ backup \in Databases \cup {Absent, Broken}
    /\ copies \subseteq [of : Databases, whole : BOOLEAN, alone : BOOLEAN]
    /\ pc \in [Processes -> Steps \cup {"idle", "done"}]
    /\ existed \in [Processes -> BOOLEAN]
    /\ seen \in [Processes -> Databases \cup {Absent}]
    /\ alone \in [Processes -> BOOLEAN]
    /\ table \in [Processes -> 1 .. NumTables + 1]
    /\ faults \in 0 .. MaxFaults

\* An operation runs on the complete schema of this runtime, whoever else is
\* initializing, and wherever processes before it have died; a process that
\* dies half-way leaves no database that passes for current.
OperationsFindSchema ==
    /\ db # Absent /\ db.version >= Latest => db.tables = Tables
    /\ \A p \in Processes : pc[p] = "use" => db = Current

\* A copy of what was found has returned.  It was complete unless another
\* process was copying to the same file at the time.
FoundCopied == \E c \in copies : c.of = found /\ (c.whole \/ ~ c.alone)

\* What is left of the promised backup: before anybody changes a database of
\* an older schema it has been copied as it was, and only an overlapping copy
\* can have spoilt that one.  A database of a newer schema is never changed.
BackedUpBeforeChange ==
    found # Absent /\ db # found => FoundCopied /\ found.version < Latest

\* An interrupted initialization can be taken up by any process: unless the
\* schema is newer, every process that insists gets its operation done.
OpensInTheEnd ==
    (found = Absent \/ found.version <= Latest) =>
        \A p \in Processes : <>(pc[p] = "done")

=============================================================================
