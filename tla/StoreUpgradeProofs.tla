--------------------------- MODULE StoreUpgradeProofs ---------------------------
(***************************************************************************)
(* Two promises of the store's initialization, for any number of           *)
(* processes, tables and failures: an operation finds the complete schema, *)
(* and no old database is changed before a copy of it has returned, which  *)
(* only a copy made at the same time can have left incomplete.             *)
(* Both rest on the order of the states of a database: no step takes a     *)
(* table or a version away.                                                *)
(***************************************************************************)
EXTENDS StoreUpgrade, TLAPS

-----------------------------------------------------------------------------
(* The invariant                                                            *)

\* Past these points a process has seen a file, and one it may upgrade.
HasFile(p)  == pc[p] \in Steps \ {"connect"}
Upgrades(p) == pc[p] \in {"copy", "copying", "create", "stamp", "use"}
Changes(p)  == pc[p] \in {"create", "stamp", "use"}

\* d became e by steps of initialize.
Below(d, e) == d.version <= e.version /\ d.tables \subseteq e.tables

Complete == db # Absent /\ db.version >= Latest => db.tables = Tables

FilePresent ==
    /\ found # Absent => db # Absent /\ Below(found, db)
    /\ \A p \in Processes : HasFile(p) => db # Absent

Progress == \A p \in Processes :
    /\ Upgrades(p) => db.version <= Latest
    /\ pc[p] \in {"copy", "copying"} => table[p] = 1
    /\ pc[p] = "create" => table[p] <= NumTables /\ 1 .. (table[p] - 1) \subseteq db.tables
    /\ pc[p] = "stamp" => db.tables = Tables
    /\ pc[p] = "use" => db.version = Latest

\* What a process remembers is not older than what was found.
Memory == \A p \in Processes :
    /\ pc[p] = "copying" => seen[p] # Absent
    /\ found # Absent =>
          /\ pc[p] \in Steps => existed[p]
          /\ pc[p] = "copying" => Below(found, seen[p]) /\ Below(seen[p], db)
          /\ Changes(p) /\ found.version < Latest => FoundCopied

UInv == TypeOK /\ Complete /\ FilePresent /\ Progress /\ Memory /\ BackedUpBeforeChange

-----------------------------------------------------------------------------
(* Every step keeps the invariant                                           *)

\* What is found, if anything, is as the assumption says; nobody runs.
LEMMA InitUpgrade == Init => UInv
<1> SUFFICES ASSUME Init PROVE UInv
  OBVIOUS
<1>1. TypeOK
  BY UpgradeAssumption DEF Init, TypeOK
<1>2. Complete
  BY UpgradeAssumption DEF Init, Complete
<1>3. FilePresent
  BY UpgradeAssumption DEF Init, FilePresent, Below, HasFile, Databases, Steps
<1>4. Progress /\ Memory
  BY DEF Init, Progress, Memory, Upgrades, Changes, Steps
<1>5. QED
  BY <1>1, <1>2, <1>3, <1>4 DEF UInv, BackedUpBeforeChange, Init

\* The copies that have returned stay known.
LEMMA CopiesStay ==
  ASSUME found' = found, copies \subseteq copies'
  PROVE  FoundCopied => FoundCopied'
  BY DEF FoundCopied

\* A step of nobody.
LEMMA StutterUpgrade ==
  ASSUME UInv, UNCHANGED vars
  PROVE  UInv'
  BY DEF vars, locals, UInv, TypeOK, Complete, FilePresent, Progress, Memory,
     BackedUpBeforeChange, HasFile, Upgrades, Changes, FoundCopied

\* The process remembers that there is a file.
LEMMA OpenUpgrade ==
  ASSUME UInv, NEW p \in Processes, Open(p)
  PROVE  UInv'
<1> USE UpgradeAssumption DEF Open, UInv, Goto, locals, Steps, Databases
<1>0. FoundCopied => FoundCopied'
  BY CopiesStay
<1>1. TypeOK'
  BY DEF TypeOK
<1>2. Complete'
  BY DEF Complete
<1>3. FilePresent'
  BY DEF FilePresent, HasFile
<1>4. Progress'
  BY DEF Progress, Upgrades
<1>5. Memory'
  BY <1>0 DEF TypeOK, Memory, Changes, FilePresent
<1>6. BackedUpBeforeChange'
  BY <1>0 DEF BackedUpBeforeChange
<1>7. QED
  BY <1>1, <1>2, <1>3, <1>4, <1>5, <1>6

\* Only an empty database is made, where nothing was.
LEMMA ConnectUpgrade ==
  ASSUME UInv, NEW p \in Processes, Connect(p)
  PROVE  UInv'
<1> USE UpgradeAssumption DEF Connect, UInv, Goto, locals, Steps, Databases, Empty
<1>0. FoundCopied => FoundCopied'
  BY CopiesStay
<1>1. TypeOK'
  BY DEF TypeOK
<1>2. Complete'
  BY DEF Complete
<1>3. FilePresent'
  BY DEF FilePresent
<1>4. Progress'
  BY DEF Progress, Upgrades, FilePresent, HasFile
<1>5. Memory'
  BY <1>0 DEF Memory, Changes, FilePresent
<1>6. BackedUpBeforeChange'
  BY <1>0 DEF BackedUpBeforeChange
<1>7. QED
  BY <1>1, <1>2, <1>3, <1>4, <1>5, <1>6

\* A process that goes on to change the database either backs it up first or
\* has a current one before it.
LEMMA CheckVersionUpgrade ==
  ASSUME UInv, NEW p \in Processes, CheckVersion(p)
  PROVE  UInv'
<1> USE UpgradeAssumption DEF CheckVersion, UInv, Goto, locals, Steps, Databases
<1>0. FoundCopied => FoundCopied'
  BY CopiesStay
<1>1. TypeOK'
  <2>1. pc' \in [Processes -> Steps \cup {"idle", "done"}]
    BY DEF TypeOK
  <2>2. table' \in [Processes -> 1 .. NumTables + 1]
    BY DEF TypeOK
  <2>3. QED
    BY <2>1, <2>2 DEF TypeOK
<1>2. Complete'
  BY DEF Complete
<1>3. FilePresent'
  BY DEF FilePresent, HasFile
<1>4. Progress'
  BY DEF TypeOK, Progress, Upgrades, FilePresent, HasFile
<1>5. Memory'
  BY <1>0 DEF TypeOK, Memory, Changes, BackedUpBeforeChange
<1>6. BackedUpBeforeChange'
  BY <1>0 DEF BackedUpBeforeChange
<1>7. QED
  BY <1>1, <1>2, <1>3, <1>4, <1>5, <1>6

\* What the process saw is between what was found and what there is.
LEMMA BeginCopyUpgrade ==
  ASSUME UInv, NEW p \in Processes, BeginCopy(p)
  PROVE  UInv'
<1> USE UpgradeAssumption DEF BeginCopy, AloneFrom, UInv, Goto, locals, Steps, Databases
<1>0. FoundCopied => FoundCopied'
  BY CopiesStay
<1>1. TypeOK'
  BY DEF TypeOK
<1>2. Complete'
  BY DEF Complete
<1>3. FilePresent'
  BY DEF FilePresent, HasFile
<1>4. Progress'
  BY DEF Progress, Upgrades
<1>5. Memory'
  <2>1. /\ seen' = [seen EXCEPT ![p] = db] /\ db' = db /\ found' = found
        /\ db # Absent /\ db \in Databases
    BY DEF TypeOK, FilePresent, HasFile
  <2>2. ASSUME NEW q \in Processes, q # p
        PROVE  pc'[q] = pc[q] /\ seen'[q] = seen[q] /\ existed'[q] = existed[q]
    BY <2>2 DEF TypeOK
  <2>3. /\ pc'[p] = "copying" /\ seen'[p] = db /\ existed'[p] = existed[p]
        /\ found # Absent => existed[p] /\ Below(found, db)
    BY <2>1 DEF TypeOK, Memory, FilePresent
  <2>4. Below(db, db)
    BY <2>1 DEF Below
  <2>5. QED
    BY <1>0, <2>1, <2>2, <2>3, <2>4 DEF Memory, Changes
<1>6. BackedUpBeforeChange'
  BY <1>0 DEF BackedUpBeforeChange
<1>7. QED
  BY <1>1, <1>2, <1>3, <1>4, <1>5, <1>6

\* If the database is still the one that was found, this copy is one of it.
LEMMA EndCopyUpgrade ==
  ASSUME UInv, NEW p \in Processes, EndCopy(p)
  PROVE  UInv'
<1> USE UpgradeAssumption DEF EndCopy, Copying, UInv, Goto, locals, Steps, Databases
<1>1. TypeOK'
  <2>1. db \in Databases /\ seen[p] \in Databases /\ alone[p] \in BOOLEAN
    BY DEF TypeOK, FilePresent, HasFile, Memory
  <2>2. backup' \in Databases \cup {Absent, Broken}
    BY <2>1
  <2>3. copies' \subseteq [of : Databases, whole : BOOLEAN, alone : BOOLEAN]
    <3> DEFINE copy == [of |-> seen[p], whole |-> backup' # Broken, alone |-> alone[p]]
    <3>1. copy \in [of : Databases, whole : BOOLEAN, alone : BOOLEAN]
      <4>1. (backup' # Broken) \in BOOLEAN
        OBVIOUS
      <4>2. QED
        BY <2>1, <4>1
    <3>2. copies \subseteq [of : Databases, whole : BOOLEAN, alone : BOOLEAN]
      BY DEF TypeOK
    <3>3. copies' = copies \cup {copy}
      OBVIOUS
    <3> HIDE DEF copy
    <3>4. QED
      BY <3>1, <3>2, <3>3
  <2>4. pc' \in [Processes -> Steps \cup {"idle", "done"}]
    BY DEF TypeOK
  <2>5. QED
    BY <2>2, <2>3, <2>4 DEF TypeOK
<1>2. Complete'
  BY DEF Complete
<1>3. FilePresent'
  BY DEF FilePresent, HasFile
<1>4. Progress'
  BY DEF Progress, Upgrades
<1>5. Memory'
  <2>1. ASSUME found # Absent, db = found PROVE seen[p] = found
    <3>1. Below(found, seen[p]) /\ Below(seen[p], found) /\ seen[p] # Absent
      BY <2>1 DEF Memory
    <3>2. seen[p] \in Databases /\ found \in Databases
      BY <2>1, <3>1 DEF TypeOK
    <3>3. seen[p].version = found.version /\ seen[p].tables = found.tables
      BY <3>1, <3>2 DEF Below
    <3>4. QED
      BY <3>2, <3>3
  <2>2. found # Absent /\ found.version < Latest => FoundCopied'
    <3>1. db # found /\ found # Absent => FoundCopied
      BY DEF BackedUpBeforeChange
    <3>2. FoundCopied => FoundCopied'
      BY CopiesStay
    <3>3. ASSUME db = found, found # Absent PROVE FoundCopied'
      <4>1. seen[p] = found /\ found # Broken
        BY <2>1, <3>3 DEF TypeOK
      <4>2. backup' = Broken => ~ alone[p]
        BY <3>3, <4>1
      <4>3. [of |-> seen[p], whole |-> backup' # Broken, alone |-> alone[p]] \in copies'
        OBVIOUS
      <4>4. QED
        BY <4>1, <4>2, <4>3 DEF FoundCopied
    <3>4. QED
      BY <3>1, <3>2, <3>3
  <2>3. QED
    BY <2>2 DEF Memory, Changes
<1>6. BackedUpBeforeChange'
  BY CopiesStay DEF BackedUpBeforeChange
<1>7. QED
  BY <1>1, <1>2, <1>3, <1>4, <1>5, <1>6

\* A table is added by a process that may change the database.
LEMMA CreateTableUpgrade ==
  ASSUME UInv, NEW p \in Processes, CreateTable(p)
  PROVE  UInv'
<1> USE UpgradeAssumption DEF CreateTable, UInv, Goto, locals, Steps, Databases
<1>0. FoundCopied => FoundCopied'
  BY CopiesStay
<1>1. TypeOK'
  <2>1. db \in Databases /\ table[p] \in 1 .. NumTables
    BY DEF TypeOK, Progress, FilePresent, HasFile
  <2>2. db' \in Databases
    BY <2>1 DEF Tables
  <2>3. table' \in [Processes -> 1 .. NumTables + 1]
    BY <2>1 DEF TypeOK
  <2>4. pc' \in [Processes -> Steps \cup {"idle", "done"}]
    BY DEF TypeOK
  <2>5. QED
    BY <2>2, <2>3, <2>4 DEF TypeOK
<1>2. Complete'
  BY DEF TypeOK, Complete, Tables, FilePresent, HasFile, Progress
<1>3. FilePresent'
  BY DEF TypeOK, FilePresent, HasFile, Below, Tables, Progress, Upgrades
<1>4. Progress'
  BY DEF TypeOK, Progress, Upgrades, Tables, FilePresent, HasFile
<1>5. Memory'
  BY <1>0 DEF Memory, Below, Changes
<1>6. BackedUpBeforeChange'
  BY <1>0 DEF TypeOK, BackedUpBeforeChange, Memory, Changes, Progress, Tables
<1>7. QED
  BY <1>1, <1>2, <1>3, <1>4, <1>5, <1>6

\* The version is set when all the tables are there.
LEMMA StampUpgrade ==
  ASSUME UInv, NEW p \in Processes, Stamp(p)
  PROVE  UInv'
<1> USE UpgradeAssumption DEF Stamp, UInv, Goto, locals, Steps, Databases
<1>0. FoundCopied => FoundCopied'
  BY CopiesStay
<1>1. TypeOK'
  BY DEF TypeOK, FilePresent, HasFile
<1>2. Complete'
  BY DEF Complete, Progress
<1>3. FilePresent'
  <2>1. db \in Databases /\ db.version <= Latest /\ db' = [db EXCEPT !.version = Latest]
    BY DEF TypeOK, FilePresent, HasFile, Progress, Upgrades
  <2>2. db'.version = Latest /\ db'.tables = db.tables /\ db' \in Databases
    BY <2>1
  <2>3. found # Absent => Below(found, db)'
    BY <2>1, <2>2 DEF TypeOK, FilePresent, Below
  <2>4. QED
    BY <2>2, <2>3 DEF FilePresent
<1>4. Progress'
  BY DEF Progress
<1>5. Memory'
  BY <1>0 DEF TypeOK, Memory, Below, Changes, FilePresent, Progress, Upgrades
<1>6. BackedUpBeforeChange'
  BY <1>0 DEF TypeOK, BackedUpBeforeChange, Memory, Changes, Progress, Upgrades, Tables
<1>7. QED
  BY <1>1, <1>2, <1>3, <1>4, <1>5, <1>6

\* The operation starts and ends, outside of initialize.
LEMMA UseUpgrade ==
  ASSUME UInv, NEW p \in Processes, Use(p)
  PROVE  UInv'
<1> USE UpgradeAssumption DEF Use, UInv, Goto, locals, Steps, Databases
<1>0. FoundCopied => FoundCopied'
  BY CopiesStay
<1>1. TypeOK'
  BY DEF TypeOK
<1>2. Complete'
  BY DEF Complete
<1>3. FilePresent'
  BY DEF FilePresent, HasFile
<1>4. Progress'
  BY DEF Progress
<1>5. Memory'
  BY <1>0 DEF Memory, Progress, BackedUpBeforeChange
<1>6. BackedUpBeforeChange'
  BY <1>0 DEF BackedUpBeforeChange
<1>7. QED
  BY <1>1, <1>2, <1>3, <1>4, <1>5, <1>6

\* The process is ready for its next operation.
LEMMA ReturnUpgrade ==
  ASSUME UInv, NEW p \in Processes, Return(p)
  PROVE  UInv'
<1> USE UpgradeAssumption DEF Return, UInv, Goto, locals, Steps, Databases
<1>0. FoundCopied => FoundCopied'
  BY CopiesStay
<1>1. TypeOK'
  BY DEF TypeOK
<1>2. Complete'
  BY DEF Complete
<1>3. FilePresent'
  BY DEF FilePresent, HasFile
<1>4. Progress'
  BY DEF Progress, Upgrades
<1>5. Memory'
  BY <1>0 DEF TypeOK, Memory, Below, Changes
<1>6. BackedUpBeforeChange'
  BY <1>0 DEF BackedUpBeforeChange
<1>7. QED
  BY <1>1, <1>2, <1>3, <1>4, <1>5, <1>6

\* A process that fails leaves everything as it is, the copy half-made.
LEMMA FailUpgrade ==
  ASSUME UInv, NEW p \in Processes, Fail(p)
  PROVE  UInv'
<1> USE UpgradeAssumption DEF Fail, UInv, Goto, locals, Steps, Databases
<1>0. FoundCopied => FoundCopied'
  BY CopiesStay
<1>1. TypeOK'
  BY DEF TypeOK
<1>2. Complete'
  BY DEF Complete
<1>3. FilePresent'
  BY DEF FilePresent, HasFile
<1>4. Progress'
  BY DEF Progress, Upgrades
<1>5. Memory'
  BY <1>0 DEF TypeOK, Memory, Below, Changes
<1>6. BackedUpBeforeChange'
  BY <1>0 DEF BackedUpBeforeChange
<1>7. QED
  BY <1>1, <1>2, <1>3, <1>4, <1>5, <1>6

-----------------------------------------------------------------------------
(* The theorems                                                             *)

\* The invariant holds: one step for each action of a process.
LEMMA UpgradeInvariant == Spec => []UInv
<1>1. UInv /\ [Next]_vars => UInv'
  <2> SUFFICES ASSUME UInv, [Next]_vars PROVE UInv'
    OBVIOUS
  <2>1. CASE UNCHANGED vars
    BY <2>1, StutterUpgrade
  <2>2. ASSUME NEW p \in Processes, Step(p) \/ Return(p) \/ Fail(p) PROVE UInv'
    BY <2>2, OpenUpgrade, ConnectUpgrade, CheckVersionUpgrade, BeginCopyUpgrade,
       EndCopyUpgrade, CreateTableUpgrade, StampUpgrade, UseUpgrade, ReturnUpgrade,
       FailUpgrade DEF Step
  <2>3. QED
    BY <2>1, <2>2 DEF Next
<1>2. QED
  BY InitUpgrade, <1>1, PTL DEF Spec

\* The state stays within its types.
THEOREM StoreTypes == Spec => []TypeOK
  BY UpgradeInvariant, PTL DEF UInv

\* However many processes initialize the store at once and wherever they die,
\* an operation of the store finds every table of this runtime's schema.
THEOREM SchemaFound == Spec => []OperationsFindSchema
<1>1. UInv => OperationsFindSchema
  BY UpgradeAssumption DEF UInv, TypeOK, OperationsFindSchema, Complete, Progress, Upgrades,
     FilePresent, HasFile, Current, Databases, Steps
<1>2. QED
  BY <1>1, UpgradeInvariant, PTL

\* No process changes a database of an older schema before a copy of it has
\* returned, complete unless another was made at the same time, and none
\* changes one of a newer schema.
THEOREM BackupFirst == Spec => []BackedUpBeforeChange
  BY UpgradeInvariant, PTL DEF UInv

=============================================================================
