------------------------ MODULE ChaosScenarios_proofs -------------------------
(***************************************************************************)
(* What the verdicts of the chaos suite prove, for any number of tables,   *)
(* brokers, runs and failing commands: the scenario on the Delta table with*)
(* init_lakehouse.py beside it, the failover of a broker and the runner    *)
(* that chains the scenarios.  The one about Fluentd is in Ingestion_proofs*)
(***************************************************************************)
EXTENDS DeltaSafety, KafkaFailover, ChaosRunner, FiniteSetTheorems, TLAPS

(* The lakehouse.                                                          *)

LakeTypes ==
    /\ version \in [Table -> Int] /\ \A t \in Table : version[t] >= -1
    /\ rows \in [Table -> SUBSET Nat] /\ appends \in Nat /\ rows[Sink] \subseteq 1..appends
    /\ step \in {"idle", "check", "write", "verify"} /\ at \in 1..Len(TABLES)
    /\ errors \in SUBSET Table /\ exit \in {-1, 0, 1}

\* The job has appended nothing while its table is not there; a write of that table
\* that is still to come finds only rows that were appended since the check.
SinkInv ==
    /\ ~Exists(Sink) => appends = 0
    /\ step = "write" /\ TABLES[at] = Sink => 1..appends \subseteq raced

\* A run that is under way has dealt with the tables before the one it is at.
RunInv ==
    step # "idle" => /\ exit = -1
                     /\ \A i \in 1..at - 1 : Exists(TABLES[i]) \/ TABLES[i] \in errors

LakeInv == LakeTypes /\ SinkInv /\ RunInv /\ InitOutcome

\* What a step of the scenario, of the job or of the script does to the tables.
LakeStep == AppendBatch \/ InitScript \/ (InitDies /\ UNCHANGED initRuns) \/ UNCHANGED lakeVars

LEMMA TablesFacts ==
    /\ Len(TABLES) \in Nat /\ Len(TABLES) >= 1 /\ Sink \in Table
    /\ \A i \in 1..Len(TABLES) : TABLES[i] \in Table
    /\ \A t \in Table : \E i \in 1..Len(TABLES) : t = TABLES[i]
<1>1. TABLES \in Seq(Table) /\ Sink \in Table
  BY TablesAssumption
<1>2. DOMAIN TABLES = 1..Len(TABLES) /\ Len(TABLES) \in Nat
  BY <1>1
<1>3. \A t \in Table : \E i \in 1..Len(TABLES) : t = TABLES[i]
  BY <1>2 DEF Table, Range
<1>4. QED
  BY <1>1, <1>2, <1>3

LEMMA LakeStarts == LakeInit => LakeInv
<1> SUFFICES ASSUME LakeInit PROVE LakeInv
  OBVIOUS
<1>1. LakeTypes
  BY TablesFacts DEF LakeInit, LakeTypes
<1>2. SinkInv /\ RunInv
  BY TablesFacts DEF LakeInit, SinkInv, RunInv
<1>3. LostOnlyRaced
  BY DEF LakeInit, LostOnlyRaced
<1>4. ExitTellsTables
  BY DEF LakeInit, ExitTellsTables
<1>5. QED
  BY <1>1, <1>2, <1>3, <1>4 DEF LakeInv, InitOutcome

\* The tables are never removed.
LEMMA VersionsGrow ==
    ASSUME LakeInv, LakeStep
    PROVE  /\ version' \in [Table -> Int]
           /\ \A t \in Table : version'[t] >= version[t]
<1>1. version \in [Table -> Int] /\ Sink \in Table /\ at \in 1..Len(TABLES)
  BY TablesFacts DEF LakeInv, LakeTypes
<1>2. CASE AppendBatch
  BY <1>1, <1>2 DEF AppendBatch
<1>3. CASE WriteTable
  BY <1>1, <1>3, TablesFacts DEF WriteTable
<1>4. CASE version' = version
  BY <1>1, <1>4
<1>5. QED
  BY <1>2, <1>3, <1>4 DEF LakeStep, InitScript, StartInit, SessionFails, CheckTable, VerifyTable,
     StepFails, InitDies, lakeVars, tableVars

LEMMA LakeTypesKept ==
    ASSUME LakeInv, LakeStep
    PROVE  LakeTypes'
<1>1. /\ rows \in [Table -> SUBSET Nat] /\ appends \in Nat /\ rows[Sink] \subseteq 1..appends
      /\ at \in 1..Len(TABLES) /\ Sink \in Table /\ TABLES[at] \in Table /\ Len(TABLES) \in Nat
      /\ errors \in SUBSET Table /\ exit \in {-1, 0, 1}
      /\ step \in {"idle", "check", "write", "verify"}
  BY TablesFacts DEF LakeInv, LakeTypes
<1>2. version' \in [Table -> Int] /\ \A t \in Table : version'[t] >= -1
  <2>1. \A t \in Table : version[t] \in Int /\ version'[t] \in Int /\ version[t] >= -1
    BY VersionsGrow DEF LakeInv, LakeTypes
  <2>2. QED
    BY <2>1, VersionsGrow
<1>3. CASE AppendBatch
  <2>1. appends' = appends + 1 /\ rows' = [rows EXCEPT ![Sink] = @ \cup {appends + 1}]
    BY <1>3 DEF AppendBatch
  <2>2. rows[Sink] \cup {appends + 1} \subseteq 1..appends + 1
    BY <1>1
  <2>3. rows'[Sink] = rows[Sink] \cup {appends + 1} /\ rows' \in [Table -> SUBSET Nat]
    BY <1>1, <2>1
  <2>4. QED
    BY <1>1, <1>2, <1>3, <2>1, <2>2, <2>3 DEF LakeTypes, AppendBatch, initVars
<1>4. CASE WriteTable
  <2>1. rows' \in [Table -> SUBSET Nat] /\ rows'[Sink] \subseteq rows[Sink]
    BY <1>1, <1>4 DEF WriteTable
  <2>2. QED
    BY <1>1, <1>2, <1>4, <2>1 DEF LakeTypes, WriteTable
<1>5. ASSUME NEW errs \in SUBSET Table, NextTable(errs), UNCHANGED tableVars
      PROVE  LakeTypes'
  BY <1>1, <1>2, <1>5 DEF LakeTypes, NextTable, tableVars
<1>6. CASE VerifyTable \/ StepFails
  BY <1>1, <1>5, <1>6 DEF VerifyTable, StepFails
<1>7. CASE StartInit \/ SessionFails
  <2>1. 1 \in 1..Len(TABLES)
    BY TablesFacts
  <2>2. QED
    BY <1>1, <1>2, <1>7, <2>1 DEF LakeTypes, StartInit, SessionFails, tableVars
<1>8. CASE CheckTable \/ InitDies \/ UNCHANGED lakeVars
  <2>1. /\ UNCHANGED <<rows, appends, at, errors, exit>>
        /\ step' \in {"idle", "check", "write", "verify"}
    BY <1>1, <1>8 DEF CheckTable, InitDies, lakeVars, tableVars, initVars
  <2>2. QED
    BY <1>1, <1>2, <2>1 DEF LakeTypes
<1>9. QED
  BY <1>3, <1>4, <1>6, <1>7, <1>8 DEF LakeStep, InitScript

LEMMA SinkKept ==
    ASSUME LakeInv, LakeStep
    PROVE  SinkInv' /\ LostOnlyRaced'
<1>1. /\ version \in [Table -> Int] /\ rows \in [Table -> SUBSET Nat] /\ appends \in Nat
      /\ Sink \in Table /\ TABLES[at] \in Table
  BY TablesFacts DEF LakeInv, LakeTypes
<1>2. Exists(Sink) => Exists(Sink)'
  <2>1. version[Sink] \in Int /\ version'[Sink] \in Int /\ version'[Sink] >= version[Sink]
    BY <1>1, VersionsGrow
  <2>2. QED
    BY <2>1 DEF Exists
<1>3. SinkInv /\ LostOnlyRaced
  BY DEF LakeInv, InitOutcome
<1>4. CASE AppendBatch
  <2>1. /\ appends' = appends + 1 /\ rows' = [rows EXCEPT ![Sink] = @ \cup {appends + 1}]
        /\ version' = [version EXCEPT ![Sink] = @ + 1] /\ step' = step /\ at' = at
    BY <1>4 DEF AppendBatch, initVars
  <2>2. raced' = IF step = "write" /\ TABLES[at] = Sink THEN raced \cup {appends + 1} ELSE raced
    BY <1>4, <2>1 DEF AppendBatch
  <2>3. 1..appends + 1 = (1..appends) \cup {appends + 1}
    BY <1>1
  <2>4. Exists(Sink)'
    <3>1. version[Sink] >= -1 /\ version[Sink] \in Int
      BY <1>1 DEF LakeInv, LakeTypes
    <3>2. QED
      BY <1>1, <2>1, <3>1 DEF Exists
  <2>5. (step = "write" /\ TABLES[at] = Sink => 1..appends \subseteq raced)'
    BY <1>3, <2>1, <2>2, <2>3 DEF SinkInv
  <2>6. rows'[Sink] = rows[Sink] \cup {appends + 1}
    BY <1>1, <2>1
  <2>7. LostOnlyRaced'
    BY <1>3, <2>1, <2>2, <2>3, <2>6 DEF LostOnlyRaced
  <2>8. QED
    BY <2>4, <2>5, <2>7 DEF SinkInv
<1>5. CASE WriteTable
  <2>1. /\ step = "write" /\ step' = "verify" /\ appends' = appends /\ raced' = raced
        /\ rows' = [rows EXCEPT ![TABLES[at]] = {}]
    BY <1>5 DEF WriteTable
  <2>2. SinkInv'
    BY <1>2, <1>3, <2>1 DEF SinkInv
  <2>3. CASE TABLES[at] = Sink
    BY <1>3, <2>1, <2>2, <2>3 DEF SinkInv, LostOnlyRaced
  <2>4. CASE TABLES[at] # Sink
    <3>1. rows'[Sink] = rows[Sink]
      BY <1>1, <2>1, <2>4
    <3>2. QED
      BY <1>3, <2>1, <2>2, <3>1 DEF LostOnlyRaced
  <2>5. QED
    BY <2>3, <2>4
<1>6. CASE CheckTable
  <2>1. /\ UNCHANGED <<version, rows, appends, raced, at>>
        /\ step' = IF Exists(TABLES[at]) THEN "verify" ELSE "write"
    BY <1>6 DEF CheckTable, tableVars
  <2>2. step' = "write" /\ TABLES[at] = Sink => appends = 0
    BY <1>3, <2>1 DEF SinkInv
  <2>3. SinkInv'
    BY <1>3, <2>1, <2>2 DEF SinkInv, Exists
  <2>4. QED
    BY <1>3, <2>1, <2>3 DEF LostOnlyRaced
<1>7. ASSUME UNCHANGED tableVars, step' # "write" \/ (step' = step /\ at' = at)
      PROVE  SinkInv' /\ LostOnlyRaced'
  BY <1>3, <1>7 DEF SinkInv, LostOnlyRaced, Exists, tableVars
<1>8. QED
  BY <1>4, <1>5, <1>6, <1>7 DEF LakeStep, InitScript, StartInit, SessionFails, VerifyTable,
     StepFails, NextTable, InitDies, lakeVars, initVars

LEMMA RunKept ==
    ASSUME LakeInv, LakeStep
    PROVE  RunInv' /\ ExitTellsTables'
<1>1. /\ at \in 1..Len(TABLES) /\ Len(TABLES) \in Nat /\ exit \in {-1, 0, 1}
      /\ RunInv /\ ExitTellsTables
  BY TablesFacts DEF LakeInv, LakeTypes, InitOutcome
<1>2. \A t \in Table : Exists(t) => Exists(t)'
  <2>1. \A t \in Table : version[t] \in Int /\ version'[t] \in Int
    BY VersionsGrow DEF LakeInv, LakeTypes
  <2>2. QED
    BY <2>1, VersionsGrow DEF Exists
<1>3. ASSUME UNCHANGED <<at, errors, exit>>, step' = "idle" \/ step # "idle" \/ step' = step
      PROVE  RunInv' /\ ExitTellsTables'
  <2>1. RunInv'
    BY <1>1, <1>2, <1>3, TablesFacts DEF RunInv
  <2>2. ExitTellsTables'
    BY <1>1, <1>2, <1>3 DEF ExitTellsTables
  <2>3. QED
    BY <2>1, <2>2
<1>4. CASE StartInit \/ SessionFails
  BY <1>4 DEF StartInit, SessionFails, RunInv, ExitTellsTables
<1>5. ASSUME NEW errs, NextTable(errs), errors \subseteq errs, step # "idle", version' = version,
             Exists(TABLES[at]) \/ TABLES[at] \in errs
      PROVE  RunInv' /\ ExitTellsTables'
  <2>1. errors' = errs /\ exit = -1
    BY <1>1, <1>5 DEF NextTable, RunInv
  <2>2. \A i \in 1..at : Exists(TABLES[i])' \/ TABLES[i] \in errors'
    <3>1. ASSUME NEW i \in 1..at
          PROVE  Exists(TABLES[i]) \/ TABLES[i] \in errs
      <4>1. CASE i = at
        BY <4>1, <1>5
      <4>2. CASE i # at
        <5>1. i \in 1..at - 1
          BY <1>1, <4>2
        <5>2. QED
          BY <1>1, <1>5, <5>1 DEF RunInv
      <4>3. QED
        BY <4>1, <4>2
    <3>2. QED
      BY <1>5, <2>1, <3>1 DEF Exists
  <2>3. CASE at < Len(TABLES)
    <3>1. step' = "check" /\ at' = at + 1 /\ exit' = -1
      BY <1>5, <2>1, <2>3 DEF NextTable
    <3>2. 1..at' - 1 = 1..at
      BY <1>1, <3>1
    <3>3. RunInv'
      BY <2>2, <3>1, <3>2 DEF RunInv
    <3>4. ExitTellsTables'
      BY <3>1 DEF ExitTellsTables
    <3>5. QED
      BY <3>3, <3>4
  <2>4. CASE ~(at < Len(TABLES))
    <3>1. step' = "idle" /\ exit' = IF errs = {} THEN 0 ELSE 1
      BY <1>5, <2>4 DEF NextTable
    <3>2. at = Len(TABLES)
      BY <1>1, <2>4
    <3>3. \A t \in Table : Exists(t)' \/ (t \in errors' /\ exit' = 1)
      BY <2>1, <2>2, <3>1, <3>2, TablesFacts
    <3>4. QED
      BY <3>1, <3>3 DEF RunInv, ExitTellsTables
  <2>5. QED
    BY <2>3, <2>4
<1>6. CASE VerifyTable
  BY <1>5, <1>6 DEF VerifyTable, tableVars
<1>7. CASE StepFails
  BY <1>5, <1>7 DEF StepFails, tableVars
<1>8. CASE AppendBatch \/ CheckTable \/ WriteTable \/ InitDies \/ UNCHANGED lakeVars
  BY <1>3, <1>8 DEF AppendBatch, CheckTable, WriteTable, InitDies, lakeVars, initVars
<1>9. QED
  BY <1>4, <1>6, <1>7, <1>8 DEF LakeStep, InitScript

LEMMA LakeKept ==
    ASSUME LakeInv, LakeStep
    PROVE  LakeInv'
BY LakeTypesKept, SinkKept, RunKept DEF LakeInv, InitOutcome

LEMMA LakeSteps == [ScenarioNext]_deltaVars => LakeStep
BY DEF ScenarioNext, Lake, InitScript, Script, ReadBefore, Submit, KillMaster, StartMaster,
   RestartWorker, LookForTmp, ReadAfter, Resubmit, DriverFails, deltaVars, LakeStep, InitDies

-----------------------------------------------------------------------------
(* The scenario on the Delta table.                                        *)

Reading == [version : Int, count : Int]

ScenarioTypes ==
    /\ before \in Reading /\ after \in Reading
    /\ IsFiniteSet(rowsBefore) /\ IsFiniteSet(rowsAfter)

\* Where the first reading is made, its version is one the table had; the count that
\* goes with it is that of the rows it saw, or 0.
BeforeInv ==
    /\ pc = "count before" => before.version >= 0 /\ before.version <= version[Sink]
    /\ pc \notin {"before", "count before"} =>
          /\ before.version = 0 \/ before.version <= version[Sink]
          /\ before.count = 0 \/ before.count = Cardinality(rowsBefore)

\* The second reading is no older, if there is one.
AfterInv ==
    /\ pc = "count after" => after.version >= before.version /\ after.version >= 0
    /\ pc = "done" => \/ after = Unreadable
                      \/ /\ after.version >= before.version
                         /\ after.count = Cardinality(rowsAfter)

\* The verdict on the table is that of the last step.
JudgedInv ==
    "delta_table_not_corrupted" \in checks
        <=> pc = "done" /\ (Intact(before, after) \/ after = Unreadable)

DeltaInv == ScenarioTypes /\ BeforeInv /\ AfterInv /\ JudgedInv

LEMMA ReadingsAreReadings == Readings \subseteq Reading
<1>1. Unreadable \in Reading
  BY DEF Unreadable, Reading
<1>2. 0..MaxAppends + MaxRuns \subseteq Int /\ -1..MaxAppends \subseteq Int
  OBVIOUS
<1>3. QED
  BY <1>1, <1>2 DEF Readings, Reading

\* What a reading of the version may give.
LEMMA VersionRead ==
    ASSUME NEW s, DeltaVersion(s), s # Unreadable
    PROVE  s.version = version[Sink] /\ version[Sink] >= 0
<1>1. Exists(Sink) /\ s = [version |-> version[Sink], count |-> -1]
  BY DEF DeltaVersion
<1>2. QED
  BY <1>1 DEF Exists

LEMMA DeltaKept ==
    ASSUME LakeInv, DeltaInv, [ScenarioNext]_deltaVars
    PROVE  DeltaInv'
<1>1. /\ version[Sink] \in Int /\ version[Sink] >= -1 /\ version'[Sink] \in Int
      /\ version'[Sink] >= version[Sink]
  BY LakeSteps, VersionsGrow, TablesFacts DEF LakeInv, LakeTypes
<1>2. IsFiniteSet(rows[Sink]) /\ Cardinality(rows[Sink]) \in Int
  <2>1. rows[Sink] \in SUBSET (1..appends) /\ appends \in Int
    BY DEF LakeInv, LakeTypes
  <2>2. IsFiniteSet(1..appends)
    BY <2>1, FS_Interval
  <2>3. IsFiniteSet(rows[Sink])
    BY <2>1, <2>2, FS_Subset
  <2>4. QED
    BY <2>3, FS_CardinalityType
<1>3. /\ before \in Reading /\ after \in Reading
      /\ before.version \in Int /\ before.count \in Int
      /\ IsFiniteSet(rowsBefore) /\ IsFiniteSet(rowsAfter)
      /\ BeforeInv /\ AfterInv /\ JudgedInv
  BY DEF DeltaInv, ScenarioTypes, Reading
<1>4. /\ Unreadable \in Reading /\ Unreadable.version = -1
      /\ \A s \in Reading : TakenAsRead(s) \in Reading
      /\ TakenAsRead(Unreadable) = [version |-> 0, count |-> 0]
  BY DEF Unreadable, Reading, TakenAsRead
<1>5. ASSUME UNCHANGED <<before, after, checks, rowsBefore, rowsAfter>>,
             \/ pc' = pc
             \/ {pc, pc'} \subseteq {"submit", "kill", "start", "worker", "tmp", "after"}
      PROVE  DeltaInv'
  <2>1. ScenarioTypes'
    BY <1>3, <1>5 DEF ScenarioTypes
  <2>2. BeforeInv'
    <3>1. /\ pc' = "count before" => pc = "count before"
          /\ pc' \notin {"before", "count before"} => pc \notin {"before", "count before"}
      BY <1>5
    <3>2. before.version <= version[Sink] => before.version <= version'[Sink]
      BY <1>1, <1>3
    <3>3. before' = before /\ rowsBefore' = rowsBefore
      BY <1>5
    <3>4. QED
      BY <1>3, <3>1, <3>2, <3>3 DEF BeforeInv
  <2>3. AfterInv' /\ JudgedInv'
    BY <1>3, <1>5 DEF AfterInv, JudgedInv
  <2>4. QED
    BY <2>1, <2>2, <2>3 DEF DeltaInv
<1>6. ASSUME "delta_table_not_corrupted" \in checks' <=> "delta_table_not_corrupted" \in checks,
             UNCHANGED <<before, after, rowsBefore, rowsAfter>>,
             {pc, pc'} \subseteq {"submit", "kill", "start", "worker", "tmp", "after"}
      PROVE  DeltaInv'
  <2>1. ScenarioTypes'
    BY <1>3, <1>6 DEF ScenarioTypes
  <2>2. BeforeInv'
    <3>1. /\ pc' = "count before" => pc = "count before"
          /\ pc' \notin {"before", "count before"} => pc \notin {"before", "count before"}
      BY <1>6
    <3>2. before.version <= version[Sink] => before.version <= version'[Sink]
      BY <1>1, <1>3
    <3>3. before' = before /\ rowsBefore' = rowsBefore
      BY <1>6
    <3>4. QED
      BY <1>3, <3>1, <3>2, <3>3 DEF BeforeInv
  <2>3. AfterInv' /\ JudgedInv'
    BY <1>3, <1>6 DEF AfterInv, JudgedInv
  <2>4. QED
    BY <2>1, <2>2, <2>3 DEF DeltaInv
<1>7. CASE Lake \/ Resubmit \/ DriverFails \/ Submit \/ RestartWorker \/ UNCHANGED deltaVars
  BY <1>5, <1>7 DEF Lake, Resubmit, DriverFails, Submit, RestartWorker, scenarioVars, deltaVars
<1>8. CASE KillMaster \/ StartMaster \/ LookForTmp
  BY <1>6, <1>8 DEF KillMaster, StartMaster, LookForTmp
<1>9. CASE ReadBefore
  <2>1. /\ checks' = {"delta_version_read_before"} /\ UNCHANGED <<version, rows, after, rowsAfter>>
        /\ pc' # "done" /\ pc' # "count after"
    BY <1>9 DEF ReadBefore, lakeVars, tableVars
  <2>2. AfterInv' /\ JudgedInv'
    BY <2>1 DEF AfterInv, JudgedInv
  <2>3. CASE pc = "before"
    <3>1. PICK s \in Reading : /\ DeltaVersion(s) /\ before' = TakenAsRead(s)
                              /\ pc' = IF s = Unreadable THEN "submit" ELSE "count before"
      BY <1>9, <2>3, ReadingsAreReadings DEF ReadBefore
    <3>2. rowsBefore' = rowsBefore
      BY <1>9, <2>3 DEF ReadBefore
    <3>3. CASE s = Unreadable
      <4>1. pc' = "submit" /\ before'.version = 0 /\ before'.count = 0 /\ before' \in Reading
        BY <1>4, <3>1, <3>3
      <4>2. BeforeInv'
        BY <4>1 DEF BeforeInv
      <4>3. QED
        BY <1>3, <2>1, <2>2, <3>2, <4>1, <4>2 DEF DeltaInv, ScenarioTypes
    <3>4. CASE s # Unreadable
      <4>1. s.version = version[Sink] /\ version[Sink] >= 0
        BY <3>1, <3>4, VersionRead
      <4>2. before' = s /\ pc' = "count before"
        BY <3>1, <3>4 DEF TakenAsRead
      <4>3. BeforeInv'
        BY <1>1, <2>1, <4>1, <4>2 DEF BeforeInv
      <4>4. QED
        BY <1>3, <2>1, <2>2, <3>1, <3>2, <4>2, <4>3 DEF DeltaInv, ScenarioTypes
    <3>5. QED
      BY <3>3, <3>4
  <2>4. CASE pc = "count before"
    <3>1. PICK s \in Reading : DeltaCount(before.version, s) /\ before' = TakenAsRead(s)
      BY <1>9, <2>4, ReadingsAreReadings DEF ReadBefore
    <3>2. rowsBefore' = rows[Sink] /\ pc' = "submit"
      BY <1>9, <2>4 DEF ReadBefore
    <3>3. before'.version = 0 \/ before'.version <= version[Sink]
      <4>1. before.version <= version[Sink]
        BY <1>3, <2>4 DEF BeforeInv
      <4>2. s = Unreadable \/ s.version = before.version
        BY <3>1 DEF DeltaCount
      <4>3. QED
        BY <1>4, <3>1, <4>1, <4>2 DEF TakenAsRead
    <3>4. before'.count = 0 \/ before'.count = Cardinality(rowsBefore')
      BY <1>4, <3>1, <3>2 DEF DeltaCount, TakenAsRead
    <3>5. BeforeInv'
      BY <2>1, <3>2, <3>3, <3>4 DEF BeforeInv
    <3>6. QED
      BY <1>2, <1>3, <1>4, <2>1, <2>2, <3>1, <3>2, <3>5 DEF DeltaInv, ScenarioTypes
  <2>5. QED
    BY <2>3, <2>4, <1>9 DEF ReadBefore
<1>10. CASE ReadAfter
  <2>1. UNCHANGED <<version, rows, before, rowsBefore>> /\ pc \in {"after", "count after"}
    BY <1>10 DEF ReadAfter, lakeVars, tableVars
  <2>2. pc' \in {"count after", "done"}
    BY <1>10 DEF ReadAfter, Judge
  <2>3. BeforeInv'
    BY <1>3, <2>1, <2>2 DEF BeforeInv
  <2>4. "delta_table_not_corrupted" \notin checks
    BY <1>3, <2>1 DEF JudgedInv
  <2>5. ASSUME NEW s \in Reading, Judge(s), after' = s, IsFiniteSet(rowsAfter'),
               s = Unreadable \/ (s.version >= before.version /\ s.count = Cardinality(rowsAfter'))
        PROVE  DeltaInv'
    <3>1. pc' = "done"
      BY <2>5 DEF Judge
    <3>2. JudgedInv'
      BY <2>1, <2>4, <2>5, <3>1 DEF Judge, JudgedInv, Intact
    <3>3. AfterInv'
      BY <2>1, <2>5, <3>1 DEF AfterInv
    <3>4. QED
      BY <1>3, <2>1, <2>3, <2>5, <3>2, <3>3 DEF DeltaInv, ScenarioTypes
  <2>6. CASE pc = "after"
    <3>1. PICK s \in Reading : /\ DeltaVersion(s) /\ after' = s
                              /\ IF s = Unreadable THEN Judge(s)
                                 ELSE pc' = "count after" /\ UNCHANGED checks
      BY <1>10, <2>6, ReadingsAreReadings DEF ReadAfter
    <3>2. rowsAfter' = rowsAfter
      BY <1>10, <2>6 DEF ReadAfter
    <3>3. CASE s = Unreadable
      BY <1>3, <2>5, <3>1, <3>2, <3>3
    <3>4. CASE s # Unreadable
      <4>1. s.version = version[Sink] /\ version[Sink] >= 0
        BY <3>1, <3>4, VersionRead
      <4>2. before.version = 0 \/ before.version <= version[Sink]
        BY <1>3, <2>6 DEF BeforeInv
      <4>3. AfterInv'
        BY <1>1, <2>1, <3>1, <3>4, <4>1, <4>2 DEF AfterInv
      <4>4. JudgedInv'
        BY <2>4, <3>1, <3>4 DEF JudgedInv
      <4>5. QED
        BY <1>3, <2>1, <2>3, <3>1, <3>2, <4>3, <4>4 DEF DeltaInv, ScenarioTypes
    <3>5. QED
      BY <3>3, <3>4
  <2>7. CASE pc = "count after"
    <3>1. PICK s \in Reading : DeltaCount(after.version, s) /\ after' = s /\ Judge(s)
      BY <1>10, <2>7, ReadingsAreReadings DEF ReadAfter
    <3>2. rowsAfter' = rows[Sink]
      BY <1>10, <2>7 DEF ReadAfter
    <3>3. after.version >= before.version
      BY <1>3, <2>7 DEF AfterInv
    <3>4. s = Unreadable \/ (s.version = after.version /\ s.count = Cardinality(rows[Sink]))
      BY <3>1 DEF DeltaCount
    <3>5. QED
      BY <1>2, <2>5, <3>1, <3>2, <3>3, <3>4
  <2>8. QED
    BY <2>1, <2>6, <2>7
<1>11. QED
  BY <1>7, <1>8, <1>9, <1>10 DEF ScenarioNext, Script

\* The invariant of the lakehouse and of the scenario on it.
THEOREM LakehouseInvariance == ScenarioSpec => [](LakeInv /\ DeltaInv)
<1>1. ScenarioInit => LakeInv /\ DeltaInv
  <2> SUFFICES ASSUME ScenarioInit PROVE LakeInv /\ DeltaInv
    OBVIOUS
  <2>1. LakeInv
    BY LakeStarts DEF ScenarioInit
  <2>2. ScenarioTypes
    BY FS_EmptySet DEF ScenarioInit, ScenarioTypes, Unreadable, Reading
  <2>3. BeforeInv /\ AfterInv /\ JudgedInv
    BY DEF ScenarioInit, BeforeInv, AfterInv, JudgedInv
  <2>4. QED
    BY <2>1, <2>2, <2>3 DEF DeltaInv
<1>2. LakeInv /\ DeltaInv /\ [ScenarioNext]_deltaVars => (LakeInv /\ DeltaInv)'
  BY LakeSteps, LakeKept, DeltaKept
<1>3. QED
  BY <1>1, <1>2, PTL DEF ScenarioSpec

\* init_lakehouse.py beside the job loses only rows appended between its check and its
\* write, and its exit code tells which tables are in place (init_lakehouse.py:164-178).
THEOREM InitOutcomeHolds == ScenarioSpec => []InitOutcome
<1>1. LakeInv => InitOutcome
  BY DEF LakeInv
<1>2. QED
  BY <1>1, LakehouseInvariance, PTL

\* The scenario reports corruption only when rows of its first reading are gone, and a
\* pass that made both readings bounds how many are.
THEOREM DeltaVerdictHolds == ScenarioSpec => []DeltaVerdict
<1>1. LakeInv /\ DeltaInv => DeltaVerdict
  <2> SUFFICES ASSUME LakeInv, DeltaInv PROVE DeltaVerdict
    OBVIOUS
  <2>1. /\ IsFiniteSet(rowsBefore) /\ IsFiniteSet(rowsAfter)
        /\ Cardinality(rowsBefore) \in Nat /\ Cardinality(rowsAfter) \in Nat
    BY FS_CardinalityType DEF DeltaInv, ScenarioTypes
  <2>2. NoFalseAlarm
    <3> SUFFICES ASSUME pc = "done", "delta_table_not_corrupted" \notin checks,
                        rowsBefore \subseteq rowsAfter
                 PROVE  FALSE
      BY DEF NoFalseAlarm
    <3>1. after # Unreadable /\ ~Intact(before, after)
      BY DEF DeltaInv, JudgedInv
    <3>2. /\ after.version >= before.version /\ after.count = Cardinality(rowsAfter)
          /\ before.count = 0 \/ before.count = Cardinality(rowsBefore)
      BY <3>1 DEF DeltaInv, AfterInv, BeforeInv
    <3>3. Cardinality(rowsBefore) <= Cardinality(rowsAfter)
      BY <2>1, FS_Subset
    <3>4. QED
      BY <2>1, <3>1, <3>2, <3>3 DEF Intact
  <2>3. LossBounded
    <3> SUFFICES ASSUME pc = "done", checks = Checks, after # Unreadable,
                        before.count = Cardinality(rowsBefore)
                 PROVE  Cardinality(rowsBefore \ rowsAfter) <= Cardinality(rowsAfter \ rowsBefore)
      BY DEF LossBounded, Passed
    <3>1. "delta_table_not_corrupted" \in checks
      BY DEF Checks
    <3>2. Cardinality(rowsAfter) >= Cardinality(rowsBefore)
      BY <3>1 DEF DeltaInv, JudgedInv, AfterInv, Intact
    <3>3. Cardinality(rowsBefore \ rowsAfter)
            = Cardinality(rowsBefore) - Cardinality(rowsBefore \cap rowsAfter)
      BY <2>1, FS_Difference
    <3>4. Cardinality(rowsAfter \ rowsBefore)
            = Cardinality(rowsAfter) - Cardinality(rowsBefore \cap rowsAfter)
      <4>1. rowsAfter \cap rowsBefore = rowsBefore \cap rowsAfter
        OBVIOUS
      <4>2. QED
        BY <2>1, <4>1, FS_Difference
    <3>5. Cardinality(rowsBefore \cap rowsAfter) \in Nat
      BY <2>1, FS_Intersection, FS_CardinalityType
    <3>6. QED
      BY <2>1, <3>2, <3>3, <3>4, <3>5
  <2>4. QED
    BY <2>2, <2>3 DEF DeltaVerdict
<1>2. QED
  BY <1>1, LakehouseInvariance, PTL

-----------------------------------------------------------------------------
(* The failover of a broker.                                               *)

\* The steps of run() during which the killed broker is down.
Outage == {"elect", "read", "restart"}

\* The scenario stops one broker and starts it again.
AliveInv ==
    /\ alive \subseteq Broker /\ target \in Broker /\ controller \in Broker \cup {None}
    /\ ~startFailed => \/ alive = Broker
                      \/ (todo \in Outage /\ alive = Broker \ {target})

\* Checks that are made during the outage, if docker kill stopped the broker.
DuringOutage == {"new_controller_elected", "topic_readable_after_failover"}

KilledInv ==
    /\ todo \in {"find", "kill"} => passed \cap ({"controller_killed"} \cup DuringOutage) = {}
    /\ "controller_killed" \in passed =>
          /\ todo \in Outage => target \notin alive
          /\ passed \cap DuringOutage \subseteq servedDown

FailoverInv == AliveInv /\ KilledInv

LEMMA AliveKept ==
    ASSUME AliveInv, [FailoverNext]_failoverVars
    PROVE  AliveInv'
<1>1. CASE Elect \/ Resign
  BY <1>1 DEF Elect, Resign, AliveInv, scriptVars
<1>2. CASE (\E b \in Broker : Fence(b) \/ CatchUp(b)) \/ UNCHANGED failoverVars
  BY <1>2 DEF Fence, CatchUp, AliveInv, scriptVars, failoverVars, clusterVars
<1>3. CASE FindController
  BY <1>3, BrokerAssumption DEF FindController, AliveInv, clusterVars, Outage
<1>4. CASE Kill
  BY <1>4 DEF Kill, BrokerDies, AliveInv, clusterVars, Outage
<1>5. CASE PollElected \/ PollTimesOut \/ ReadTopic
  BY <1>5 DEF PollElected, PollTimesOut, ReadTopic, AliveInv, clusterVars, Outage
<1>6. CASE Restart
  <2>1. UNCHANGED <<target, controller>>
    BY <1>6 DEF Restart
  <2>2. CASE alive' = alive \cup {target} /\ startFailed' = startFailed
    <3>1. alive = Broker \/ alive = Broker \ {target} => alive \cup {target} = Broker
      BY DEF AliveInv
    <3>2. alive' \subseteq Broker /\ (~startFailed' => alive' = Broker)
      BY <2>2, <3>1 DEF AliveInv
    <3>3. QED
      BY <2>1, <3>2 DEF AliveInv
  <2>3. CASE startFailed' /\ alive' = alive
    BY <2>1, <2>3 DEF AliveInv
  <2>4. QED
    BY <2>2, <2>3, <1>6 DEF Restart
<1>7. CASE PollRejoined \/ RejoinTimesOut \/ Again
  BY <1>7 DEF PollRejoined, RejoinTimesOut, Again, AliveInv, clusterVars, Outage
<1>8. QED
  BY <1>1, <1>2, <1>3, <1>4, <1>5, <1>6, <1>7 DEF FailoverNext, FailoverScript, Cluster

LEMMA KilledKept ==
    ASSUME KilledInv, [FailoverNext]_failoverVars
    PROVE  KilledInv'
<1>1. CASE Elect \/ Resign \/ (\E b \in Broker : Fence(b) \/ CatchUp(b)) \/ UNCHANGED failoverVars
  <2>1. UNCHANGED <<todo, target, passed, servedDown, alive>>
    BY <1>1 DEF Elect, Resign, Fence, CatchUp, scriptVars, failoverVars, clusterVars
  <2>2. QED
    BY <2>1 DEF KilledInv
<1>2. CASE FindController
  BY <1>2 DEF FindController, Check, KilledInv, Outage, DuringOutage
<1>3. CASE Kill
  BY <1>3 DEF Kill, BrokerDies, Check, KilledInv, clusterVars, Outage, DuringOutage
<1>4. CASE PollElected
  BY <1>4 DEF PollElected, Check, SeenDown, KilledInv, clusterVars, Outage, DuringOutage
<1>5. CASE PollTimesOut
  BY <1>5 DEF PollTimesOut, KilledInv, clusterVars, Outage, DuringOutage
<1>6. CASE ReadTopic
  BY <1>6 DEF ReadTopic, Check, SeenDown, KilledInv, clusterVars, Outage, DuringOutage
<1>7. CASE Restart \/ RejoinTimesOut \/ Again
  BY <1>7 DEF Restart, RejoinTimesOut, Again, KilledInv, Outage, DuringOutage
<1>8. CASE PollRejoined
  BY <1>8 DEF PollRejoined, Check, KilledInv, Outage, DuringOutage
<1>9. QED
  BY <1>1, <1>2, <1>3, <1>4, <1>5, <1>6, <1>7, <1>8 DEF FailoverNext, FailoverScript, Cluster

\* The invariant of the failover: at most the target is down, and only until it is
\* started again.
THEOREM FailoverInvariance == FailoverSpec => []FailoverInv
<1>1. FailoverInit => FailoverInv
  <2>1. FailoverInit => AliveInv
    BY BrokerAssumption DEF FailoverInit, AliveInv
  <2>2. FailoverInit => KilledInv
    BY DEF FailoverInit, KilledInv
  <2>3. QED
    BY <2>1, <2>2 DEF FailoverInv
<1>2. FailoverInv /\ [FailoverNext]_failoverVars => FailoverInv'
  BY AliveKept, KilledKept DEF FailoverInv
<1>3. QED
  BY <1>1, <1>2, PTL DEF FailoverSpec

\* A pass proves service without the killed broker, and no run of the scenario costs a
\* cluster of three or more brokers its majority unless a docker start failed.
THEOREM FailoverVerdictHolds == FailoverSpec => []FailoverVerdict
<1>1. FailoverInv => FailoverVerdict
  <2> SUFFICES ASSUME FailoverInv PROVE FailoverVerdict
    OBVIOUS
  <2>1. ServedWithoutTarget
    BY DEF FailoverInv, KilledInv, ServedWithoutTarget, FailoverPassed, FailoverChecks, DuringOutage
  <2>2. QuorumKept
    <3> SUFFICES ASSUME ~startFailed
                 PROVE  2 * Cardinality(alive) > Cardinality(Broker)
      BY DEF QuorumKept
    <3>1. Cardinality(Broker) \in Nat /\ Cardinality(Broker) > 2 /\ IsFiniteSet(Broker)
      BY BrokerAssumption, FS_CardinalityType
    <3>2. alive = Broker \/ alive = Broker \ {target}
      BY DEF FailoverInv, AliveInv
    <3>3. Cardinality(Broker \ {target}) = Cardinality(Broker) - 1
      BY <3>1, FS_RemoveElement DEF FailoverInv, AliveInv
    <3>4. CASE alive = Broker
      BY <3>1, <3>4
    <3>5. CASE alive = Broker \ {target}
      BY <3>1, <3>3, <3>5
    <3>6. QED
      BY <3>2, <3>4, <3>5
  <2>3. QED
    BY <2>1, <2>2 DEF FailoverVerdict
<1>2. QED
  BY <1>1, FailoverInvariance, PTL

-----------------------------------------------------------------------------
(* The runner.                                                             *)

ScenarioKey == {"fluentd", "kafka", "delta", "latency"}

Keys == {SCENARIOS} \cup {<<SCENARIOS[i]>> : i \in DOMAIN SCENARIOS}

Ran(key) == \E i \in DOMAIN results : results[i].key = key

ResultsInv ==
    /\ keys \in Keys
    /\ results \in Seq([key : ScenarioKey, passed : BOOLEAN]) /\ Len(results) <= Len(keys)
    /\ \A i \in DOMAIN results : results[i].key = keys[i]

\* While nothing failed and nobody interrupts, only the broker of the Kafka scenario and
\* the worker of the Delta scenario can have stayed down, and neither before its scenario.
DownInv ==
    code # 130 /\ (\A i \in DOMAIN results : results[i].passed) =>
        /\ down \subseteq Brokers \cup {"spark-worker"} /\ \A b, c \in down \cap Brokers : b = c
        /\ down \cap Brokers # {} => Ran("kafka")
        /\ Ran("latency") => "kafka-1" \notin down
        /\ "spark-worker" \in down => Ran("delta")

ReportInv ==
    /\ report # <<>> => report = results /\ Len(results) = Len(keys)
    /\ code = 0 => report # <<>> /\ \A i \in DOMAIN results : results[i].passed
    /\ code = 1 /\ report # <<>> => \E i \in DOMAIN results : ~results[i].passed

RunnerInv == ResultsInv /\ DownInv /\ ReportInv

\* A scenario is asked for once, and the latency scenario last.
LEMMA KeysFacts ==
    ASSUME NEW k \in Keys
    PROVE  /\ Len(k) \in Nat /\ DOMAIN k = 1..Len(k)
           /\ k \in Seq(ScenarioKey) /\ k = [j \in 1..Len(k) |-> k[j]]
           /\ \A i \in 1..Len(k) : k[i] \in ScenarioKey
           /\ \A i, j \in 1..Len(k) : k[i] = k[j] => i = j
           /\ \A i, j \in 1..Len(k) : k[i] = "latency" => j <= i
<1>1. CASE k = SCENARIOS
  <2>1. Len(k) = 4 /\ DOMAIN k = 1..4
    BY <1>1 DEF SCENARIOS
  <2>2. k[1] = "fluentd" /\ k[2] = "kafka" /\ k[3] = "delta" /\ k[4] = "latency"
    BY <1>1 DEF SCENARIOS
  <2>3. \A i \in 1..4 : i = 1 \/ i = 2 \/ i = 3 \/ i = 4
    OBVIOUS
  <2>4. k \in Seq(ScenarioKey)
    BY <1>1 DEF SCENARIOS, ScenarioKey
  <2>5. k = [j \in 1..Len(k) |-> k[j]]
    BY <2>4
  <2>6. QED
    BY <2>1, <2>2, <2>3, <2>4, <2>5 DEF ScenarioKey
<1>2. CASE \E i \in DOMAIN SCENARIOS : k = <<SCENARIOS[i]>>
  <2>1. PICK i \in DOMAIN SCENARIOS : k = <<SCENARIOS[i]>>
    BY <1>2
  <2>2. SCENARIOS[i] \in ScenarioKey
    BY DEF SCENARIOS, ScenarioKey
  <2>3. Len(k) = 1 /\ DOMAIN k = 1..1 /\ k[1] = SCENARIOS[i]
    BY <2>1, <2>2
  <2>4. k \in Seq(ScenarioKey)
    BY <2>1, <2>2
  <2>5. k = [j \in 1..Len(k) |-> k[j]]
    BY <2>4
  <2>6. QED
    BY <2>2, <2>3, <2>4, <2>5 DEF ScenarioKey
<1>3. QED
  BY <1>1, <1>2 DEF Keys

\* One more result.
LEMMA OneMoreResult ==
    ASSUME ResultsInv, Len(results) < Len(keys), NEW ok \in BOOLEAN,
           results' = Append(results, [key |-> keys[Len(results) + 1], passed |-> ok])
    PROVE  LET n == Len(results) + 1
           IN /\ n \in 1..Len(keys) /\ DOMAIN results = 1..n - 1
              /\ results' \in Seq([key : ScenarioKey, passed : BOOLEAN]) /\ Len(results') = n
              /\ DOMAIN results' = 1..n
              /\ \A i \in 1..n - 1 : i \in 1..n /\ results'[i] = results[i]
              /\ results'[n].key = keys[n] /\ results'[n].passed = ok
<1> DEFINE n == Len(results) + 1
<1> DEFINE r == [key |-> keys[n], passed |-> ok]
<1>1. keys \in Keys /\ results \in Seq([key : ScenarioKey, passed : BOOLEAN])
  BY DEF ResultsInv
<1>2. Len(keys) \in Nat /\ Len(results) \in Nat /\ DOMAIN results = 1..Len(results)
  BY <1>1, KeysFacts
<1>3. n \in 1..Len(keys) /\ n - 1 = Len(results)
  BY <1>2
<1>4. keys[n] \in ScenarioKey
  BY <1>1, <1>3, KeysFacts
<1>5. r \in [key : ScenarioKey, passed : BOOLEAN] /\ r.key = keys[n] /\ r.passed = ok
  BY <1>4
<1> HIDE DEF r
<1>6. results' = Append(results, r)
  BY DEF r
<1>7. /\ results' \in Seq([key : ScenarioKey, passed : BOOLEAN]) /\ Len(results') = n
      /\ results'[n] = r /\ DOMAIN results' = 1..n
      /\ \A i \in 1..Len(results) : results'[i] = results[i]
  BY <1>1, <1>2, <1>5, <1>6
<1>8. QED
  BY <1>2, <1>3, <1>5, <1>7

LEMMA ResultsKept ==
    ASSUME ResultsInv, [RunnerNext]_runnerVars
    PROVE  ResultsInv'
<1>1. ASSUME Len(results) < Len(keys), keys' = keys, NEW ok \in BOOLEAN,
             results' = Append(results, [key |-> keys[Len(results) + 1], passed |-> ok])
      PROVE  ResultsInv'
  <2> DEFINE n == Len(results) + 1
  <2>1. Len(results') = n /\ n \in 1..Len(keys) /\ DOMAIN results' = 1..n /\ n \in Nat
    BY <1>1, OneMoreResult
  <2>2. Len(results') <= Len(keys')
    BY <1>1, <2>1
  <2>3. \A i \in DOMAIN results' : results'[i].key = keys[i]
    <3>1. ASSUME NEW i \in 1..n PROVE results'[i].key = keys[i]
      <4>1. CASE i = n
        BY <1>1, <4>1, OneMoreResult
      <4>2. CASE i # n
        <5>1. i \in 1..n - 1
          BY <2>1, <4>2
        <5>2. QED
          BY <1>1, <5>1, OneMoreResult DEF ResultsInv
      <4>3. QED
        BY <4>1, <4>2
    <3>2. QED
      BY <2>1, <3>1
  <2>4. QED
    BY <1>1, <2>2, <2>3, OneMoreResult DEF ResultsInv
<1>2. CASE RunScenario
  BY <1>1, <1>2 DEF RunScenario
<1>3. CASE ScenarioRaises
  BY <1>1, <1>3 DEF ScenarioRaises
<1>4. CASE SaveReport \/ Exit \/ Interrupt \/ UNCHANGED runnerVars
  BY <1>4 DEF SaveReport, Exit, Interrupt, runnerVars, ResultsInv
<1>5. QED
  BY <1>2, <1>3, <1>4 DEF RunnerNext

LEMMA DownKept ==
    ASSUME ResultsInv, DownInv, [RunnerNext]_runnerVars
    PROVE  DownInv'
<1> DEFINE n == Len(results) + 1
<1>1. CASE RunScenario
  <2> DEFINE key == keys[n]
  <2>1. PICK stopped \in {{}} \cup {{c} : c \in Stops(key)}, restarted \in BOOLEAN, fine \in BOOLEAN,
             lost \in SUBSET RestartsUnseen(key) :
           /\ down' = ((IF restarted THEN down \ stopped ELSE down \cup stopped)
                          \ RestartsUnseen(key)) \cup lost
           /\ results' = Append(results,
                 [key |-> key,
                  passed |-> /\ fine /\ Needs(key) \cap down = {}
                             /\ Stops(key) # {} => stopped # {}
                             /\ ChecksRestart(key) => restarted])
    BY <1>1 DEF RunScenario
  <2> DEFINE ok == /\ fine /\ Needs(key) \cap down = {}
                   /\ Stops(key) # {} => stopped # {}
                   /\ ChecksRestart(key) => restarted
  <2>2. ok \in BOOLEAN /\ Len(results) < Len(keys)
    BY <1>1 DEF RunScenario
  <2>3. /\ n \in 1..Len(keys) /\ DOMAIN results = 1..n - 1 /\ DOMAIN results' = 1..n
        /\ \A i \in 1..n - 1 : i \in 1..n /\ results'[i] = results[i]
        /\ results'[n].key = key /\ results'[n].passed = ok
    BY <2>1, <2>2, OneMoreResult
  <2>4. SUFFICES ASSUME \A i \in DOMAIN results' : results'[i].passed
                 PROVE  /\ down' \subseteq Brokers \cup {"spark-worker"}
                        /\ \A b, c \in down' \cap Brokers : b = c
                        /\ down' \cap Brokers # {} => Ran("kafka")'
                        /\ Ran("latency")' => "kafka-1" \notin down'
                        /\ "spark-worker" \in down' => Ran("delta")'
    BY DEF DownInv
  <2>5. n \in 1..n /\ \A i \in 1..n : i = n \/ i \in 1..n - 1
    BY <2>3
  <2>6. ok /\ code # 130 /\ \A i \in DOMAIN results : results[i].passed
    <3>1. code # 130
      BY <1>1 DEF RunScenario, Running
    <3>2. ok /\ \A i \in DOMAIN results : results[i].passed
      BY <2>3, <2>4, <2>5
    <3>3. QED
      BY <3>1, <3>2
  <2>7. /\ down \subseteq Brokers \cup {"spark-worker"} /\ \A b, c \in down \cap Brokers : b = c
        /\ down \cap Brokers # {} => Ran("kafka")
        /\ "spark-worker" \in down => Ran("delta")
    BY <2>6 DEF DownInv
  <2>8. \A k : Ran(k)' <=> Ran(k) \/ key = k
    BY <2>3, <2>5 DEF Ran
  <2>9. \A i \in 1..n - 1 : i \in 1..Len(keys) /\ i < n /\ results[i].key = keys[i]
    BY <2>3, KeysFacts DEF ResultsInv
  <2>10. ~Ran(key) /\ ~Ran("latency")
    <3>1. \A i \in 1..n - 1 : keys[i] # key /\ keys[i] # "latency"
      BY <2>3, <2>9, KeysFacts DEF ResultsInv
    <3>2. QED
      BY <2>3, <2>9, <3>1 DEF Ran
  <2>11. key \in {"fluentd", "kafka", "delta", "latency"}
    BY <2>3, KeysFacts DEF ResultsInv, ScenarioKey
  <2>12. "spark-worker" \notin Brokers
    BY DEF Brokers
  <2> HIDE DEF key
  <2>13. CASE key = "fluentd"
    <3>1. restarted /\ lost = {}
      BY <2>1, <2>6, <2>13 DEF ChecksRestart, RestartsUnseen
    <3>2. down' \subseteq down
      BY <2>1, <3>1
    <3>3. QED
      BY <2>7, <2>8, <2>10, <2>13, <3>2
  <2>14. CASE key = "delta"
    <3>1. restarted /\ lost \subseteq {"spark-worker"}
      BY <2>1, <2>6, <2>14 DEF ChecksRestart, RestartsUnseen
    <3>2. down' \subseteq down \cup {"spark-worker"}
      BY <2>1, <3>1
    <3>3. down' \cap Brokers \subseteq down \cap Brokers
      BY <2>12, <3>2
    <3>4. Ran("delta")' /\ ~Ran("latency")'
      BY <2>8, <2>10, <2>14
    <3>5. QED
      BY <2>7, <2>8, <3>2, <3>3, <3>4
  <2>15. CASE key = "kafka"
    <3>1. down \cap Brokers = {} /\ lost = {}
      BY <2>1, <2>7, <2>10, <2>15 DEF RestartsUnseen
    <3>2. stopped = {} \/ \E c \in Brokers : stopped = {c}
      BY <2>1, <2>15 DEF Stops
    <3>3. down' \subseteq down \cup stopped
      BY <2>1, <3>1
    <3>4. down' \subseteq Brokers \cup {"spark-worker"} /\ \A b, c \in down' \cap Brokers : b = c
      BY <2>7, <3>1, <3>2, <3>3
    <3>5. "spark-worker" \in down' => Ran("delta")'
      BY <2>7, <2>8, <2>12, <3>2, <3>3
    <3>6. QED
      BY <2>8, <2>10, <2>15, <3>4, <3>5
  <2>16. CASE key = "latency"
    <3>1. stopped = {} /\ lost = {} /\ RestartsUnseen(key) = {} /\ "kafka-1" \notin down
      BY <2>1, <2>6, <2>16 DEF Stops, Needs, RestartsUnseen
    <3>2. down' = down
      BY <2>1, <3>1
    <3>3. QED
      BY <2>7, <2>8, <3>1, <3>2
  <2>17. QED
    BY <2>11, <2>13, <2>14, <2>15, <2>16
<1>2. CASE ScenarioRaises
  <2>1. /\ Len(results) < Len(keys)
        /\ results' = Append(results, [key |-> keys[n], passed |-> FALSE])
    BY <1>2 DEF ScenarioRaises
  <2>2. n \in 1..n /\ DOMAIN results' = 1..n /\ ~results'[n].passed
    BY <2>1, OneMoreResult
  <2>3. QED
    BY <2>2 DEF DownInv
<1>3. CASE Interrupt
  BY <1>3 DEF Interrupt, DownInv
<1>4. CASE SaveReport \/ Exit \/ UNCHANGED runnerVars
  BY <1>4 DEF SaveReport, Exit, Running, runnerVars, DownInv, Ran
<1>5. QED
  BY <1>1, <1>2, <1>3, <1>4 DEF RunnerNext

LEMMA ReportKept ==
    ASSUME ResultsInv, ReportInv, [RunnerNext]_runnerVars
    PROVE  ReportInv'
<1>1. CASE RunScenario \/ ScenarioRaises
  <2>1. /\ Len(results) < Len(keys) /\ code = 256 /\ code' = code /\ report' = report
    BY <1>1 DEF RunScenario, ScenarioRaises, Running
  <2>2. report = <<>>
    BY <2>1, KeysFacts DEF ReportInv, ResultsInv
  <2>3. QED
    BY <2>1, <2>2 DEF ReportInv
<1>2. CASE SaveReport
  BY <1>2 DEF SaveReport, Running, ReportInv
<1>3. CASE Exit
  BY <1>3 DEF Exit, Running, ReportInv
<1>4. CASE Interrupt \/ UNCHANGED runnerVars
  BY <1>4 DEF Interrupt, runnerVars, Running, ReportInv
<1>5. QED
  BY <1>1, <1>2, <1>3, <1>4 DEF RunnerNext

\* The invariant of the runner.
THEOREM RunnerInvariance == RunnerSpec => []RunnerInv
<1>1. RunnerInit => RunnerInv
  <2> SUFFICES ASSUME RunnerInit PROVE RunnerInv
    OBVIOUS
  <2>1. ResultsInv
    BY KeysFacts DEF RunnerInit, ResultsInv, Keys
  <2>2. DownInv
    BY DEF RunnerInit, DownInv, Ran
  <2>3. ReportInv
    BY DEF RunnerInit, ReportInv, Running
  <2>4. QED
    BY <2>1, <2>2, <2>3 DEF RunnerInv
<1>2. RunnerInv /\ [RunnerNext]_runnerVars => RunnerInv'
  BY ResultsKept, DownKept, ReportKept DEF RunnerInv
<1>3. QED
  BY <1>1, <1>2, PTL DEF RunnerSpec

\* Exit code 0 vouches for the stack but for a broker and spark-worker, the containers
\* whose start nobody looks at; a report names every scenario asked for, in order, and
\* agrees with the exit code.
THEOREM RunnerVerdictHolds == RunnerSpec => []RunnerVerdict
<1>1. RunnerInv => RunnerVerdict
  <2> SUFFICES ASSUME RunnerInv PROVE RunnerVerdict
    OBVIOUS
  <2>1. /\ keys \in Keys /\ Len(keys) \in Nat /\ DOMAIN keys = 1..Len(keys)
        /\ results \in Seq([key : ScenarioKey, passed : BOOLEAN])
        /\ DOMAIN results = 1..Len(results) /\ Len(results) <= Len(keys)
        /\ \A i \in DOMAIN results : results[i].key = keys[i]
    BY KeysFacts DEF RunnerInv, ResultsInv
  <2>2. \A k : Ran(k) => Contains(keys, k)
    <3>1. \A i \in DOMAIN results : i \in DOMAIN keys
      BY <2>1
    <3>2. QED
      BY <2>1, <3>1 DEF Contains, Ran
  <2>3. SuccessRestores
    <3> SUFFICES ASSUME code = 0
                 PROVE  /\ down \subseteq Brokers \cup {"spark-worker"}
                        /\ \A b, c \in down \cap Brokers : b = c
                        /\ down \cap Brokers # {} => Contains(keys, "kafka")
                        /\ Contains(keys, "latency") => "kafka-1" \notin down
                        /\ "spark-worker" \in down => Contains(keys, "delta")
      BY DEF SuccessRestores
    <3>1. Len(results) = Len(keys) /\ \A i \in DOMAIN results : results[i].passed
      BY DEF RunnerInv, ReportInv
    <3>2. Contains(keys, "latency") => Ran("latency")
      BY <2>1, <3>1 DEF Contains, Ran
    <3>3. code # 130 /\ DownInv
      BY DEF RunnerInv
    <3>4. QED
      BY <2>2, <3>1, <3>2, <3>3 DEF DownInv
  <2>4. ReportComplete
    <3>1. ASSUME report # <<>>
          PROVE  [i \in DOMAIN report |-> report[i].key] \in Keys
      <4>1. report = results /\ Len(results) = Len(keys)
        BY <3>1 DEF RunnerInv, ReportInv
      <4>2. [i \in DOMAIN report |-> report[i].key] = [i \in 1..Len(keys) |-> keys[i]]
        BY <2>1, <4>1
      <4>3. keys = [i \in 1..Len(keys) |-> keys[i]]
        BY <2>1, KeysFacts
      <4>4. QED
        BY <2>1, <4>2, <4>3
    <3>2. code = 0 => report # <<>> /\ \A i \in DOMAIN report : report[i].passed
      BY DEF RunnerInv, ReportInv
    <3>3. code = 1 /\ report # <<>> => \E i \in DOMAIN report : ~report[i].passed
      BY DEF RunnerInv, ReportInv
    <3>4. QED
      BY <3>1, <3>2, <3>3 DEF ReportComplete, Keys
  <2>5. QED
    BY <2>3, <2>4 DEF RunnerVerdict
<1>2. QED
  BY <1>1, RunnerInvariance, PTL

=============================================================================
