------------------------------ MODULE Lakehouse -------------------------------
(***************************************************************************)
(* The Delta tables of the lakehouse: scripts/init_lakehouse.py creates the*)
(* ones that are missing while the streaming job appends to one of them.   *)
(* A row is the number of the append that wrote it.                        *)
(***************************************************************************)
EXTENDS Integers, Sequences, FiniteSets, Functions

CONSTANTS TABLES,     \* the tables, all different, in the order main() takes them
          Sink,       \* of these the one the streaming job appends to: processed_logs
          MaxAppends, \* bound: how many batches the job appends
          MaxRuns,    \* bound: how often the script is run
          MaxFailures \* bound: how many calls of the script fail

Table == Range(TABLES)

ASSUME TablesAssumption == TABLES \in Seq(Table) /\ Sink \in Table

VARIABLES
    version,   \* the version of each table, -1 without a table
    rows,      \* the rows of its latest version
    appends,   \* how many batches were appended
    step,      \* what the script does next: "check", "write" or "verify" a table
    at,        \* the index of that table
    errors,    \* the tables that failed
    exit,      \* the exit code of the last run, -1 without one
    raced,     \* history: rows appended between a check and the write
    initRuns, failures

tableVars == <<version, rows, appends, raced>>
initVars  == <<step, at, errors, exit, initRuns, failures>>
lakeVars  == <<tableVars, initVars>>

Exists(t) == version[t] >= 0

\* _write_delta: mode("append") creates the table if need be.
AppendBatch ==
    /\ appends < MaxAppends /\ appends' = appends + 1
    /\ version' = [version EXCEPT ![Sink] = @ + 1]
    /\ rows' = [rows EXCEPT ![Sink] = @ \cup {appends'}]
    /\ raced' = IF step = "write" /\ TABLES[at] = Sink THEN raced \cup {appends'} ELSE raced
    /\ UNCHANGED initVars

StartInit == /\ step = "idle" /\ initRuns < MaxRuns
             /\ initRuns' = initRuns + 1
             /\ step' = "check" /\ at' = 1 /\ errors' = {} /\ exit' = -1
             /\ UNCHANGED <<tableVars, failures>>

\* No SparkSession can be had: the run ends with code 1, or with an exception, before
\* it looks at a table.
SessionFails ==
    /\ step = "idle" /\ initRuns < MaxRuns /\ initRuns' = initRuns + 1
    /\ failures < MaxFailures /\ failures' = failures + 1
    /\ errors' = {} /\ exit' = 1
    /\ UNCHANGED <<tableVars, step, at>>

\* On to the next table, or to the exit code.
NextTable(errs) ==
    /\ errors' = errs
    /\ IF at < Len(TABLES)
       THEN step' = "check" /\ at' = at + 1 /\ UNCHANGED exit
       ELSE step' = "idle" /\ exit' = (IF errs = {} THEN 0 ELSE 1) /\ UNCHANGED at

\* A call for this table raises; main() collects the table and goes on.
StepFails ==
    /\ step \in {"check", "write", "verify"}
    /\ failures < MaxFailures /\ failures' = failures + 1
    /\ NextTable(errors \cup {TABLES[at]})
    /\ UNCHANGED <<tableVars, initRuns>>

\* Mutant of CheckTable: every table is created anew.
CheckNothing ==
    /\ step = "check" /\ step' = "write"
    /\ UNCHANGED <<tableVars, at, errors, exit, initRuns, failures>>

\* DeltaTable.isDeltaTable.
CheckTable ==
    /\ step = "check"
    /\ step' = IF Exists(TABLES[at]) THEN "verify" ELSE "write"
    /\ UNCHANGED <<tableVars, at, errors, exit, initRuns, failures>>

\* mode("overwrite"), whatever the table holds by now.
WriteTable ==
    /\ step = "write" /\ step' = "verify"
    /\ version' = [version EXCEPT ![TABLES[at]] = @ + 1]
    /\ rows' = [rows EXCEPT ![TABLES[at]] = {}]
    /\ UNCHANGED <<appends, raced, at, errors, exit, initRuns, failures>>

VerifyTable ==
    /\ step = "verify"
    /\ NextTable(IF Exists(TABLES[at]) THEN errors ELSE errors \cup {TABLES[at]})
    /\ UNCHANGED <<tableVars, initRuns, failures>>

\* The script runs in the container spark-master and dies with it.
InitDies == /\ step' = "idle"
            /\ UNCHANGED <<tableVars, at, errors, exit, initRuns, failures>>

LakeInit == /\ version = [t \in Table |-> -1] /\ rows = [t \in Table |-> {}]
            /\ appends = 0 /\ raced = {}
            /\ step = "idle" /\ at = 1 /\ errors = {} /\ exit = -1
            /\ initRuns = 0 /\ failures = 0

InitScript == \/ StartInit \/ SessionFails \/ StepFails
              \/ CheckTable \/ WriteTable \/ VerifyTable

-----------------------------------------------------------------------------
(* Properties.                                                             *)

\* Rows the job appended are missing only if they were appended between a check
\* of init_lakehouse.py and its write: no rerun, crash or failure loses others, as
\* long as the commits of Delta are atomic.
LostOnlyRaced == (1..appends) \ rows[Sink] \subseteq raced

\* After exit code 0 every table is in place; after exit code 1 every table but those
\* reported as failed, if any is reported: a run that reports none had no SparkSession
\* and says nothing of the tables (init_lakehouse.py:151-178).
ExitTellsTables ==
    exit >= 0 => \A t \in Table : Exists(t) \/ (exit = 1 /\ (t \in errors \/ errors = {}))

\* What runs of the script, beside the job, do to the tables and say of them.
InitOutcome == LostOnlyRaced /\ ExitTellsTables

=============================================================================
