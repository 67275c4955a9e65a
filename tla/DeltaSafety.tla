----------------------------- MODULE DeltaSafety ------------------------------
(***************************************************************************)
(* The chaos scenario chaos/scenarios/delta_safety.py on the lakehouse: it *)
(* reads version and row count of processed_logs, submits the streaming    *)
(* job, kills and starts spark-master, restarts spark-worker, looks for    *)
(* .tmp files and reads both again.  What needs executors waits while      *)
(* spark-worker is down.                                                   *)
(***************************************************************************)
EXTENDS Lakehouse

CONSTANT MaxFaults \* bound: how many commands of the scenario fail

Checks == {"delta_version_read_before", "spark_master_killed_during_write",
           "spark_master_restarted", "delta_table_not_corrupted",
           "no_uncommitted_tmp_files", "committed_row_count_intact"}

VARIABLES
    pc,           \* the step of run() that comes next
    master,       \* whether the container spark-master runs
    worker,       \* whether the container spark-worker runs
    drivers,      \* how many drivers of the streaming job run in spark-master
    before,       \* version_before and rows_before
    after,        \* version_after and rows_after
    checks,       \* the checks that are True
    rowsBefore,   \* history: the rows at the first reading
    rowsAfter,    \* history: the rows at the second reading
    faults

scenarioVars == <<pc, master, worker, drivers, before, after, checks, rowsBefore, rowsAfter, faults>>
deltaVars == <<lakeVars, scenarioVars>>

Fault == faults < MaxFaults /\ faults' = faults + 1

Unreadable == [version |-> -1, count |-> -1]

\* _get_delta_state, a spark-submit in the container: first the version of the table,
\* then the rows of what is its latest snapshot by then.  Any trouble gives -1, -1.
DeltaVersion(state) ==
    \/ /\ master /\ worker /\ Exists(Sink) /\ UNCHANGED faults
       /\ state = [version |-> version[Sink], count |-> -1]
    \/ ~(master /\ Exists(Sink)) /\ state = Unreadable /\ UNCHANGED faults
    \/ state = Unreadable /\ Fault

DeltaCount(v, state) ==
    \/ worker /\ state = [version |-> v, count |-> Cardinality(rows[Sink])] /\ UNCHANGED faults
    \/ state = Unreadable /\ Fault

Readings == {Unreadable} \cup [version : 0..MaxAppends + MaxRuns, count : -1..MaxAppends]

-----------------------------------------------------------------------------
\* An unreadable table counts as read, and as empty.
TakenAsRead(s) == IF s = Unreadable THEN [version |-> 0, count |-> 0] ELSE s

ReadBefore ==
    /\ \/ /\ pc = "before"
          /\ \E s \in Readings :
                /\ DeltaVersion(s) /\ before' = TakenAsRead(s)
                /\ pc' = IF s = Unreadable THEN "submit" ELSE "count before"
          /\ UNCHANGED rowsBefore
       \/ /\ pc = "count before" /\ pc' = "submit"
          /\ \E s \in Readings : DeltaCount(before.version, s) /\ before' = TakenAsRead(s)
          /\ rowsBefore' = rows[Sink]
    /\ checks' = {"delta_version_read_before"}
    /\ UNCHANGED <<lakeVars, master, worker, drivers, after, rowsAfter>>

\* The job is submitted in the background, one more driver if one runs already; nothing
\* looks at what becomes of it.
Submit ==
    /\ pc = "submit" /\ pc' = "kill"
    /\ \/ master /\ drivers' = drivers + 1 /\ UNCHANGED faults
       \/ Fault /\ UNCHANGED drivers
    /\ UNCHANGED <<lakeVars, master, worker, before, after, checks, rowsBefore, rowsAfter>>

\* docker kill: everything that runs in the container dies with it.
KillMaster ==
    /\ pc = "kill" /\ pc' = "start"
    /\ \/ /\ master /\ master' = FALSE /\ drivers' = 0 /\ UNCHANGED faults
          /\ InitDies
          /\ checks' = checks \cup {"spark_master_killed_during_write"}
       \/ Fault /\ UNCHANGED <<lakeVars, master, drivers, checks>>
    /\ UNCHANGED <<worker, before, after, rowsBefore, rowsAfter>>

\* docker start.
StartMaster ==
    /\ pc = "start" /\ pc' = "worker"
    /\ \/ /\ master' = TRUE /\ UNCHANGED faults
          /\ checks' = checks \cup {"spark_master_restarted"}
       \/ Fault /\ UNCHANGED <<master, checks>>
    /\ UNCHANGED <<lakeVars, worker, drivers, before, after, rowsBefore, rowsAfter>>

\* docker restart, whose result nobody looks at: it may stop the worker and not start it.
RestartWorker ==
    /\ pc = "worker" /\ pc' = "tmp"
    /\ \/ worker' = TRUE /\ UNCHANGED faults
       \/ worker' = FALSE /\ Fault
    /\ UNCHANGED <<lakeVars, master, drivers, before, after, checks, rowsBefore, rowsAfter>>

\* .tmp files are found in the log of the table, or none; a listing that fails says none.
LookForTmp ==
    /\ pc = "tmp" /\ pc' = "after"
    /\ checks' \in {checks, checks \cup {"no_uncommitted_tmp_files"}}
    /\ UNCHANGED <<lakeVars, master, worker, drivers, before, after, rowsBefore, rowsAfter, faults>>

\* Mutant of Intact: the rows are not compared.
IntactByVersion(b, a) == a.version >= b.version

Intact(b, a) == a.version >= b.version /\ a.count >= b.count

\* The verdict on a reading; an unreadable table passes.
Judge(s) == /\ pc' = "done"
            /\ checks' = IF Intact(before, s) \/ s = Unreadable
                         THEN checks \cup {"delta_table_not_corrupted", "committed_row_count_intact"}
                         ELSE checks

ReadAfter ==
    /\ \/ /\ pc = "after"
          /\ \E s \in Readings :
                /\ DeltaVersion(s) /\ after' = s
                /\ IF s = Unreadable THEN Judge(s) ELSE pc' = "count after" /\ UNCHANGED checks
          /\ UNCHANGED rowsAfter
       \/ /\ pc = "count after"
          /\ \E s \in Readings : DeltaCount(after.version, s) /\ after' = s /\ Judge(s)
          /\ rowsAfter' = rows[Sink]
    /\ UNCHANGED <<lakeVars, master, worker, drivers, before, rowsBefore>>

\* The operator submits the job again.
Resubmit ==
    /\ master /\ drivers = 0 /\ drivers' = 1
    /\ UNCHANGED <<lakeVars, pc, master, worker, before, after, checks, rowsBefore, rowsAfter, faults>>

\* Of two drivers on one checkpoint one finds a batch committed by the other and fails.
DriverFails ==
    /\ drivers > 1 /\ drivers' = drivers - 1
    /\ UNCHANGED <<lakeVars, pc, master, worker, before, after, checks, rowsBefore, rowsAfter, faults>>

ScenarioInit == /\ LakeInit
                /\ pc = "before" /\ master = TRUE /\ worker = TRUE /\ drivers = 0
                /\ before = Unreadable /\ after = Unreadable /\ checks = {}
                /\ rowsBefore = {} /\ rowsAfter = {} /\ faults = 0

Lake == /\ \/ drivers > 0 /\ worker /\ AppendBatch
           \/ master /\ (StartInit \/ SessionFails \/ CheckTable \/ StepFails)
           \/ master /\ worker /\ (WriteTable \/ VerifyTable)
        /\ UNCHANGED scenarioVars

Script == \/ ReadBefore \/ Submit \/ KillMaster \/ StartMaster
          \/ RestartWorker \/ LookForTmp \/ ReadAfter

ScenarioNext == Lake \/ Script \/ Resubmit \/ DriverFails

ScenarioSpec == ScenarioInit /\ [][ScenarioNext]_deltaVars

-----------------------------------------------------------------------------
(* Properties.                                                             *)

Passed == pc = "done" /\ checks = Checks

\* "Corruption detected!" is said only if rows of the first reading are gone: a
\* killed driver, a batch in flight or an unreadable table never raise it.
NoFalseAlarm == pc = "done" /\ "delta_table_not_corrupted" \notin checks
                   => ~(rowsBefore \subseteq rowsAfter)

\* With both readings made, a pass bounds the damage: no more rows of the first
\* reading are gone than were appended since.
LossBounded == Passed /\ after # Unreadable /\ before.count = Cardinality(rowsBefore)
                  => Cardinality(rowsBefore \ rowsAfter) <= Cardinality(rowsAfter \ rowsBefore)

\* What the verdict on the table says of its rows, whether it passes or fails.
DeltaVerdict == NoFalseAlarm /\ LossBounded

=============================================================================
