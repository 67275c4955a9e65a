----------------------------- MODULE FluentdCrash -----------------------------
(***************************************************************************)
(* The chaos scenario chaos/scenarios/fluentd_crash.py on the pipeline of  *)
(* Ingestion: it reads the end offset of system-logs, stops the agent,     *)
(* waits, starts it again and polls the offset until it has grown.         *)
(***************************************************************************)
EXTENDS Ingestion

CONSTANT MaxFaults \* bound: how many docker commands of the scenario fail

Checks == {"fluentd_stopped_cleanly", "buffer_files_present_during_outage",
           "fluentd_restarted_cleanly", "kafka_offset_grew_after_recovery"}

VARIABLES
    pc,       \* the step of run() that comes next
    checks,   \* the checks that are True
    before,   \* offset_before
    byHand,   \* whether the container was stopped by hand, so is not restarted
    downSeen, \* history: whether the agent was down when the sleep was over
    faults    \* how many commands failed

scriptVars == <<pc, checks, before, byHand, downSeen, faults>>
allVars == <<vars, scriptVars>>

\* _get_kafka_offset: how many records the partitions of the topic have.
Records == UNION {{p} \X (1..topic[p]) : p \in Position}
Total   == Cardinality(Records)

Fault == faults < MaxFaults /\ faults' = faults + 1

Check(c) == checks' = checks \cup {c}

-----------------------------------------------------------------------------
\* Without a baseline the scenario gives up.
ReadBaseline ==
    /\ pc = "baseline"
    /\ \/ pc' = "stop" /\ before' = Total /\ UNCHANGED faults
       \/ pc' = "done" /\ Fault /\ UNCHANGED before
    /\ UNCHANGED <<vars, checks, byHand, downSeen>>

\* Mutant of StopAgent: the result of docker stop is not looked at.
StopAgentAnyhow ==
    /\ pc = "stop" /\ pc' = "outage"
    /\ Check("fluentd_stopped_cleanly")
    /\ \/ byHand' = TRUE /\ (IF up THEN Die ELSE UNCHANGED vars) /\ UNCHANGED <<ncrashes, faults>>
       \/ Fault /\ UNCHANGED <<vars, byHand>>
    /\ UNCHANGED <<before, downSeen>>

\* docker stop.
StopAgent ==
    /\ pc = "stop" /\ pc' = "outage"
    /\ \/ /\ byHand' = TRUE /\ Check("fluentd_stopped_cleanly")
          /\ (IF up THEN Die ELSE UNCHANGED vars) /\ UNCHANGED <<ncrashes, faults>>
       \/ Fault /\ UNCHANGED <<vars, checks, byHand>>
    /\ UNCHANGED <<before, downSeen>>

\* The sleep is over; the look at the buffer directory returns True either way.
EndOutage ==
    /\ pc = "outage" /\ pc' = "start"
    /\ Check("buffer_files_present_during_outage")
    /\ downSeen' = ~up
    /\ UNCHANGED <<vars, before, byHand, faults>>

\* docker start, without effect on a container that runs.
StartByHand ==
    /\ pc = "start" /\ pc' = "poll"
    /\ \/ /\ byHand' = FALSE /\ Check("fluentd_restarted_cleanly")
          /\ (IF up THEN UNCHANGED vars ELSE StartAgent) /\ UNCHANGED faults
       \/ Fault /\ UNCHANGED <<vars, checks, byHand>>
    /\ UNCHANGED <<before, downSeen>>

Grew == Total > before

\* A poll that sees the offset above the baseline ends the wait.
PollGrown ==
    /\ pc = "poll" /\ pc' = "done" /\ Grew
    /\ Check("kafka_offset_grew_after_recovery")
    /\ UNCHANGED <<vars, before, byHand, downSeen, faults>>

\* The last poll before the deadline saw no growth, or could not read the offset.
PollTimesOut ==
    /\ pc = "poll" /\ pc' = "done"
    /\ \/ ~Grew /\ UNCHANGED faults
       \/ Fault
    /\ UNCHANGED <<vars, checks, before, byHand, downSeen>>

Script == \/ ReadBaseline \/ StopAgent \/ EndOutage \/ StartByHand
          \/ PollGrown \/ PollTimesOut

\* Docker restarts the agent after a crash, not after docker stop.
Pipeline == /\ \/ Replay \/ Agent \/ CrashAgent
               \/ StartAgent /\ ~byHand
               \/ \E i \in 1..FlushThreads : FlushFails(i)
            /\ UNCHANGED scriptVars

ScenarioInit == /\ Init
                /\ pc = "baseline" /\ checks = {} /\ before = 0 /\ byHand = FALSE
                /\ downSeen = FALSE /\ faults = 0

ScenarioNext == Pipeline \/ Script

ScenarioSpec == ScenarioInit /\ [][ScenarioNext]_allVars

\* As in Ingestion: the agent's threads go on, and Docker restarts a crashed agent.
Emits          == EmitLine /\ UNCHANGED scriptVars
Enqueues       == EnqueueStage /\ UNCHANGED scriptVars
Flushes        == Flush /\ UNCHANGED scriptVars
DockerRestarts == StartAgent /\ ~byHand /\ UNCHANGED scriptVars

ScenarioFairSpec == /\ ScenarioSpec
                    /\ WF_allVars(Emits) /\ WF_allVars(Enqueues) /\ WF_allVars(Flushes)
                    /\ WF_allVars(DockerRestarts)

-----------------------------------------------------------------------------
(* Properties.                                                             *)

Passed == pc = "done" /\ checks = Checks

\* run() passes only if the agent was down when the outage ended and lines were
\* produced since the baseline, and fails only if a command failed or the last poll saw
\* the very offset of the baseline: no mix of failed commands, crashes and restarts by
\* Docker yields the four checks, or keeps them away, otherwise (fluentd_crash.py:163-174).
FluentdVerdict ==
    [][pc = "poll" /\ pc' = "done" =>
          IF checks' = Checks THEN downSeen /\ Total > before
                              ELSE faults' > 0 \/ Total = before]_allVars

\* After a pass every line then in the log file is produced in the end: the
\* criterion "messages not permanently lost" in its strong reading.
RecoversFully ==
    \A p \in Position : (Passed /\ p \in DOMAIN file /\ Matches(p)) ~> p \in Produced

=============================================================================
