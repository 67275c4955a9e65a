------------------------------- MODULE MCChaos --------------------------------
(***************************************************************************)
(* The chaos suite for TLC: chaos_runner.py and three scenarios, each on   *)
(* a small instance of the part of the stack it disturbs.  A behaviour is  *)
(* that of one of them, `key`, as with chaos_runner.py --scenario; the     *)
(* others stand still in an initial state.  The scenario about Fluentd runs*)
(* on the whole of Ingestion, in MCIngestion.                              *)
(***************************************************************************)
EXTENDS DeltaSafety, KafkaFailover, LatencyProbe, ChaosRunner

VARIABLE key \* what is run

\* Two of the three tables: the sink of the job and another one.
LakeTables == <<"raw_logs", "processed_logs">>

-----------------------------------------------------------------------------
Init == /\ key \in {"kafka", "delta", "latency", "all"}
        /\ FailoverInit /\ ScenarioInit /\ ProbeInit /\ RunnerInit
        /\ key # "kafka" => controller = 1 /\ leader = 1
        /\ key # "latency" => ~library /\ ~replaying /\ ~stored
        /\ key # "all" => Len(keys) > 1

Next ==
    /\ \/ /\ key = "kafka" /\ FailoverNext
          /\ UNCHANGED <<deltaVars, probeVars, runnerVars>>
       \/ /\ key = "delta" /\ ScenarioNext
          /\ UNCHANGED <<failoverVars, probeVars, runnerVars>>
       \/ /\ key = "latency" /\ ProbeNext
          /\ UNCHANGED <<failoverVars, deltaVars, runnerVars>>
       \/ /\ key = "all" /\ RunnerNext
          /\ UNCHANGED <<failoverVars, deltaVars, probeVars>>
    /\ UNCHANGED key

vars == <<key, failoverVars, deltaVars, probeVars, runnerVars>>

Of(k, A) == key = k /\ A

\* The fairness of each module, for the behaviours that are its own.
Spec ==
    /\ Init /\ [][Next]_vars
    /\ WF_failoverVars(Of("kafka", Elect))
    /\ WF_failoverVars(Of("kafka", FailoverScript))
    /\ \A b \in Broker : /\ WF_failoverVars(Of("kafka", Fence(b)))
                         /\ WF_failoverVars(Of("kafka", CatchUp(b)))
    /\ WF_probeVars(Of("latency", ProbeScript))

-----------------------------------------------------------------------------
\* KafkaFailover: the cluster is whole again after the last run; LatencyProbe: with
\* kafka-python its scenario ends although the topic is never silent.
EndsWell == /\ key = "kafka" => Heals
            /\ key = "latency" => RunEnds

=============================================================================
