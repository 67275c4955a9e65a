----------------------------- MODULE MCIngestion ------------------------------
(***************************************************************************)
(* The ingestion of log lines for TLC, by itself and with fluentd_crash.py *)
(* beside it: a behaviour is that of one `part`.  The dataset has a line   *)
(* that the expression refuses and a blank one, and is replayed until the  *)
(* file has MaxFile lines.                                                 *)
(***************************************************************************)
EXTENDS FluentdCrash

VARIABLE part

MCDataset == <<"log", "blank", "odd", "log">>

\* Beside the script one thing goes wrong in the pipeline, a crash or a failed flush,
\* and one flush thread is enough.
Small == ncrashes' + nfailures' <= 1 /\ Len(sending') <= 1

IngestionInit == part \in {"pipeline", "scenario"} /\ ScenarioInit

IngestionNext ==
    /\ \/ part = "pipeline" /\ Next /\ UNCHANGED scriptVars
       \/ part = "scenario" /\ ScenarioNext /\ Small
    /\ UNCHANGED part

Of(p, A) == part = p /\ A

\* The fairness of each module, for the behaviours that are its own.
IngestionSpec ==
    /\ IngestionInit /\ [][IngestionNext]_<<part, allVars>>
    /\ WF_vars(Of("pipeline", EmitLine)) /\ WF_vars(Of("pipeline", EnqueueStage))
    /\ WF_vars(Of("pipeline", TakeChunk)) /\ WF_vars(Of("pipeline", StartAgent))
    /\ \A i \in 1..FlushThreads : /\ WF_vars(Of("pipeline", Acknowledge(i)))
                                  /\ WF_vars(Of("pipeline", PurgeChunk(i)))
    /\ WF_allVars(Of("scenario", Emits)) /\ WF_allVars(Of("scenario", Enqueues))
    /\ WF_allVars(Of("scenario", Flushes)) /\ WF_allVars(Of("scenario", DockerRestarts))

-----------------------------------------------------------------------------
\* Ingestion: every line of the file is produced in the end; FluentdCrash: so it is
\* after a pass, although the agent was stopped on the way (fluentd_crash.py:19,
\* "messages not permanently lost").
LinesArrive == /\ part = "pipeline" => EventuallyProduced
               /\ part = "scenario" => RecoversFully

=============================================================================
