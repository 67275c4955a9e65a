--------------------------- MODULE StreamProcessor ---------------------------
(***************************************************************************)
(* The streaming job of src/src/processing/stream_processor.py: a Spark    *)
(* micro-batch query over the Kafka topic system-logs whose foreachBatch   *)
(* handler, BatchProcessor.process, scores each batch with a model trained *)
(* on the first batch of the process and then writes six sinks, one after  *)
(* the other, swallowing the failure of each.                              *)
(*                                                                         *)
(* The driver may die between any two steps.  What survives is the query's *)
(* checkpoint, the sinks and the saved models; the next driver re-runs the *)
(* batch that was planned and not committed, over the same offsets.        *)
(***************************************************************************)
EXTENDS Integers, Sequences, FiniteSets

CONSTANTS MaxLog,               \* how many records system-logs ever receives
          MaxOffsetsPerTrigger, \* upper bound on the records of one batch
          Parsed,               \* offsets whose record has a non-null message
          Undated,              \* offsets whose timestamp does not parse
          Component,            \* component names
          CompOf,               \* the component of each offset
          Label,                \* ground truth of each offset
          Flags,                \* what the model fitted on a set of rows flags
          MaxCrashes,           \* bound: how often the driver dies
          MaxFaults             \* bound: how many calls to a store fail

Offset == 1..MaxLog

ASSUME SizeAssumption  == MaxLog \in Nat /\ MaxOffsetsPerTrigger \in Nat \ {0}
ASSUME RowAssumption   == /\ Parsed \subseteq Offset
                          /\ Undated \subseteq Offset
                          /\ CompOf \in [Offset -> Component]
                          /\ Label \in [Offset -> {"normal", "anomaly", "none"}]
ASSUME ModelAssumption == Flags \in [SUBSET Offset -> SUBSET Offset]
ASSUME BoundAssumption == MaxCrashes \in Nat /\ MaxFaults \in Nat

Sinks == {"processed_logs", "critical_alerts", "batch_metrics",
          "anomaly_alerts_pg", "component_health", "model_metrics"}

Artefacts == {"nlp_pipeline", "kmeans_model"}

Training == {"fit", "save_nlp", "save_kmeans", "cluster"}

Steps == {"down", "idle", "read", "infer", "commit"} \cup Training \cup Sinks

Outcomes == {"running", "crashed", "empty", "untrained", "unscored", "written"}

VARIABLES
    logStart,     \* system-logs: offsets up to logStart have been deleted
    logEnd,       \* system-logs: the last offset written
    offsets,      \* checkpoint: start offset, then the end offset of each batch
    committed,    \* checkpoint: how many batches the commit log holds
    pc,           \* where the driver is
    model,        \* the rows the driver's model was fitted on, {} before
    saved,        \* the two artefacts under MODEL_BUCKET, each by the attempt
                  \* that fitted it, 0 when there is none
    health,       \* the table component_health
    modelMetrics, \* the table model_metrics
    stored,       \* for each sink, the <<attempt, offset>> pairs it has taken
    attempts,     \* history: every call of process, in order
    crashes,      \* history: how often the driver died
    nfaults       \* history: how many calls to a store failed

kafkaVars  == <<logStart, logEnd>>
checkpoint == <<offsets, committed>>
tables     == <<health, modelMetrics>>
vars == <<kafkaVars, checkpoint, pc, model, saved, tables, stored, attempts,
          crashes, nfaults>>

-----------------------------------------------------------------------------
(* Batches, attempts and what an attempt owes to each sink.                *)

Attempt == [batch : Nat, rows : SUBSET Offset, flagged : SUBSET Offset,
            faults : SUBSET (Sinks \cup {"saved_models"}), outcome : Outcomes]

Planned == Len(offsets) - 1

RangeOf(b) == {o \in Offset : offsets[b] < o /\ o <= offsets[b + 1]}

Cur == Len(attempts)

\* The rows a sink is to receive from attempt a.
Owed(s, a) ==
    CASE s \in {"critical_alerts", "anomaly_alerts_pg"} -> a.flagged
      [] s = "model_metrics" -> {o \in a.rows : Label[o] # "none"}
      [] OTHER -> a.rows

Finish(how) == attempts' = [attempts EXCEPT ![Cur].outcome = how]

\* The attempt ends with the driver.
CutOff(faults) ==
    attempts' = [attempts EXCEPT ![Cur].outcome = "crashed", ![Cur].faults = @ \cup faults]

Put(s, P) == stored' = [stored EXCEPT ![s] = @ \cup ({Cur} \X P)]

Succeeds(s) == Put(s, Owed(s, attempts[Cur])) /\ UNCHANGED attempts

\* The call raises, having left P behind; the exception is logged and dropped.
Fails(s, P) == /\ Put(s, P)
               /\ attempts' = [attempts EXCEPT ![Cur].faults = @ \cup {s}]

Fault == nfaults < MaxFaults /\ nfaults' = nfaults + 1

-----------------------------------------------------------------------------
(* Kafka: the topic system-logs.                                           *)

Produce == /\ logEnd < MaxLog
           /\ logEnd' = logEnd + 1
           /\ UNCHANGED <<logStart, checkpoint, pc, model, saved, tables,
                          stored, attempts, crashes, nfaults>>

\* Retention (24 h) deletes the oldest record.
Expire == /\ logStart < logEnd
          /\ logStart' = logStart + 1
          /\ UNCHANGED <<logEnd, checkpoint, pc, model, saved, tables,
                         stored, attempts, crashes, nfaults>>

-----------------------------------------------------------------------------
(* The micro-batch engine, as main() configures it.                        *)

StartAt(first, rerun) ==
    /\ pc = "down"
    /\ offsets' = IF offsets = <<>> THEN <<first>> ELSE offsets
    /\ pc' = IF rerun THEN "read" ELSE "idle"
    /\ model' = {}
    /\ UNCHANGED <<kafkaVars, committed, saved, tables, stored, attempts,
                   crashes, nfaults>>

\* Mutants of Start: "latest" off by one; the last committed batch is re-run.
StartPastEnd == StartAt(logEnd + 1, Planned > committed)
StartRerunsCommitted == StartAt(logEnd, Planned > 0)

\* A new driver has no model.  The first one ever starts at the end of the log
\* (startingOffsets latest); a later one first re-runs a planned batch.
Start == StartAt(logEnd, Planned > committed)

\* A trigger that finds new records logs the end offset before it calls process.
PlanUpTo(enough) ==
    /\ pc = "idle"
    /\ LET last == offsets[Len(offsets)] IN
       /\ last + enough <= logEnd
       /\ offsets' = Append(offsets, IF logEnd <= last + MaxOffsetsPerTrigger
                                     THEN logEnd
                                     ELSE last + MaxOffsetsPerTrigger)
    /\ pc' = "read"
    /\ UNCHANGED <<kafkaVars, committed, model, saved, tables, stored, attempts,
                   crashes, nfaults>>

\* Mutant of PlanBatch: a trigger waits for a full batch.
PlanFullBatch == PlanUpTo(MaxOffsetsPerTrigger)

PlanBatch == PlanUpTo(1)

\* process has returned, whatever it did: the batch is committed.
CommitBatch ==
    /\ pc = "commit"
    /\ committed' = committed + 1
    /\ pc' = "idle"
    /\ UNCHANGED <<kafkaVars, offsets, model, saved, tables, stored, attempts,
                   crashes, nfaults>>

\* The driver is killed, or an exception leaves process (batch_df.count()).
\* A crash half-way through a sink's write is that write failing, then Crash; one
\* between the two artefacts of a model is on record as a failure to save them.
Crash ==
    /\ pc # "down"
    /\ crashes < MaxCrashes
    /\ crashes' = crashes + 1
    /\ pc' = "down"
    /\ model' = {}
    /\ IF pc \in {"idle", "read"}
       THEN UNCHANGED attempts
       ELSE CutOff(IF pc = "save_kmeans" THEN {"saved_models"} ELSE {})
    /\ UNCHANGED <<kafkaVars, checkpoint, saved, tables, stored, nfaults>>

-----------------------------------------------------------------------------
(* process: count, train or reuse the model, score.                        *)

\* Expired offsets are skipped (failOnDataLoss false), null messages filtered.
ReadBatch ==
    /\ pc = "read"
    /\ LET rows == {o \in RangeOf(Planned) \cap Parsed : o > logStart} IN
       /\ attempts' = Append(attempts,
              [batch |-> Planned, rows |-> rows, flagged |-> {}, faults |-> {},
               outcome |-> IF rows = {} THEN "empty" ELSE "running"])
       /\ pc' = IF rows = {} THEN "commit"
                ELSE IF model = {} THEN "fit" ELSE "infer"
    /\ UNCHANGED <<kafkaVars, checkpoint, model, saved, tables, stored,
                   crashes, nfaults>>

\* Training raises before the model is kept: process returns early.
TrainingFails ==
    /\ pc \in {"fit", "cluster"}
    /\ Fault
    /\ Finish("untrained")
    /\ pc' = "commit"
    /\ UNCHANGED <<kafkaVars, checkpoint, model, saved, tables, stored, crashes>>

Fit == /\ pc = "fit"
       /\ pc' = "save_nlp"
       /\ UNCHANGED <<kafkaVars, checkpoint, model, saved, tables, stored,
                      attempts, crashes, nfaults>>

\* overwrite() deletes the old artefact, then writes the new one.
Save(artefact, step, next) ==
    /\ pc = step
    /\ \/ /\ saved' = [saved EXCEPT ![artefact] = Cur]
          /\ pc' = next
          /\ UNCHANGED <<attempts, nfaults>>
       \/ /\ Fault
          /\ \E left \in {saved[artefact], 0} :
                saved' = [saved EXCEPT ![artefact] = left]
          /\ attempts' = [attempts EXCEPT ![Cur].faults = @ \cup {"saved_models"}]
          /\ pc' = "cluster"
    /\ UNCHANGED <<kafkaVars, checkpoint, model, tables, stored, crashes>>

\* Mutant of SaveNlp: the second artefact is forgotten.
SaveNlpOnly == Save("nlp_pipeline", "save_nlp", "cluster")

SaveNlp    == Save("nlp_pipeline", "save_nlp", "save_kmeans")
SaveKMeans == Save("kmeans_model", "save_kmeans", "cluster")

\* train_model picks the anomaly cluster and returns; the model is kept.
KeepModel ==
    /\ pc = "cluster"
    /\ model' = attempts[Cur].rows
    /\ pc' = "infer"
    /\ UNCHANGED <<kafkaVars, checkpoint, saved, tables, stored, attempts,
                   crashes, nfaults>>

Infer ==
    /\ pc = "infer"
    /\ \/ /\ attempts' = [attempts EXCEPT ![Cur].flagged =
                              attempts[Cur].rows \cap Flags[model]]
          /\ pc' = "processed_logs"
          /\ UNCHANGED nfaults
       \/ /\ Fault
          /\ Finish("unscored")
          /\ pc' = "commit"
    /\ UNCHANGED <<kafkaVars, checkpoint, model, saved, tables, stored, crashes>>

-----------------------------------------------------------------------------
(* process: the six sinks, in the order of the code.                       *)

\* Mutant of WriteDelta: the writer is built and never saved.
WriteDeltaUnsaved ==
    /\ pc = "processed_logs"
    /\ pc' = "critical_alerts"
    /\ UNCHANGED <<kafkaVars, checkpoint, model, saved, tables, stored, attempts,
                   crashes, nfaults>>

\* A Delta append is one transaction; the call may still raise after it.
WriteDelta ==
    /\ pc = "processed_logs"
    /\ \/ Succeeds("processed_logs") /\ UNCHANGED nfaults
       \/ Fault /\ \E P \in {{}, attempts[Cur].rows} : Fails("processed_logs", P)
    /\ pc' = "critical_alerts"
    /\ UNCHANGED <<kafkaVars, checkpoint, model, saved, tables, crashes>>

\* Mutant of PublishAlerts: acks is 0, and a record Kafka did not take goes unnoticed.
PublishUnacknowledged ==
    /\ pc = "critical_alerts"
    /\ \E P \in SUBSET attempts[Cur].flagged : Put("critical_alerts", P)
    /\ pc' = "batch_metrics"
    /\ UNCHANGED <<kafkaVars, checkpoint, model, saved, tables, attempts, crashes,
                   nfaults>>

\* Records are produced one by one: a failure may leave any of them behind.
PublishAlerts ==
    /\ pc = "critical_alerts"
    /\ \/ Succeeds("critical_alerts") /\ UNCHANGED nfaults
       \/ /\ Fault
          /\ \E P \in SUBSET attempts[Cur].flagged : Fails("critical_alerts", P)
    /\ pc' = "batch_metrics"
    /\ UNCHANGED <<kafkaVars, checkpoint, model, saved, tables, crashes>>

\* The group of offset o in batch_metrics; a group without a date has log_date
\* NULL, which the column refuses.
GroupOf(o) == <<CompOf[o], o \in Undated>>

\* Rows of whole, dated groups: what a failed JDBC append may have inserted.
DatedGroups(rows) ==
    {P \in SUBSET (rows \ Undated) :
        \A o \in P : \A q \in rows : GroupOf(q) = GroupOf(o) => q \in P}

WriteBatchMetrics ==
    /\ pc = "batch_metrics"
    /\ LET rows == attempts[Cur].rows IN
       \/ /\ rows \cap Undated = {}
          /\ Succeeds("batch_metrics")
          /\ UNCHANGED nfaults
       \/ /\ IF rows \cap Undated = {} THEN Fault ELSE UNCHANGED nfaults
          /\ \E P \in DatedGroups(rows) : Fails("batch_metrics", P)
    /\ pc' = "anomaly_alerts_pg"
    /\ UNCHANGED <<kafkaVars, checkpoint, model, saved, tables, crashes>>

\* One transaction for all rows.  A row the client refuses is skipped; an error
\* of the server aborts the transaction, so the commit rolls all rows back.
WriteAnomalyAlerts ==
    /\ pc = "anomaly_alerts_pg"
    /\ \/ Succeeds("anomaly_alerts_pg") /\ UNCHANGED nfaults
       \/ /\ Fault
          /\ \E refused \in SUBSET attempts[Cur].flagged, aborted \in BOOLEAN :
                Fails("anomaly_alerts_pg",
                      IF aborted THEN {} ELSE attempts[Cur].flagged \ refused)
    /\ pc' = "component_health"
    /\ UNCHANGED <<kafkaVars, checkpoint, model, saved, tables, crashes>>

-----------------------------------------------------------------------------
\* round(100 * anomalies / events, 2), in hundredths of a percent.
ErrorRate(anomalies, events) ==
    IF events = 0 THEN 0 ELSE (20000 * anomalies + events) \div (2 * events)

StatusOf(rate) == IF rate > 1000 THEN "critical"
                  ELSE IF rate > 200 THEN "warning" ELSE "healthy"

\* Totals are added up; rate and status are those of this batch alone.
UpsertedOver(old, rows, flagged) ==
    [c \in Component |->
        LET ev == Cardinality({o \in rows : CompOf[o] = c})
            an == Cardinality({o \in flagged : CompOf[o] = c})
        IN  IF ev = 0 THEN health[c]
            ELSE [events    |-> old[c].events + ev,
                  anomalies |-> old[c].anomalies + an,
                  status    |-> StatusOf(ErrorRate(an, ev))]]

\* Mutant of Upserted: the totals are those of EXCLUDED, too.
UpsertedExcluded(rows, flagged) ==
    UpsertedOver([c \in Component |-> [events |-> 0, anomalies |-> 0]], rows, flagged)

Upserted(rows, flagged) == UpsertedOver(health, rows, flagged)

UpdateHealth ==
    /\ pc = "component_health"
    /\ LET a == attempts[Cur]
           upserted == health' = Upserted(a.rows, a.flagged)
       IN  \/ upserted /\ Succeeds("component_health") /\ UNCHANGED nfaults
           \/ upserted /\ Fault /\ Fails("component_health", a.rows)
           \/ UNCHANGED health /\ Fault /\ Fails("component_health", {})
    /\ pc' = "model_metrics"
    /\ UNCHANGED <<kafkaVars, checkpoint, model, saved, modelMetrics, crashes>>

-----------------------------------------------------------------------------
\* How many labelled rows were predicted so and truly are so.
Count(labelled, flagged, predicted, truth) ==
    Cardinality({o \in labelled : (o \in flagged) = predicted /\ Label[o] = truth})

\* Mutant of Confusion: the two kinds of error are swapped.
ConfusionSwapped(k, labelled, flagged) ==
    [attempt |-> k,
     tp |-> Count(labelled, flagged, TRUE, "anomaly"),
     fp |-> Count(labelled, flagged, FALSE, "anomaly"),
     tn |-> Count(labelled, flagged, FALSE, "normal"),
     fn |-> Count(labelled, flagged, TRUE, "normal")]

\* The row of model_metrics for the labelled rows of attempt k.
Confusion(k, labelled, flagged) ==
    [attempt |-> k,
     tp |-> Count(labelled, flagged, TRUE, "anomaly"),
     fp |-> Count(labelled, flagged, TRUE, "normal"),
     tn |-> Count(labelled, flagged, FALSE, "normal"),
     fn |-> Count(labelled, flagged, FALSE, "anomaly")]

\* The last sink: process then returns.
WriteModelMetrics ==
    /\ pc = "model_metrics"
    /\ LET a == attempts[Cur]
           labelled == Owed("model_metrics", a)
           done(faults) == attempts' = [attempts EXCEPT
                    ![Cur].faults = @ \cup faults, ![Cur].outcome = "written"]
           inserted ==
             /\ Put("model_metrics", labelled)
             /\ modelMetrics' = modelMetrics \cup
                  IF labelled = {} THEN {}
                  ELSE {Confusion(Cur, labelled, a.flagged)}
       IN  \/ inserted /\ done({}) /\ UNCHANGED nfaults
           \/ inserted /\ done({"model_metrics"}) /\ Fault
           \/ /\ done({"model_metrics"}) /\ Fault
              /\ UNCHANGED <<stored, modelMetrics>>
    /\ pc' = "commit"
    /\ UNCHANGED <<kafkaVars, checkpoint, model, saved, health, crashes>>

-----------------------------------------------------------------------------
Process == ReadBatch \/ Fit \/ TrainingFails \/ SaveNlp \/ SaveKMeans
           \/ KeepModel \/ Infer \/ WriteDelta \/ PublishAlerts
           \/ WriteBatchMetrics \/ WriteAnomalyAlerts \/ UpdateHealth
           \/ WriteModelMetrics

Driver == PlanBatch \/ Process \/ CommitBatch

Init ==
    /\ logStart = 0 /\ logEnd = 0
    /\ offsets = <<>> /\ committed = 0
    /\ pc = "down"
    /\ model = {}
    /\ saved = [a \in Artefacts |-> 0]
    /\ health = [c \in Component |->
                    [events |-> 0, anomalies |-> 0, status |-> "unknown"]]
    /\ modelMetrics = {}
    /\ stored = [s \in Sinks |-> {}]
    /\ attempts = <<>>
    /\ crashes = 0 /\ nfaults = 0

Next == Produce \/ Expire \/ Start \/ Driver \/ Crash

Spec == Init /\ [][Next]_vars

\* The trigger thread keeps running, and every call it makes returns or raises.
FairSpec == Spec /\ WF_vars(Driver)

-----------------------------------------------------------------------------
(* Properties.                                                             *)

Typed ==
    /\ logStart \in 0..MaxLog /\ logEnd \in 0..MaxLog /\ logStart <= logEnd
    /\ offsets \in Seq(0..MaxLog)
    /\ committed \in Nat
    /\ pc \in Steps
    /\ model \in SUBSET Offset
    /\ saved \in [Artefacts -> Nat]
    /\ health \in [Component -> [events : Nat, anomalies : Nat,
                     status : {"unknown", "healthy", "warning", "critical"}]]
    /\ modelMetrics \in SUBSET [attempt : Nat, tp : Nat, fp : Nat, tn : Nat, fn : Nat]
    /\ stored \in [Sinks -> SUBSET (Nat \X Offset)]
    /\ attempts \in Seq(Attempt)
    /\ crashes \in Nat /\ nfaults \in Nat

\* Every variable has its type; the checkpoint never runs more than one batch
\* ahead of its commits, and never behind them.
TypeOK == Typed /\ (offsets # <<>> => committed \in {Planned - 1, Planned})

\* The sinks that did not fail in attempt k hold all it owes them for offset o.
Delivered(k, o) ==
    \A s \in Sinks \ attempts[k].faults :
        o \in Owed(s, attempts[k]) => <<k, o>> \in stored[s]

\* process returned from attempt k, and no exception or kill took it away.
Returned(k) == attempts[k].outcome \notin {"running", "crashed"}

\* Every record between the query's start and its last committed batch is
\* accounted for, through any number of crashes and replays: it expired before
\* it was read, or an attempt that ran to its end read it, and each sink holds
\* it unless that attempt logged the sink's failure or gave up before the sinks.
RecordsAccountedFor ==
    offsets # <<>> =>
      \A o \in Parsed :
        offsets[1] < o /\ o <= offsets[committed + 1] =>
          \/ o <= logStart
          \/ \E k \in DOMAIN attempts :
                /\ o \in attempts[k].rows
                /\ Returned(k)
                /\ attempts[k].outcome = "written" => Delivered(k, o)

\* No sink deduplicates, yet a sink receives a record from two attempts only if
\* they replay one batch and the earlier one was cut off by a crash: failures
\* that the handler swallows never duplicate a record.
DuplicatesOnlyFromReplay ==
    \A s \in Sinks : \A d, e \in stored[s] :
        d[2] = e[2] /\ d[1] < e[1] =>
            /\ attempts[d[1]].batch = attempts[e[1]].batch
            /\ attempts[d[1]].outcome = "crashed"

\* Within an attempt the sinks fill in the order of the code: an alert that left
\* for Kafka or PostgreSQL is in processed_logs, and an alert in PostgreSQL is
\* in Kafka, unless the earlier sink failed in that attempt.
AlertsFollowDelta ==
    LET After(late, early) ==
          \A e \in stored[late] :
              e \in stored[early] \/ early \in attempts[e[1]].faults
    IN  /\ After("critical_alerts", "processed_logs")
        /\ After("anomaly_alerts_pg", "processed_logs")
        /\ After("anomaly_alerts_pg", "critical_alerts")

OfComponent(entries, c) == {e \in entries : CompOf[e[2]] = c}

\* The totals of component_health are bounded by the lakehouse: while neither
\* sink has failed they never exceed the copies in processed_logs, and count at
\* least every row of a finished attempt, whatever was replayed.
HealthBetween ==
    (\A k \in DOMAIN attempts :
        attempts[k].faults \cap {"processed_logs", "component_health"} = {}) =>
      \A c \in Component :
        /\ health[c].events <= Cardinality(OfComponent(stored["processed_logs"], c))
        /\ health[c].events >=
             Cardinality({o \in Offset : /\ CompOf[o] = c
                                         /\ \E k \in DOMAIN attempts :
                                              /\ attempts[k].outcome = "written"
                                              /\ o \in attempts[k].rows})

\* The row of model_metrics and the alerts of an attempt agree: with all labelled
\* rows in one cell of the matrix, tp + fp is the number of labelled alerts.
MetricsAgreeWithAlerts ==
    \A m \in modelMetrics :
      LET of(s) == {e \in stored[s] : e[1] = m.attempt /\ Label[e[2]] # "none"}
          faults == attempts[m.attempt].faults
      IN  /\ "processed_logs" \notin faults =>
               m.tp + m.fp + m.tn + m.fn = Cardinality(of("processed_logs"))
          /\ "critical_alerts" \notin faults =>
               m.tp + m.fp = Cardinality(of("critical_alerts"))

\* The two artefacts a scorer must load together were fitted by one attempt, except
\* while the second is being replaced, and unless the attempt that touched them last
\* was cut off between the two or failed to save one: no attempt after it has
\* replaced either, and the next model that is saved whole mends them.
SavedModelsMatch ==
    \/ saved["nlp_pipeline"] = saved["kmeans_model"]
    \/ pc = "save_kmeans"
    \/ \E k \in DOMAIN attempts : /\ "saved_models" \in attempts[k].faults
                                  /\ \A a \in Artefacts : saved[a] <= k

\* The batch, the attempt and the six sinks as BatchDelivery sees them.
Unreadable == {o \in Offset : o \notin Parsed \/ o <= logStart}
OpenBatch  == IF Planned > committed THEN RangeOf(Planned) ELSE {}
Committed  == UNION {RangeOf(b) : b \in 1..committed}
Attempting == pc \in Steps \ {"down", "idle", "read"}

\* What the rows are scored with: the model, or the one about to be fitted on them.
Scorer == IF model = {} THEN attempts[Cur].rows ELSE model

Wanted == [s \in Sinks |->
    IF Attempting
    THEN LET rows == attempts[Cur].rows
         IN Owed(s, [attempts[Cur] EXCEPT !.flagged = rows \cap Flags[Scorer]])
    ELSE {}]

Failed == [s \in Sinks |->
    Attempting /\ \/ s \in attempts[Cur].faults
                  \/ attempts[Cur].outcome \in {"untrained", "unscored"}]

Labelled == {o \in Offset : Label[o] # "none"}

Required == [s \in Sinks |->
    CASE s \in {"critical_alerts", "anomaly_alerts_pg"} -> {}
      [] s = "model_metrics" -> Labelled
      [] OTHER -> Offset]

Allowed == [s \in Sinks |-> IF s = "model_metrics" THEN Labelled ELSE Offset]

Batches == INSTANCE BatchDelivery
    WITH Record <- Offset, Sink <- Sinks, gone <- Unreadable, open <- OpenBatch,
         closed <- Committed, active <- Attempting, attempt <- Cur,
         wanted <- Wanted, failed <- Failed, copies <- stored

\* The job implements BatchDelivery: through crashes and replays no sink takes a
\* row of a committed batch, or one its attempt does not want; and a batch is only
\* committed when each sink has what the attempt wanted for it, or failed in it.
ImplementsBatches == Batches!Spec

\* A driver that stays up commits every record that was produced after the query
\* started; deletion, failed sinks and failed training do not hold it back.
EventuallyCommitted ==
    \A n \in 1..MaxLog :
        <>[](pc # "down") =>
            (logEnd >= n ~> offsets # <<>> /\ n <= offsets[committed + 1])

-----------------------------------------------------------------------------
(* What comments and documents say, and the code does not do.              *)

\* init.sql:8 and main.py:476: component_health is a rolling summary, so the status of a
\* row is that of its own totals.
RollingHealth ==
    \A c \in Component : health[c].events > 0 =>
        health[c].status = StatusOf(ErrorRate(health[c].anomalies, health[c].events))

\* README.md:39: recovery loses no data.  Every record of a committed batch that
\* could be read is in processed_logs.
ZeroDataLoss ==
    \A k \in DOMAIN attempts : Returned(k) =>
        \A o \in attempts[k].rows : <<k, o>> \in stored["processed_logs"]

=============================================================================
