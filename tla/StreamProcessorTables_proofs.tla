--------------------- MODULE StreamProcessorTables_proofs ---------------------
(***************************************************************************)
(* What the tables say: proofs that the totals of component_health, the    *)
(* confusion matrices of model_metrics and the two artefacts under         *)
(* MODEL_BUCKET agree with what the other sinks hold.  The invariant adds  *)
(* to the delivery invariant which rows a sink may hold of an attempt, and *)
(* that a sink which the running attempt has not tried holds none of it:   *)
(* without that the counts could not be matched.                           *)
(***************************************************************************)
EXTENDS StreamProcessorDelivery_proofs

\* No attempt has recorded the failure of a sink in S.
NoneFailed(S) == \A k \in DOMAIN attempts : attempts[k].faults \cap S = {}

\* The attempt that touched the artefacts last did not save both.
Interrupted ==
    \E k \in DOMAIN attempts : /\ "saved_models" \in attempts[k].faults
                               /\ \A a \in Artefacts : saved[a] <= k

\* What a sink holds of an attempt is owed to it.
OwedInv == \A s \in Sinks : \A e \in stored[s] : e[2] \in Owed(s, attempts[e[1]])

\* A sink the running attempt has not tried holds nothing of it.
UntriedInv ==
    pc \in Running \ {"commit"} =>
        /\ \A s \in Sinks \ Tried(pc) : \A e \in stored[s] : e[1] # Cur
        /\ \A m \in modelMetrics : m.attempt # Cur

SavedInv ==
    /\ \A a \in Artefacts : saved[a] <= Cur
    /\ saved["nlp_pipeline"] = saved["kmeans_model"] \/ pc = "save_kmeans" \/ Interrupted
    /\ pc = "save_kmeans" => saved["nlp_pipeline"] = Cur

\* A row of model_metrics is the confusion matrix of an attempt that tried every
\* sink before.
MetricsInv ==
    \A m \in modelMetrics :
      LET a == attempts[m.attempt]
      IN  /\ m.attempt \in DOMAIN attempts
          /\ m = Confusion(m.attempt, Owed("model_metrics", a), a.flagged)
          /\ DeliveredTo(Sinks \ {"model_metrics"}, m.attempt, a)

\* As long as neither sink failed: component_health counts the rows that were handed
\* to it, and each of them is in processed_logs.
HealthInv ==
    NoneFailed({"processed_logs", "component_health"}) =>
        /\ \A c \in Component :
             health[c].events = Cardinality(OfComponent(stored["component_health"], c))
        /\ stored["component_health"] \subseteq stored["processed_logs"]

TInv == OwedInv /\ UntriedInv /\ SavedInv /\ MetricsInv /\ HealthInv

-----------------------------------------------------------------------------
(* What a step leaves alone.                                               *)

\* A call of a sink, in the order of the code.
SinkCall == \E s \in Sinks :
    /\ pc = s /\ SinkStep(s)
    /\ pc' = "commit" \/ (pc' \in Sinks /\ Tried(pc') = Tried(s) \cup {s})

LEMMA HandleSteps ==
    ASSUME IInv, Handle
    PROVE  /\ QuietStep \/ SinkCall
           /\ Cur' = Cur /\ Cur \in DOMAIN attempts /\ DOMAIN attempts' = DOMAIN attempts
           /\ \A k \in DOMAIN attempts : k # Cur => attempts'[k] = attempts[k]
           /\ attempts'[Cur].rows = attempts[Cur].rows
           /\ Grows
<1>1. HandleFrame /\ Cur \in DOMAIN attempts
  BY HandleIsFramed, RunningAttempt DEF HandleFrame
<1>2. /\ Cur' = Cur /\ DOMAIN attempts' = DOMAIN attempts
      /\ \A k \in DOMAIN attempts : k # Cur => attempts'[k] = attempts[k]
      /\ attempts'[Cur].rows = attempts[Cur].rows
  BY <1>1 DEF HandleFrame, Evolves, Cur, IInv, Typed
<1>3. CASE QuietStep
  BY <1>2, <1>1, <1>3 DEF QuietStep
<1>4. CASE \E s \in Sinks, next \in Sinks : MiddleSink(s, next)
  <2>1. PICK s \in Sinks, next \in Sinks : MiddleSink(s, next)
    BY <1>4
  <2>2. pc = s /\ SinkStep(s) /\ pc' \in Sinks /\ Tried(pc') = Tried(s) \cup {s}
    BY <2>1 DEF MiddleSink
  <2>3. QED
    BY <1>1, <1>2, <2>2 DEF SinkCall, SinkStep
<1>5. CASE WriteModelMetrics
  <2>1. pc = "model_metrics" /\ SinkStep("model_metrics") /\ pc' = "commit"
    BY <1>5, LastSink
  <2>2. SinkCall
    BY <2>1 DEF SinkCall, Sinks
  <2>3. QED
    BY <1>1, <1>2, <2>1, <2>2 DEF SinkStep
<1>6. QED
  BY <1>3, <1>4, <1>5, QuietSteps, MiddleSinks DEF Handle

\* Which step writes which table.
LEMMA TableWriters ==
    ASSUME Handle
    PROVE  /\ SaveNlp \/ SaveKMeans \/ UNCHANGED saved
           /\ UpdateHealth \/ (UNCHANGED health /\ pc # "component_health")
           /\ WriteModelMetrics \/ UNCHANGED modelMetrics
<1>1. SaveNlp \/ SaveKMeans \/ UNCHANGED saved
  BY DEF Handle, Fit, TrainingFails, KeepModel, Infer, WriteDelta, PublishAlerts,
         WriteBatchMetrics, WriteAnomalyAlerts, UpdateHealth, WriteModelMetrics
<1>2. UpdateHealth \/ (UNCHANGED health /\ pc # "component_health")
  BY DEF Handle, Fit, TrainingFails, SaveNlp, SaveKMeans, Save, KeepModel, Infer, WriteDelta,
         PublishAlerts, WriteBatchMetrics, WriteAnomalyAlerts, WriteModelMetrics, tables
<1>3. WriteModelMetrics \/ UNCHANGED modelMetrics
  BY DEF Handle, Fit, TrainingFails, SaveNlp, SaveKMeans, Save, KeepModel, Infer, WriteDelta,
         PublishAlerts, WriteBatchMetrics, WriteAnomalyAlerts, UpdateHealth, tables
<1>4. QED
  BY <1>1, <1>2, <1>3

\* Kafka, the engine, a crash and the beginning of an attempt.
Other == Produce \/ Expire \/ Start \/ PlanBatch \/ CommitBatch \/ Crash \/ ReadBatch
         \/ UNCHANGED vars

LEMMA OtherSteps ==
    ASSUME IInv, Other
    PROVE  /\ UNCHANGED <<saved, health, modelMetrics, stored>>
           /\ \A k \in DOMAIN attempts :
                /\ k \in DOMAIN attempts'
                /\ attempts'[k].rows = attempts[k].rows
                /\ attempts'[k].flagged = attempts[k].flagged
                /\ attempts[k].faults \subseteq attempts'[k].faults
                /\ attempts'[k].faults \subseteq attempts[k].faults \cup {"saved_models"}
                /\ attempts'[k].outcome \in {attempts[k].outcome, "crashed"}
           /\ Cur' \in {Cur, Cur + 1}
           /\ \/ UNCHANGED <<pc, attempts>>
              \/ pc' \in {"down", "idle", "read", "commit"}
              \/ pc' \in {"fit", "infer"} /\ Cur' = Len(attempts) + 1
           /\ pc = "save_kmeans" =>
                pc' = "save_kmeans" \/ "saved_models" \in attempts'[Cur].faults
<1>1. attempts \in Seq(Attempt) /\ \A k \in DOMAIN attempts : attempts[k] \in Attempt
  BY DEF IInv, Typed
<1>2. CASE Produce \/ Expire \/ UNCHANGED vars
  BY <1>2 DEF Produce, Expire, vars, tables, Cur
<1>3. CASE Start \/ PlanBatch \/ CommitBatch
  BY <1>3 DEF Start, StartAt, PlanBatch, PlanUpTo, CommitBatch, tables, Cur
<1>4. CASE Crash
  <2>1. CASE UNCHANGED attempts /\ pc # "save_kmeans"
    BY <1>4, <2>1 DEF Crash, tables, Cur
  <2>2. CASE /\ pc \in Running
             /\ CutOff(IF pc = "save_kmeans" THEN {"saved_models"} ELSE {})
    <3> DEFINE cut == IF pc = "save_kmeans" THEN {"saved_models"} ELSE {}
    <3>1. Cur \in DOMAIN attempts /\ attempts[Cur] \in Attempt
      BY <2>2, RunningAttempt
    <3>2. /\ cut \in SUBSET {"saved_models"} /\ CutOff(cut)
          /\ pc = "save_kmeans" => "saved_models" \in cut
      BY <2>2
    <3> HIDE DEF cut
    <3>3. /\ Evolves /\ attempts'[Cur].outcome = "crashed"
          /\ attempts'[Cur].faults = attempts[Cur].faults \cup cut
          /\ attempts'[Cur].flagged = attempts[Cur].flagged
      BY <2>2, <3>2, CutOffEvolves
    <3>4. DOMAIN attempts' = DOMAIN attempts /\ Cur' = Cur
      BY <1>1, <3>3 DEF Evolves, Cur
    <3>5. \A k \in DOMAIN attempts : k = Cur \/ attempts'[k] = attempts[k]
      BY <3>3 DEF Evolves
    <3>6. attempts'[Cur].rows = attempts[Cur].rows
      BY <3>1, <3>3 DEF Evolves
    <3>7. /\ pc = "save_kmeans" => "saved_models" \in attempts'[Cur].faults
          /\ \A k \in DOMAIN attempts :
                /\ attempts'[k].rows = attempts[k].rows
                /\ attempts'[k].flagged = attempts[k].flagged
                /\ attempts[k].faults \subseteq attempts'[k].faults
                /\ attempts'[k].faults \subseteq attempts[k].faults \cup {"saved_models"}
                /\ attempts'[k].outcome \in {attempts[k].outcome, "crashed"}
      BY <3>1, <3>2, <3>3, <3>5, <3>6
    <3>8. QED
      BY <1>4, <3>1, <3>4, <3>7 DEF Crash, tables
  <2>3. QED
    BY <1>4, <2>1, <2>2 DEF Crash, Running, Busy, IInv, Typed
<1>5. CASE ReadBatch
  <2>1. PICK new : attempts' = Append(attempts, new)
    BY <1>5 DEF ReadBatch
  <2>2. /\ Cur' = Len(attempts) + 1 /\ DOMAIN attempts \subseteq DOMAIN attempts'
        /\ \A k \in DOMAIN attempts : attempts'[k] = attempts[k]
    BY <1>1, <2>1 DEF Cur
  <2>3. pc' \in {"commit", "fit", "infer"} /\ pc = "read"
    BY <1>5 DEF ReadBatch
  <2>4. QED
    BY <1>1, <1>5, <2>2, <2>3 DEF ReadBatch, tables, Cur
<1>6. QED
  BY <1>2, <1>3, <1>4, <1>5 DEF Other

-----------------------------------------------------------------------------
(* Which rows a sink holds of an attempt.                                  *)

LEMMA OwedKept ==
    ASSUME IInv, OwedInv, UntriedInv, Handle \/ Other
    PROVE  OwedInv'
<1>1. \A s \in Sinks : \A e \in stored[s] : e[1] \in DOMAIN attempts
  BY DEF IInv, StoredInv
<1>2. CASE Other
  BY <1>1, <1>2, OtherSteps DEF OwedInv, Owed
<1>3. CASE Handle
  <2>1. /\ QuietStep \/ SinkCall
        /\ \A k \in DOMAIN attempts : k # Cur => attempts'[k] = attempts[k]
    BY <1>3, HandleSteps
  <2>2. CASE QuietStep
    <3>1. pc \in Running \ {"commit"} /\ Tried(pc) = {}
      BY <2>2 DEF QuietStep, Tried, Sinks
    <3>2. \A s \in Sinks : \A e \in stored[s] : e[1] # Cur
      BY <3>1 DEF UntriedInv
    <3>3. QED
      BY <1>1, <2>1, <2>2, <3>2 DEF QuietStep, OwedInv, Owed
  <2>3. CASE SinkCall
    <3>1. PICK s \in Sinks : SinkStep(s)
      BY <2>3 DEF SinkCall
    <3>2. \A k \in DOMAIN attempts : /\ attempts'[k].rows = attempts[k].rows
                                     /\ attempts'[k].flagged = attempts[k].flagged
      BY <2>1, <3>1 DEF SinkStep
    <3>3. \A t \in Sinks : \A k \in DOMAIN attempts :
             Owed(t, attempts[k])' = Owed(t, attempts[k])
      BY <3>2 DEF Owed
    <3>4. \A t \in Sinks : \A e \in stored'[t] :
             e \in stored[t] \/ (t = s /\ e[1] = Cur /\ e[2] \in Owed(s, attempts[Cur]))
      <4>1. \A e \in stored'[s] \ stored[s] : e \in {Cur} \X Owed(s, attempts[Cur])
        BY <3>1 DEF SinkStep
      <4>2. \A t \in Sinks \ {s} : stored'[t] = stored[t]
        BY <3>1 DEF SinkStep
      <4>3. QED
        BY <4>1, <4>2
    <3>5. Cur \in DOMAIN attempts
      BY <1>3, HandleSteps
    <3>6. QED
      BY <1>1, <3>3, <3>4, <3>5 DEF OwedInv
  <2>4. QED
    BY <2>1, <2>2, <2>3
<1>4. QED
  BY <1>2, <1>3

LEMMA UntriedKept ==
    ASSUME IInv, DInv, UntriedInv, MetricsInv, Handle \/ Other
    PROVE  UntriedInv'
<1>1. \A s \in Sinks : \A e \in stored[s] : e[1] \in DOMAIN attempts
  BY DEF IInv, StoredInv
<1>2. \A m \in modelMetrics : m.attempt \in DOMAIN attempts
  BY DEF MetricsInv
<1>3. DOMAIN attempts = 1..Len(attempts) /\ Len(attempts) \in Nat
  BY DEF IInv, Typed
<1>4. CASE Other
  <2>1. UNCHANGED <<stored, modelMetrics>>
    BY <1>4, OtherSteps
  <2>2. CASE UNCHANGED <<pc, attempts>>
    BY <2>1, <2>2 DEF UntriedInv, Cur
  <2>3. CASE pc' \in {"down", "idle", "read", "commit"}
    BY <2>3 DEF UntriedInv, Running, Busy
  <2>4. CASE Cur' = Len(attempts) + 1
    <3>1. \A k \in DOMAIN attempts : k # Cur'
      BY <1>3, <2>4
    <3>2. QED
      BY <1>1, <1>2, <2>1, <3>1 DEF UntriedInv
  <2>5. QED
    BY <1>4, <2>2, <2>3, <2>4, OtherSteps
<1>5. CASE Handle
  <2>1. Cur' = Cur /\ (QuietStep \/ SinkCall)
    BY <1>5, HandleSteps
  <2>2. CASE QuietStep
    <3>1. pc \in Running \ {"commit"} /\ Tried(pc) = {}
      BY <2>2 DEF QuietStep, Tried, Sinks
    <3>2. pc' \in Running \ {"commit"} => Tried(pc') = {}
      BY <2>2 DEF QuietStep, Tried, Sinks
    <3>3. UNCHANGED <<stored, modelMetrics>>
      BY <1>5, <2>2, TableWriters DEF QuietStep, WriteModelMetrics, Sinks
    <3>4. QED
      BY <2>1, <3>1, <3>2, <3>3 DEF UntriedInv
  <2>3. CASE SinkCall
    <3>1. PICK s \in Sinks : /\ pc = s /\ SinkStep(s)
                             /\ pc' = "commit" \/ (pc' \in Sinks /\ Tried(pc') = Tried(s) \cup {s})
      BY <2>3 DEF SinkCall
    <3>2. pc \in Running \ {"commit"}
      BY <3>1 DEF Running, Busy, Steps, Sinks
    <3>3. CASE pc' = "commit"
      BY <3>3 DEF UntriedInv
    <3>4. CASE pc' \in Sinks /\ Tried(pc') = Tried(s) \cup {s}
      <4>1. \A t \in Sinks \ {s} : stored'[t] = stored[t]
        BY <3>1 DEF SinkStep
      <4>2. UNCHANGED modelMetrics
        BY <1>5, <3>4, TableWriters DEF WriteModelMetrics, Sinks
      <4>3. QED
        BY <2>1, <3>1, <3>2, <3>4, <4>1, <4>2 DEF UntriedInv
    <3>5. QED
      BY <3>1, <3>3, <3>4
  <2>4. QED
    BY <2>1, <2>2, <2>3
<1>6. QED
  BY <1>4, <1>5

-----------------------------------------------------------------------------
(* The two artefacts.                                                      *)

LEMMA StaysInterrupted ==
    ASSUME IInv, Interrupted, Handle \/ Other, UNCHANGED saved
    PROVE  Interrupted'
<1>1. PICK k \in DOMAIN attempts : /\ "saved_models" \in attempts[k].faults
                                  /\ \A a \in Artefacts : saved[a] <= k
  BY DEF Interrupted
<1>2. k \in DOMAIN attempts' /\ "saved_models" \in attempts'[k].faults
  <2>1. CASE Other
    BY <1>1, <2>1, OtherSteps
  <2>2. CASE Handle
    BY <1>1, <2>2, HandleSteps DEF Grows
  <2>3. QED
    BY <2>1, <2>2
<1>3. QED
  BY <1>1, <1>2 DEF Interrupted

LEMMA SavedKept ==
    ASSUME IInv, SavedInv, Handle \/ Other
    PROVE  SavedInv'
<1>1. UNCHANGED saved /\ Interrupted => Interrupted'
  BY StaysInterrupted
<1>2. saved \in [Artefacts -> Nat] /\ Cur \in Nat
  BY DEF IInv, Typed, Cur
<1>3. CASE Other
  <2>1. /\ UNCHANGED saved /\ Cur' \in {Cur, Cur + 1}
        /\ pc = "save_kmeans" => pc' = "save_kmeans"
                \/ ("saved_models" \in attempts'[Cur].faults /\ Cur \in DOMAIN attempts')
        /\ pc' = "save_kmeans" => UNCHANGED <<pc, attempts>>
    <3>1. pc = "save_kmeans" => Cur \in DOMAIN attempts
      BY RunningAttempt DEF Running, Busy, Steps, Training
    <3>2. QED
      BY <1>3, <3>1, OtherSteps
  <2>2. \A a \in Artefacts : saved'[a] <= Cur'
    BY <1>2, <2>1 DEF SavedInv
  <2>3. pc = "save_kmeans" /\ pc' # "save_kmeans" => Interrupted'
    BY <2>1 DEF SavedInv, Interrupted
  <2>4. QED
    BY <1>1, <2>1, <2>2, <2>3 DEF SavedInv, Cur
<1>4. CASE SaveNlp \/ SaveKMeans
  <2>1. Cur' = Cur /\ Cur \in DOMAIN attempts /\ DOMAIN attempts' = DOMAIN attempts
    BY <1>4, HandleSteps DEF Handle
  <2>2. attempts[Cur] \in Attempt
    BY <2>1 DEF IInv, Typed
  <2>3. \A a \in Artefacts : saved'[a] <= Cur
    BY <1>2, <1>4 DEF SaveNlp, SaveKMeans, Save, SavedInv, Artefacts
  <2>4. CASE attempts' = [attempts EXCEPT ![Cur].faults = @ \cup {"saved_models"}]
             /\ pc' = "cluster"
    <3>1. "saved_models" \in attempts'[Cur].faults
      BY <2>1, <2>2, <2>4 DEF Attempt
    <3>2. QED
      BY <2>1, <2>3, <2>4, <3>1 DEF SavedInv, Interrupted
  <2>5. CASE SaveNlp /\ saved' = [saved EXCEPT !["nlp_pipeline"] = Cur]
             /\ pc' = "save_kmeans"
    BY <1>2, <2>1, <2>3, <2>5 DEF SavedInv, Artefacts
  <2>6. CASE SaveKMeans /\ saved' = [saved EXCEPT !["kmeans_model"] = Cur]
             /\ pc' = "cluster"
    <3>1. pc = "save_kmeans"
      BY <2>6 DEF SaveKMeans, Save
    <3>2. QED
      BY <1>2, <2>1, <2>3, <2>6, <3>1 DEF SavedInv, Artefacts
  <2>7. QED
    BY <1>4, <2>4, <2>5, <2>6 DEF SaveNlp, SaveKMeans, Save
<1>5. CASE Handle /\ ~SaveNlp /\ ~SaveKMeans
  <2>1. UNCHANGED saved /\ Cur' = Cur
    BY <1>5, TableWriters, HandleSteps
  <2>2. pc # "save_kmeans" /\ pc' # "save_kmeans"
    BY <1>5 DEF Handle, Fit, TrainingFails, KeepModel, Infer, WriteDelta, PublishAlerts,
         WriteBatchMetrics, WriteAnomalyAlerts, UpdateHealth, WriteModelMetrics
  <2>3. QED
    BY <1>1, <2>1, <2>2 DEF SavedInv
<1>6. QED
  BY <1>3, <1>4, <1>5

-----------------------------------------------------------------------------
(* The confusion matrices.                                                 *)

\* Sinks and faults only grow, so what was delivered stays delivered.
LEMMA StaysDelivered ==
    ASSUME NEW S \in SUBSET Sinks, NEW k, NEW a, NEW b, DeliveredTo(S, k, a),
           a.rows = b.rows, a.flagged = b.flagged, a.faults \subseteq b.faults,
           \A s \in Sinks : stored[s] \subseteq stored'[s]
    PROVE  \A s \in S \ b.faults : {k} \X Owed(s, b) \subseteq stored'[s]
<1>1. \A s : Owed(s, b) = Owed(s, a)
  BY DEF Owed
<1>2. QED
  BY <1>1 DEF DeliveredTo

LEMMA MetricsKept ==
    ASSUME IInv, DInv, UntriedInv, MetricsInv, Handle \/ Other
    PROVE  MetricsInv'
<1> DEFINE mm    == "model_metrics"
           Early == Sinks \ {mm}
           Agrees(m, a) == /\ m = Confusion(m.attempt, Owed(mm, a), a.flagged)
                           /\ DeliveredTo(Early, m.attempt, a)
<1>1. \A m \in modelMetrics : m.attempt \in DOMAIN attempts /\ Agrees(m, attempts[m.attempt])
  BY DEF MetricsInv
<1>2. ASSUME NEW m \in modelMetrics, m.attempt \in DOMAIN attempts',
             attempts'[m.attempt].rows = attempts[m.attempt].rows,
             attempts'[m.attempt].flagged = attempts[m.attempt].flagged,
             attempts[m.attempt].faults \subseteq attempts'[m.attempt].faults,
             \A s \in Sinks : stored[s] \subseteq stored'[s]
      PROVE  Agrees(m, attempts[m.attempt])'
  <2>1. \A s \in Early \ attempts'[m.attempt].faults :
           {m.attempt} \X Owed(s, attempts'[m.attempt]) \subseteq stored'[s]
    BY <1>1, <1>2, StaysDelivered
  <2>2. \A s : Owed(s, attempts[m.attempt])' = Owed(s, attempts[m.attempt])
    BY <1>2 DEF Owed
  <2>3. \A s : Owed(s, attempts[m.attempt])' = Owed(s, attempts'[m.attempt])
    BY DEF Owed
  <2>4. DeliveredTo(Early, m.attempt, attempts[m.attempt])'
    BY <2>1, <2>3 DEF DeliveredTo
  <2>5. m = Confusion(m.attempt, Owed(mm, attempts[m.attempt])', attempts'[m.attempt].flagged)
    BY <1>1, <1>2, <2>2
  <2>6. QED
    BY <2>4, <2>5 DEF Confusion, Count
<1> HIDE DEF Agrees
<1>3. ASSUME \A m \in modelMetrics' : m.attempt \in DOMAIN attempts' /\ Agrees(m, attempts[m.attempt])'
      PROVE  MetricsInv'
  BY <1>3 DEF MetricsInv, Agrees
<1>4. CASE Other
  BY <1>1, <1>2, <1>3, <1>4, OtherSteps
<1>5. CASE Handle
  <2>1. /\ Cur' = Cur /\ Cur \in DOMAIN attempts /\ DOMAIN attempts' = DOMAIN attempts
        /\ \A k \in DOMAIN attempts : k # Cur => attempts'[k] = attempts[k]
        /\ Grows
    BY <1>5, HandleSteps
  <2>2. pc \in Running \ {"commit"}
    BY <1>5, HandleSteps DEF QuietStep, SinkCall, Running, Busy, Steps, Sinks
  <2>3. \A m \in modelMetrics : m.attempt # Cur
    BY <2>2 DEF UntriedInv
  <2>4. \A m \in modelMetrics : Agrees(m, attempts[m.attempt])'
    BY <1>1, <1>2, <2>1, <2>3 DEF Grows
  <2>5. ASSUME NEW m \in modelMetrics', m \notin modelMetrics
        PROVE  m.attempt = Cur /\ Agrees(m, attempts[m.attempt])'
    <3>1. WriteModelMetrics
      BY <1>5, <2>5, TableWriters
    <3>2. /\ pc = mm /\ SinkStep(mm)
      BY <3>1, LastSink
    <3>3. m = Confusion(Cur, Owed(mm, attempts[Cur]), attempts[Cur].flagged)
      BY <2>5, <3>1 DEF WriteModelMetrics
    <3>4. m.attempt = Cur
      BY <3>3 DEF Confusion
    <3>5. /\ attempts'[Cur].rows = attempts[Cur].rows
          /\ attempts'[Cur].flagged = attempts[Cur].flagged
          /\ attempts[Cur].faults \subseteq attempts'[Cur].faults
          /\ \A s \in Sinks : stored[s] \subseteq stored'[s]
      BY <2>1, <3>2 DEF SinkStep, Grows
    <3>6. DeliveredTo(Early, Cur, attempts[Cur])
      <4>1. Tried(mm) = Early
        BY DEF Tried
      <4>2. QED
        BY <3>2, <4>1 DEF DInv, RunningInv, Sinks
    <3>7. \A s \in Early \ attempts'[Cur].faults :
             {Cur} \X Owed(s, attempts'[Cur]) \subseteq stored'[s]
      BY <3>5, <3>6, StaysDelivered
    <3>8. \A s : /\ Owed(s, attempts[Cur])' = Owed(s, attempts'[Cur])
                 /\ Owed(s, attempts[Cur])' = Owed(s, attempts[Cur])
      BY <2>1, <3>5 DEF Owed
    <3>9. DeliveredTo(Early, Cur, attempts[Cur])'
      BY <2>1, <3>7, <3>8 DEF DeliveredTo
    <3>10. m = Confusion(Cur, Owed(mm, attempts[Cur])', attempts'[Cur].flagged)
      BY <3>3, <3>5, <3>8
    <3>11. QED
      BY <2>1, <3>4, <3>9, <3>10 DEF Agrees, Confusion, Count
  <2>6. QED
    BY <1>1, <1>3, <2>1, <2>4, <2>5
<1>6. QED
  BY <1>4, <1>5

-----------------------------------------------------------------------------
(* The totals of component_health.                                         *)

LEMMA StoredFinite ==
    ASSUME IInv, NEW s \in Sinks, NEW c
    PROVE  /\ IsFiniteSet(stored[s])
           /\ IsFiniteSet(OfComponent(stored[s], c))
           /\ Cardinality(OfComponent(stored[s], c)) \in Nat
<1>1. stored[s] \subseteq (1..Len(attempts)) \X Offset
  BY DEF IInv, StoredInv, Typed
<1>2. IsFiniteSet(1..Len(attempts)) /\ IsFiniteSet(Offset)
  <2>1. Len(attempts) \in Nat
    BY DEF IInv, Typed
  <2>2. QED
    BY <2>1, FS_Interval, RowsAreFinite
<1>3. IsFiniteSet(stored[s])
  BY <1>1, <1>2, FS_Product, FS_Subset
<1>4. OfComponent(stored[s], c) \subseteq stored[s]
  BY DEF OfComponent
<1>5. QED
  BY <1>3, <1>4, FS_Subset, FS_CardinalityType

\* The pairs of an attempt are as many as its rows.
LEMMA PairsCount ==
    ASSUME NEW k, NEW S \in SUBSET Offset
    PROVE  IsFiniteSet({k} \X S) /\ Cardinality({k} \X S) = Cardinality(S)
<1>1. IsFiniteSet(S) /\ Cardinality(S) \in Nat
  BY RowsAreFinite
<1>2. IsFiniteSet({k}) /\ Cardinality({k}) = 1
  BY FS_Singleton
<1>3. /\ IsFiniteSet({k} \X S)
      /\ Cardinality({k} \X S) = Cardinality({k}) * Cardinality(S)
  BY <1>1, <1>2, FS_Product
<1>4. QED
  BY <1>1, <1>2, <1>3

LEMMA HealthKept ==
    ASSUME IInv, DInv, UntriedInv, HealthInv, Handle \/ Other
    PROVE  HealthInv'
<1> DEFINE pl == "processed_logs"
           ch == "component_health"
           Watched == {pl, ch}
<1>1. CASE Other
  <2>1. NoneFailed(Watched)' => NoneFailed(Watched)
    BY <1>1, OtherSteps DEF NoneFailed
  <2>2. QED
    BY <1>1, <2>1, OtherSteps DEF HealthInv, OfComponent
<1>2. CASE Handle
  <2>1. /\ Cur' = Cur /\ Cur \in DOMAIN attempts /\ DOMAIN attempts' = DOMAIN attempts
        /\ Grows /\ (QuietStep \/ SinkCall)
    BY <1>2, HandleSteps
  <2>2. NoneFailed(Watched)' => NoneFailed(Watched)
    BY <2>1 DEF NoneFailed, Grows
  <2>3. stored[pl] \subseteq stored'[pl]
    BY <2>1 DEF Grows, Sinks
  <2>4. CASE UNCHANGED health /\ pc # ch
    <3>1. stored'[ch] = stored[ch]
      BY <2>1, <2>4 DEF QuietStep, SinkCall, SinkStep, Sinks
    <3>2. QED
      BY <2>2, <2>3, <2>4, <3>1 DEF HealthInv, OfComponent
  <2>5. CASE UpdateHealth /\ (Fails(ch, {}) \/ Fails(ch, attempts[Cur].rows))
    <3>1. ch \in attempts'[Cur].faults
      <4>1. attempts[Cur] \in Attempt
        BY <2>1 DEF IInv, Typed
      <4>2. QED
        BY <2>1, <2>5, <4>1 DEF Fails, Attempt
    <3>2. ~NoneFailed(Watched)'
      BY <2>1, <3>1 DEF NoneFailed
    <3>3. QED
      BY <3>2 DEF HealthInv
  <2>6. ASSUME UpdateHealth, Succeeds(ch), NoneFailed(Watched)',
               health' = Upserted(attempts[Cur].rows, attempts[Cur].flagged)
        PROVE  /\ \A c \in Component :
                    health'[c].events = Cardinality(OfComponent(stored'[ch], c))
               /\ stored'[ch] \subseteq stored'[pl]
    <3> DEFINE rows == attempts[Cur].rows
               flagged == attempts[Cur].flagged
    <3>1. /\ \A c \in Component :
               health[c].events = Cardinality(OfComponent(stored[ch], c))
          /\ stored[ch] \subseteq stored[pl]
      BY <2>2, <2>6 DEF HealthInv
    <3>2. pc = ch /\ pc \in Running \ {"commit"} /\ ch \in Sinks \ Tried(pc) /\ pl \in Tried(pc)
      BY <2>6 DEF UpdateHealth, Running, Busy, Steps, Sinks, Tried
    <3>3. rows \subseteq Offset
      BY <3>2, RunningAttempt
    <3>4. stored'[ch] = stored[ch] \cup ({Cur} \X rows)
      BY <2>6, PutGrows DEF Succeeds, IInv, Owed, Sinks
    <3>5. {Cur} \X rows \subseteq stored[pl]
      <4>1. DeliveredTo(Tried(pc), Cur, attempts[Cur])
        BY <3>2 DEF DInv, RunningInv
      <4>2. pl \notin attempts[Cur].faults
        BY <2>1, <2>2, <2>6 DEF NoneFailed
      <4>3. QED
        BY <3>2, <4>1, <4>2 DEF DeliveredTo, Owed
    <3>6. \A e \in stored[ch] : e[1] # Cur
      BY <3>2 DEF UntriedInv
    <3>7. ASSUME NEW c \in Component
          PROVE  health'[c].events = Cardinality(OfComponent(stored'[ch], c))
      <4> DEFINE R == {o \in rows : CompOf[o] = c}
                 A == OfComponent(stored[ch], c)
                 B == {Cur} \X R
      <4>1. OfComponent(stored'[ch], c) = A \cup B
        BY <3>4 DEF OfComponent
      <4>2. A \cap B = {}
        BY <3>6 DEF OfComponent
      <4>3. IsFiniteSet(A) /\ Cardinality(A) \in Nat
        BY StoredFinite DEF Sinks
      <4>4. R \in SUBSET Offset
        BY <3>3
      <4>5. Cardinality(R) \in Nat
        BY <4>4, RowsAreFinite
      <4>6. health'[c].events = health[c].events + Cardinality(R)
        <5>1. health'[c] = IF Cardinality(R) = 0 THEN health[c]
                           ELSE [events    |-> health[c].events + Cardinality(R),
                                 anomalies |-> health[c].anomalies
                                    + Cardinality({o \in flagged : CompOf[o] = c}),
                                 status    |-> StatusOf(ErrorRate(
                                    Cardinality({o \in flagged : CompOf[o] = c}),
                                    Cardinality(R)))]
          BY <2>6 DEF Upserted, UpsertedOver
        <5>2. health[c].events \in Nat
          BY DEF IInv, Typed
        <5> HIDE DEF R
        <5>3. CASE Cardinality(R) = 0
          BY <5>1, <5>2, <5>3
        <5>4. CASE Cardinality(R) # 0
          BY <5>1, <5>4
        <5>5. QED
          BY <5>3, <5>4
      <4> HIDE DEF R, A
      <4>7. IsFiniteSet(B) /\ Cardinality(B) = Cardinality(R)
        BY <4>4, PairsCount
      <4> HIDE DEF B
      <4>8. Cardinality(A \cup B) = Cardinality(A) + Cardinality(B) - Cardinality(A \cap B)
        BY <4>3, <4>7, FS_Union
      <4>9. Cardinality(A \cap B) = 0
        BY <4>2, FS_EmptySet
      <4>10. health[c].events = Cardinality(A)
        BY <3>1 DEF A
      <4>11. QED
        BY <4>1, <4>3, <4>5, <4>6, <4>7, <4>8, <4>9, <4>10
    <3>8. QED
      BY <2>3, <3>1, <3>4, <3>5, <3>7
  <2>7. CASE /\ UpdateHealth /\ Succeeds(ch)
             /\ health' = Upserted(attempts[Cur].rows, attempts[Cur].flagged)
    <3>1. NoneFailed(Watched)' =>
            /\ \A c \in Component :
                 health'[c].events = Cardinality(OfComponent(stored'[ch], c))
            /\ stored'[ch] \subseteq stored'[pl]
      BY <2>6, <2>7
    <3>2. QED
      BY <3>1 DEF HealthInv, OfComponent
  <2>8. UpdateHealth =>
          \/ Fails(ch, {}) \/ Fails(ch, attempts[Cur].rows)
          \/ Succeeds(ch) /\ health' = Upserted(attempts[Cur].rows, attempts[Cur].flagged)
    BY DEF UpdateHealth
  <2>9. QED
    BY <1>2, <2>4, <2>5, <2>7, <2>8, TableWriters
<1>3. QED
  BY <1>1, <1>2

-----------------------------------------------------------------------------
(* The theorems.                                                           *)

LEMMA InitTInv == Init => TInv
<1> SUFFICES ASSUME Init PROVE TInv
  OBVIOUS
<1>1. /\ pc = "down" /\ attempts = <<>> /\ modelMetrics = {}
      /\ \A s \in Sinks : stored[s] = {}
      /\ \A a \in Artefacts : saved[a] = 0
      /\ \A c \in Component : health[c].events = 0
  BY DEF Init
<1>2. OwedInv /\ UntriedInv /\ SavedInv /\ MetricsInv
  BY <1>1 DEF OwedInv, UntriedInv, SavedInv, MetricsInv, Running, Busy, Artefacts, Cur
<1>3. HealthInv
  <2>1. \A c : OfComponent({}, c) = {}
    BY DEF OfComponent
  <2>2. stored["component_health"] = {} /\ stored["processed_logs"] = {}
    BY <1>1 DEF Sinks
  <2>3. Cardinality({}) = 0
    BY FS_EmptySet
  <2>4. QED
    BY <1>1, <2>1, <2>2, <2>3 DEF HealthInv
<1>4. QED
  BY <1>2, <1>3 DEF TInv

LEMMA NextKeepsTInv == IInv /\ DInv /\ TInv /\ [Next]_vars => TInv'
<1> SUFFICES ASSUME IInv, DInv, TInv, [Next]_vars PROVE TInv'
  OBVIOUS
<1>1. Handle \/ Other
  BY DEF Next, Driver, Process, Handle, Other
<1>2. QED
  BY <1>1, OwedKept, UntriedKept, SavedKept, MetricsKept, HealthKept DEF TInv

\* The counts and the artefacts fit the sinks in every reachable state.
THEOREM TablesInvariance == Spec => []TInv
<1>1. Init => TInv
  BY InitTInv
<1>2. IInv /\ DInv /\ TInv /\ [Next]_vars => TInv'
  BY NextKeepsTInv
<1>3. QED
  BY <1>1, <1>2, Invariance, DeliveryInvariance, PTL DEF Spec

\* The two artefacts that a scorer loads together were fitted by one attempt, or the second
\* of them is being replaced, or the attempt that touched them last was cut off between
\* the two saves or failed in one: a crash or a failure elsewhere never parts them.
THEOREM ArtefactsMatch == Spec => []SavedModelsMatch
<1>1. TInv => SavedModelsMatch
  BY DEF TInv, SavedInv, SavedModelsMatch, Interrupted
<1>2. QED
  BY <1>1, TablesInvariance, PTL

\* While neither component_health nor processed_logs has failed, the totals of a
\* component lie between the rows of the finished attempts and the copies in the
\* lakehouse, through any number of crashes and replays.
THEOREM HealthBounded == Spec => []HealthBetween
<1> DEFINE pl == "processed_logs"
           ch == "component_health"
<1>1. ASSUME IInv, DInv, TInv, NoneFailed({pl, ch}), NEW c \in Component
      PROVE  /\ health[c].events <= Cardinality(OfComponent(stored[pl], c))
             /\ health[c].events >=
                  Cardinality({o \in Offset : /\ CompOf[o] = c
                                              /\ \E k \in DOMAIN attempts :
                                                   /\ attempts[k].outcome = "written"
                                                   /\ o \in attempts[k].rows})
  <2> DEFINE W == OfComponent(stored[ch], c)
             L == {o \in Offset : /\ CompOf[o] = c
                                  /\ \E k \in DOMAIN attempts :
                                       /\ attempts[k].outcome = "written"
                                       /\ o \in attempts[k].rows}
             I == {e[2] : e \in W}
  <2>1. health[c].events = Cardinality(W) /\ stored[ch] \subseteq stored[pl]
    BY <1>1 DEF TInv, HealthInv
  <2>2. IsFiniteSet(W) /\ Cardinality(W) \in Nat
    BY <1>1, StoredFinite DEF Sinks
  <2>3. Cardinality(W) <= Cardinality(OfComponent(stored[pl], c))
    <3>1. W \subseteq OfComponent(stored[pl], c)
      BY <2>1 DEF OfComponent
    <3>2. IsFiniteSet(OfComponent(stored[pl], c))
      BY <1>1, StoredFinite DEF Sinks
    <3>3. QED
      BY <3>1, <3>2, FS_Subset
  <2>4. L \subseteq I
    <3>1. ASSUME NEW o \in Offset, CompOf[o] = c, NEW k \in DOMAIN attempts,
                 attempts[k].outcome = "written", o \in attempts[k].rows
          PROVE  o \in I
      <4>1. DeliveredTo(Sinks, k, attempts[k])
        BY <1>1, <3>1 DEF DInv, WrittenInv
      <4>2. ch \in Sinks \ attempts[k].faults
        BY <1>1 DEF NoneFailed, Sinks
      <4>3. <<k, o>> \in stored[ch]
        BY <3>1, <4>1, <4>2 DEF DeliveredTo, Owed
      <4>4. <<k, o>> \in W
        BY <3>1, <4>3 DEF OfComponent
      <4>5. QED
        BY <4>4
    <3>2. QED
      BY <3>1
  <2> HIDE DEF W, L
  <2>5. IsFiniteSet(I) /\ Cardinality(I) <= Cardinality(W)
    <3> DEFINE f == [e \in W |-> e[2]]
    <3>1. I = {f[e] : e \in W}
      OBVIOUS
    <3>2. f \in Surjection(W, I)
      BY DEF Surjection
    <3>3. QED
      BY <2>2, <3>2, FS_Surjection
  <2>6. Cardinality(L) <= Cardinality(I) /\ Cardinality(L) \in Nat /\ Cardinality(I) \in Nat
    BY <2>4, <2>5, FS_Subset, FS_CardinalityType
  <2>7. Cardinality(OfComponent(stored[pl], c)) \in Nat
    BY <1>1, StoredFinite DEF Sinks
  <2>8. QED
    BY <2>1, <2>2, <2>3, <2>5, <2>6, <2>7 DEF L
<1>2. IInv /\ DInv /\ TInv => HealthBetween
  BY <1>1 DEF HealthBetween, NoneFailed
<1>3. QED
  BY <1>2, Invariance, DeliveryInvariance, TablesInvariance, PTL

\* Four cells that part the labelled rows.
LEMMA CellsAddUp ==
    ASSUME NEW k, NEW labelled \in SUBSET Offset, NEW flagged,
           \A o \in labelled : Label[o] # "none"
    PROVE  LET m == Confusion(k, labelled, flagged)
           IN  /\ m.tp + m.fp = Cardinality(labelled \cap flagged)
               /\ m.tp + m.fp + m.tn + m.fn = Cardinality(labelled)
<1> DEFINE Cell(p, t) == {o \in labelled : (o \in flagged) = p /\ Label[o] = t}
<1>1. \A o \in labelled : Label[o] \in {"normal", "anomaly"}
  BY RowAssumption
<1>2. \A S \in SUBSET labelled : IsFiniteSet(S) /\ Cardinality(S) \in Nat
  BY RowsAreFinite
<1>3. ASSUME NEW S \in SUBSET labelled, NEW T \in SUBSET labelled, S \cap T = {}
      PROVE  Cardinality(S \cup T) = Cardinality(S) + Cardinality(T)
  <2>1. Cardinality(S \cup T) = Cardinality(S) + Cardinality(T) - Cardinality(S \cap T)
    BY <1>2, FS_Union
  <2>2. Cardinality(S \cap T) = 0
    BY <1>3, FS_EmptySet
  <2>3. QED
    BY <1>2, <2>1, <2>2
<1>4. /\ labelled \cap flagged = Cell(TRUE, "anomaly") \cup Cell(TRUE, "normal")
      /\ Cell(TRUE, "anomaly") \cap Cell(TRUE, "normal") = {}
  BY <1>1
<1>5. /\ labelled \ flagged = Cell(FALSE, "normal") \cup Cell(FALSE, "anomaly")
      /\ Cell(FALSE, "normal") \cap Cell(FALSE, "anomaly") = {}
  BY <1>1
<1>6. \A p, t : Cell(p, t) \in SUBSET labelled
  OBVIOUS
<1>7. \A p, t : Count(labelled, flagged, p, t) = Cardinality(Cell(p, t))
  BY DEF Count
<1> HIDE DEF Cell
<1>8. Cardinality(labelled \cap flagged)
        = Cardinality(Cell(TRUE, "anomaly")) + Cardinality(Cell(TRUE, "normal"))
  BY <1>3, <1>4, <1>6
<1>9. Cardinality(labelled \ flagged)
        = Cardinality(Cell(FALSE, "normal")) + Cardinality(Cell(FALSE, "anomaly"))
  BY <1>3, <1>5, <1>6
<1>10. Cardinality(labelled) = Cardinality(labelled \cap flagged) + Cardinality(labelled \ flagged)
  <2>1. /\ labelled = (labelled \cap flagged) \cup (labelled \ flagged)
        /\ (labelled \cap flagged) \cap (labelled \ flagged) = {}
    OBVIOUS
  <2>2. QED
    BY <1>3, <2>1
<1>11. \A p, t : Cardinality(Cell(p, t)) \in Nat
  BY <1>2, <1>6
<1> DEFINE m == Confusion(k, labelled, flagged)
<1>12. /\ m.tp = Cardinality(Cell(TRUE, "anomaly")) /\ m.fp = Cardinality(Cell(TRUE, "normal"))
       /\ m.tn = Cardinality(Cell(FALSE, "normal")) /\ m.fn = Cardinality(Cell(FALSE, "anomaly"))
  BY <1>7 DEF Confusion
<1> HIDE DEF m
<1>13. m.tp + m.fp = Cardinality(labelled \cap flagged)
  BY <1>8, <1>12
<1>14. m.tn + m.fn = Cardinality(labelled \ flagged)
  BY <1>9, <1>12
<1>15. m.tp \in Nat /\ m.fp \in Nat /\ m.tn \in Nat /\ m.fn \in Nat
  BY <1>11, <1>12
<1>16. m.tp + m.fp + m.tn + m.fn = (m.tp + m.fp) + (m.tn + m.fn)
  BY <1>15
<1>17. QED
  BY <1>10, <1>13, <1>14, <1>16 DEF m

\* The row of model_metrics of an attempt counts the labelled rows that the other sinks
\* hold of it: tp + fp are its labelled alerts, the four cells its labelled rows.
THEOREM MetricsAgree == Spec => []MetricsAgreeWithAlerts
<1>1. ASSUME IInv, TInv, NEW m \in modelMetrics
      PROVE  LET of(s) == {e \in stored[s] : e[1] = m.attempt /\ Label[e[2]] # "none"}
                 faults == attempts[m.attempt].faults
             IN  /\ "processed_logs" \notin faults =>
                      m.tp + m.fp + m.tn + m.fn = Cardinality(of("processed_logs"))
                 /\ "critical_alerts" \notin faults =>
                      m.tp + m.fp = Cardinality(of("critical_alerts"))
  <2> DEFINE k == m.attempt
             a == attempts[k]
             labelled == {o \in a.rows : Label[o] # "none"}
             of(s) == {e \in stored[s] : e[1] = k /\ Label[e[2]] # "none"}
  <2>1. /\ k \in DOMAIN attempts /\ m = Confusion(k, labelled, a.flagged)
        /\ DeliveredTo(Sinks \ {"model_metrics"}, k, a)
    BY <1>1 DEF TInv, MetricsInv, Owed
  <2>2. a \in Attempt /\ a.flagged \subseteq a.rows
    BY <1>1, <2>1 DEF IInv, Typed, AttemptInv
  <2>3. labelled \in SUBSET Offset /\ labelled \cap a.flagged \in SUBSET Offset
    BY <2>2 DEF Attempt
  <2>4. /\ m.tp + m.fp = Cardinality(labelled \cap a.flagged)
        /\ m.tp + m.fp + m.tn + m.fn = Cardinality(labelled)
    BY <2>1, <2>3, CellsAddUp
  <2>5. \A s \in Sinks : stored[s] \subseteq Nat \X Offset
    BY <1>1 DEF IInv, Typed
  <2>6. \A s \in Sinks : \A e \in stored[s] : e[1] = k => e[2] \in Owed(s, a)
    BY <1>1 DEF TInv, OwedInv
  <2>7. ASSUME "processed_logs" \notin a.faults
        PROVE  of("processed_logs") = {k} \X labelled
    <3>1. {k} \X a.rows \subseteq stored["processed_logs"]
      BY <2>1, <2>7 DEF DeliveredTo, Sinks, Owed
    <3>2. \A e \in stored["processed_logs"] : e[1] = k => e[2] \in a.rows
      BY <2>6 DEF Sinks, Owed
    <3>3. stored["processed_logs"] \subseteq Nat \X Offset
      BY <2>5 DEF Sinks
    <3>4. QED
      BY <3>1, <3>2, <3>3
  <2>8. ASSUME "critical_alerts" \notin a.faults
        PROVE  of("critical_alerts") = {k} \X (labelled \cap a.flagged)
    <3>1. {k} \X a.flagged \subseteq stored["critical_alerts"]
      BY <2>1, <2>8 DEF DeliveredTo, Sinks, Owed
    <3>2. \A e \in stored["critical_alerts"] : e[1] = k => e[2] \in a.flagged
      BY <2>6 DEF Sinks, Owed
    <3>3. stored["critical_alerts"] \subseteq Nat \X Offset
      BY <2>5 DEF Sinks
    <3>4. QED
      BY <2>2, <3>1, <3>2, <3>3
  <2> HIDE DEF labelled, of
  <2>9. /\ Cardinality({k} \X labelled) = Cardinality(labelled)
        /\ Cardinality({k} \X (labelled \cap a.flagged)) = Cardinality(labelled \cap a.flagged)
    BY <2>3, PairsCount
  <2>10. "processed_logs" \notin a.faults =>
            m.tp + m.fp + m.tn + m.fn = Cardinality(of("processed_logs"))
    BY <2>4, <2>7, <2>9
  <2>11. "critical_alerts" \notin a.faults => m.tp + m.fp = Cardinality(of("critical_alerts"))
    BY <2>4, <2>8, <2>9
  <2>12. QED
    BY <2>10, <2>11 DEF of
<1>2. IInv /\ TInv => MetricsAgreeWithAlerts
  BY <1>1 DEF MetricsAgreeWithAlerts
<1>3. QED
  BY <1>2, Invariance, TablesInvariance, PTL

=============================================================================
