-------------------- MODULE StreamProcessorDelivery_proofs --------------------
(***************************************************************************)
(* What becomes of a record: proofs that every record of a committed batch *)
(* is accounted for, and that the sinks of an attempt fill in order.  The  *)
(* invariant of StreamProcessor_proofs is strengthened by what the running *)
(* attempt has delivered at each step of the handler, and by the attempt   *)
(* that every committed batch has to show for itself.                      *)
(***************************************************************************)
EXTENDS StreamProcessor_proofs

\* The sinks the handler has tried when it is at step p.
Tried(p) ==
    CASE p = "critical_alerts"   -> {"processed_logs"}
      [] p = "batch_metrics"     -> {"processed_logs", "critical_alerts"}
      [] p = "anomaly_alerts_pg" -> {"processed_logs", "critical_alerts",
                                     "batch_metrics"}
      [] p = "component_health"  -> {"processed_logs", "critical_alerts",
                                     "batch_metrics", "anomaly_alerts_pg"}
      [] p = "model_metrics"     -> Sinks \ {"model_metrics"}
      [] OTHER                   -> {}

\* Attempt a, the k-th, is in each sink of S it did not record as failed.
DeliveredTo(S, k, a) ==
    \A s \in S \ a.faults : {k} \X Owed(s, a) \subseteq stored[s]

\* The attempt holds whatever part of its batch has not expired.
Covers(k, b) ==
    \A o \in RangeOf(b) \cap Parsed : o <= logStart \/ o \in attempts[k].rows

\* The running attempt: it covers the planned batch, has delivered to the sinks
\* it tried, and has an outcome only when the handler is about to return.
RunningInv ==
    /\ pc \in Running => Covers(Cur, Planned)
    /\ pc \in Running \ {"commit"} => attempts[Cur].outcome = "running"
    /\ pc = "commit" => Returned(Cur)
    /\ pc \in Sinks => DeliveredTo(Tried(pc), Cur, attempts[Cur])

WrittenInv ==
    \A k \in DOMAIN attempts :
        attempts[k].outcome = "written" => DeliveredTo(Sinks, k, attempts[k])

\* Every committed batch has an attempt that returned and covers it.
CommitInv ==
    \A b \in 1..committed : \E k \in DOMAIN attempts :
        attempts[k].batch = b /\ Returned(k) /\ Covers(k, b)

\* The batches leave no gap: what lies under an end offset is in some batch.
GaplessInv ==
    \A n \in 0..Planned : \A o \in Offset :
        offsets[1] < o /\ o <= offsets[n + 1] => \E b \in 1..n : o \in RangeOf(b)

DInv == RunningInv /\ WrittenInv /\ CommitInv /\ GaplessInv /\ AlertsFollowDelta

-----------------------------------------------------------------------------
(* The handler: sinks and recorded faults only grow.                       *)

Grows == /\ \A s \in Sinks : stored[s] \subseteq stored'[s]
         /\ \A k \in DOMAIN attempts : attempts[k].faults \subseteq attempts'[k].faults

\* A sink's call: it leaves the sink delivered or failed, and the rest as it was.
SinkStep(s) ==
    /\ Grows
    /\ \A t \in Sinks \ {s} : stored'[t] = stored[t]
    /\ attempts'[Cur].rows = attempts[Cur].rows
    /\ attempts'[Cur].flagged = attempts[Cur].flagged
    /\ attempts'[Cur].faults \in {attempts[Cur].faults, attempts[Cur].faults \cup {s}}
    /\ s \in attempts'[Cur].faults \/ {Cur} \X Owed(s, attempts[Cur]) \subseteq stored'[s]
    /\ \A e \in stored'[s] \ stored[s] : e \in {Cur} \X Owed(s, attempts[Cur])

LEMMA PutGrows ==
    ASSUME Typed, NEW s \in Sinks, NEW P, Put(s, P)
    PROVE  /\ \A t \in Sinks : stored[t] \subseteq stored'[t]
           /\ \A t \in Sinks \ {s} : stored'[t] = stored[t]
           /\ stored'[s] = stored[s] \cup ({Cur} \X P)
  BY DEF Put, Typed

LEMMA SucceedsStep ==
    ASSUME IInv, pc \in Running, NEW s \in Sinks, Succeeds(s)
    PROVE  SinkStep(s) /\ UNCHANGED attempts
<1>1. UNCHANGED attempts /\ Put(s, Owed(s, attempts[Cur]))
  BY DEF Succeeds
<1>2. QED
  BY <1>1, PutGrows DEF SinkStep, Grows, IInv

LEMMA FailsStep ==
    ASSUME IInv, pc \in Running, NEW s \in Sinks,
           NEW P \in SUBSET Owed(s, attempts[Cur]), Fails(s, P)
    PROVE  SinkStep(s) /\ attempts'[Cur].outcome = attempts[Cur].outcome
<1>1. /\ Cur \in DOMAIN attempts /\ attempts[Cur] \in Attempt
      /\ attempts' = [attempts EXCEPT ![Cur].faults = @ \cup {s}]
  BY RunningAttempt DEF Fails
<1>2. /\ attempts'[Cur].rows = attempts[Cur].rows
      /\ attempts'[Cur].flagged = attempts[Cur].flagged
      /\ attempts'[Cur].outcome = attempts[Cur].outcome
      /\ attempts'[Cur].faults = attempts[Cur].faults \cup {s}
      /\ \A k \in DOMAIN attempts : attempts[k].faults \subseteq attempts'[k].faults
  BY <1>1 DEF Attempt
<1>3. Put(s, P)
  BY DEF Fails
<1>4. QED
  BY <1>2, <1>3, PutGrows DEF SinkStep, Grows, IInv

\* The steps before the first sink: they touch no sink, and either go on or end
\* the attempt before anything is written.
QuietStep ==
    /\ UNCHANGED stored
    /\ Grows
    /\ pc \in Running \ ({"commit"} \cup Sinks)
    /\ attempts'[Cur].faults \cap Sinks = attempts[Cur].faults \cap Sinks
    /\ \/ /\ pc' \in Running \ ({"commit"} \cup (Sinks \ {"processed_logs"}))
          /\ attempts'[Cur].outcome = attempts[Cur].outcome
       \/ /\ pc' = "commit"
          /\ attempts'[Cur].outcome \in {"untrained", "unscored"}

LEMMA QuietSteps ==
    ASSUME IInv, Fit \/ TrainingFails \/ SaveNlp \/ SaveKMeans \/ KeepModel \/ Infer
    PROVE  QuietStep
<1> USE DEF Running, Busy, Steps, Training, Sinks
<1>1. pc \in Running /\ Cur \in DOMAIN attempts /\ attempts[Cur] \in Attempt
  BY RunningAttempt DEF Fit, TrainingFails, SaveNlp, SaveKMeans, Save, KeepModel, Infer
<1>2. CASE Fit \/ KeepModel
  BY <1>2 DEF Fit, KeepModel, QuietStep, Grows
<1>3. ASSUME NEW how \in {"untrained", "unscored"}, Finish(how)
      PROVE  attempts'[Cur].outcome = how
             /\ \A k \in DOMAIN attempts : attempts'[k].faults = attempts[k].faults
  BY <1>1, <1>3 DEF Finish, Attempt
<1>4. CASE TrainingFails
  BY <1>1, <1>3, <1>4 DEF TrainingFails, QuietStep, Grows
<1>5. ASSUME NEW artefact, NEW step \in Training, NEW next \in Training,
             Save(artefact, step, next)
      PROVE  QuietStep
  <2>1. CASE UNCHANGED attempts
    BY <1>5, <2>1 DEF Save, QuietStep, Grows
  <2>2. CASE /\ attempts' = [attempts EXCEPT ![Cur].faults = @ \cup {"saved_models"}]
             /\ pc' = "cluster"
    <3>1. /\ attempts'[Cur].outcome = attempts[Cur].outcome
          /\ attempts'[Cur].faults = attempts[Cur].faults \cup {"saved_models"}
          /\ \A k \in DOMAIN attempts : attempts[k].faults \subseteq attempts'[k].faults
      BY <1>1, <2>2 DEF Attempt
    <3>2. QED
      BY <1>5, <2>2, <3>1 DEF Save, QuietStep, Grows
  <2>3. QED
    BY <1>5, <2>1, <2>2 DEF Save
<1>6. CASE SaveNlp \/ SaveKMeans
  BY <1>5, <1>6 DEF SaveNlp, SaveKMeans
<1>7. CASE Infer
  <2>1. CASE Finish("unscored") /\ pc' = "commit"
    BY <1>1, <1>3, <1>7, <2>1 DEF Infer, QuietStep, Grows
  <2>2. CASE /\ attempts' = [attempts EXCEPT ![Cur].flagged =
                                 attempts[Cur].rows \cap Flags[model]]
             /\ pc' = "processed_logs"
    <3>1. /\ attempts'[Cur].outcome = attempts[Cur].outcome
          /\ \A k \in DOMAIN attempts : attempts[k].faults = attempts'[k].faults
      BY <1>1, <2>2 DEF Attempt
    <3>2. QED
      BY <1>7, <2>2, <3>1 DEF Infer, QuietStep, Grows
  <2>3. QED
    BY <1>7, <2>1, <2>2 DEF Infer
<1>8. QED
  BY <1>2, <1>4, <1>6, <1>7

\* A sink that is not the last: the handler goes on to the next one.
MiddleSink(s, next) ==
    /\ pc = s /\ pc' = next
    /\ next \in Sinks
    /\ Tried(next) = Tried(s) \cup {s}
    /\ SinkStep(s)
    /\ attempts'[Cur].outcome = attempts[Cur].outcome

LEMMA MiddleSinks ==
    ASSUME IInv, WriteDelta \/ PublishAlerts \/ WriteBatchMetrics
                 \/ WriteAnomalyAlerts \/ UpdateHealth
    PROVE  \E s \in Sinks, next \in Sinks : MiddleSink(s, next)
<1> DEFINE a == attempts[Cur]
<1>1. pc \in Running
  BY DEF WriteDelta, PublishAlerts, WriteBatchMetrics, WriteAnomalyAlerts,
         UpdateHealth, Running, Busy, Steps, Sinks
<1>2. ASSUME NEW s \in Sinks, NEW P, P \in SUBSET Owed(s, a), Fails(s, P)
      PROVE  SinkStep(s) /\ attempts'[Cur].outcome = attempts[Cur].outcome
  BY <1>1, <1>2, FailsStep
<1>3. ASSUME NEW s \in Sinks, Succeeds(s)
      PROVE  SinkStep(s) /\ attempts'[Cur].outcome = attempts[Cur].outcome
  BY <1>1, <1>3, SucceedsStep
<1>4. CASE WriteDelta
  <2>1. SinkStep("processed_logs") /\ attempts'[Cur].outcome = attempts[Cur].outcome
    BY <1>2, <1>3, <1>4 DEF WriteDelta, Owed, Sinks
  <2>2. MiddleSink("processed_logs", "critical_alerts")
    BY <1>4, <2>1 DEF WriteDelta, MiddleSink, Tried, Sinks
  <2>3. QED
    BY <2>2 DEF Sinks
<1>5. CASE PublishAlerts
  <2>1. SinkStep("critical_alerts") /\ attempts'[Cur].outcome = attempts[Cur].outcome
    BY <1>2, <1>3, <1>5 DEF PublishAlerts, Owed, Sinks
  <2>2. MiddleSink("critical_alerts", "batch_metrics")
    BY <1>5, <2>1 DEF PublishAlerts, MiddleSink, Tried, Sinks
  <2>3. QED
    BY <2>2 DEF Sinks
<1>6. CASE WriteBatchMetrics
  <2>1. SinkStep("batch_metrics") /\ attempts'[Cur].outcome = attempts[Cur].outcome
    <3>1. CASE Succeeds("batch_metrics")
      BY <1>3, <3>1 DEF Sinks
    <3>2. CASE \E P \in DatedGroups(a.rows) : Fails("batch_metrics", P)
      <4>1. PICK P \in DatedGroups(a.rows) : Fails("batch_metrics", P)
        BY <3>2
      <4>2. P \in SUBSET Owed("batch_metrics", a)
        BY <4>1 DEF DatedGroups, Owed
      <4>3. QED
        BY <1>2, <4>1, <4>2 DEF Sinks
    <3>3. QED
      BY <1>6, <3>1, <3>2 DEF WriteBatchMetrics
  <2>2. MiddleSink("batch_metrics", "anomaly_alerts_pg")
    BY <1>6, <2>1 DEF WriteBatchMetrics, MiddleSink, Tried, Sinks
  <2>3. QED
    BY <2>2 DEF Sinks
<1>7. CASE WriteAnomalyAlerts
  <2>1. SinkStep("anomaly_alerts_pg") /\ attempts'[Cur].outcome = attempts[Cur].outcome
    BY <1>2, <1>3, <1>7 DEF WriteAnomalyAlerts, Owed, Sinks
  <2>2. MiddleSink("anomaly_alerts_pg", "component_health")
    BY <1>7, <2>1 DEF WriteAnomalyAlerts, MiddleSink, Tried, Sinks
  <2>3. QED
    BY <2>2 DEF Sinks
<1>8. CASE UpdateHealth
  <2>1. SinkStep("component_health") /\ attempts'[Cur].outcome = attempts[Cur].outcome
    BY <1>2, <1>3, <1>8 DEF UpdateHealth, Owed, Sinks
  <2>2. MiddleSink("component_health", "model_metrics")
    BY <1>8, <2>1 DEF UpdateHealth, MiddleSink, Tried, Sinks
  <2>3. QED
    BY <2>2 DEF Sinks
<1>9. QED
  BY <1>4, <1>5, <1>6, <1>7, <1>8

\* The last sink ends the attempt.
LEMMA LastSink ==
    ASSUME IInv, WriteModelMetrics
    PROVE  /\ pc = "model_metrics" /\ pc' = "commit"
           /\ SinkStep("model_metrics") /\ attempts'[Cur].outcome = "written"
<1> DEFINE P == Owed("model_metrics", attempts[Cur])
<1>1. pc = "model_metrics" /\ pc' = "commit" /\ pc \in Running
  BY DEF WriteModelMetrics, Running, Busy, Steps, Sinks
<1>2. PICK faults \in {{}, {"model_metrics"}} :
           /\ attempts' = [attempts EXCEPT
                  ![Cur].faults = @ \cup faults, ![Cur].outcome = "written"]
           /\ \/ Put("model_metrics", P)
              \/ UNCHANGED stored /\ faults = {"model_metrics"}
  BY DEF WriteModelMetrics
<1> HIDE DEF P
<1>3. /\ attempts'[Cur].rows = attempts[Cur].rows
      /\ attempts'[Cur].flagged = attempts[Cur].flagged
      /\ attempts'[Cur].outcome = "written"
      /\ attempts'[Cur].faults = attempts[Cur].faults \cup faults
      /\ \A k \in DOMAIN attempts : attempts[k].faults \subseteq attempts'[k].faults
  BY <1>1, <1>2, RunningAttempt DEF Attempt
<1>4. /\ \A t \in Sinks : stored[t] \subseteq stored'[t]
      /\ \A t \in Sinks \ {"model_metrics"} : stored'[t] = stored[t]
      /\ \/ stored'["model_metrics"] = stored["model_metrics"] \cup ({Cur} \X P)
         \/ UNCHANGED stored /\ faults = {"model_metrics"}
  BY <1>2, PutGrows DEF IInv, Sinks
<1>5. SinkStep("model_metrics")
  BY <1>3, <1>4 DEF SinkStep, Grows, P, Sinks
<1>6. QED
  BY <1>1, <1>3, <1>5

-----------------------------------------------------------------------------
(* Every step of the handler keeps the delivery invariant.                 *)

\* What the handler does not touch: the checkpoint, the log, and every attempt
\* but its own, whose batch is not committed.
LEMMA HandleKeepsCommits ==
    ASSUME IInv, DInv, Handle
    PROVE  /\ CommitInv' /\ GaplessInv'
           /\ pc' \in Running /\ Covers(Cur, Planned)'
<1>1. HandleFrame
  BY HandleIsFramed
<1>2. /\ UNCHANGED <<offsets, committed, logStart, Planned>>
      /\ \A b : RangeOf(b)' = RangeOf(b)
      /\ Cur' = Cur /\ DOMAIN attempts' = DOMAIN attempts
  BY <1>1 DEF HandleFrame, Evolves, checkpoint, kafkaVars, Planned, RangeOf, IInv,
              Typed, Cur
<1>3. GaplessInv'
  BY <1>2 DEF DInv, GaplessInv
<1>4. CommitInv'
  <2> SUFFICES ASSUME NEW b \in 1..committed
               PROVE  \E k \in DOMAIN attempts :
                         (attempts[k].batch = b /\ Returned(k) /\ Covers(k, b))'
    BY <1>2 DEF CommitInv
  <2>1. PICK k \in DOMAIN attempts :
             attempts[k].batch = b /\ Returned(k) /\ Covers(k, b)
    BY DEF DInv, CommitInv
  <2>2. k # Cur
    <3>1. attempts[Cur].batch = Planned /\ committed = Planned - 1 /\ committed \in Nat
      BY <1>1 DEF HandleFrame, IInv, Typed, AttemptInv, EngineInv, Running, Busy
    <3>2. Planned \in Int
      BY DEF IInv, Typed, Planned
    <3>3. QED
      BY <2>1, <3>1, <3>2
  <2>3. attempts'[k] = attempts[k]
    BY <1>1, <2>2 DEF HandleFrame, Evolves
  <2>4. QED
    BY <1>2, <2>1, <2>3 DEF Returned, Covers
<1>5. Covers(Cur, Planned)'
  <2>1. Cur \in DOMAIN attempts /\ Covers(Cur, Planned)
    BY <1>1, RunningAttempt DEF HandleFrame, DInv, RunningInv
  <2>2. attempts'[Cur].rows = attempts[Cur].rows
    BY <1>1, <2>1 DEF HandleFrame, Evolves
  <2>3. QED
    BY <1>2, <2>1, <2>2 DEF Covers
<1>6. QED
  BY <1>1, <1>3, <1>4, <1>5 DEF HandleFrame

\* The attempts that are written stay delivered, as sinks and faults only grow.
LEMMA OthersStayWritten ==
    ASSUME IInv, DInv, HandleFrame, Grows, NEW k \in DOMAIN attempts', k # Cur,
           attempts'[k].outcome = "written"
    PROVE  DeliveredTo(Sinks, k, attempts[k])'
<1>1. k \in DOMAIN attempts /\ attempts'[k] = attempts[k]
  BY DEF HandleFrame, Evolves, IInv, Typed
<1>2. DeliveredTo(Sinks, k, attempts[k])
  BY <1>1 DEF DInv, WrittenInv
<1>3. \A s : Owed(s, attempts[k])' = Owed(s, attempts[k])
  BY <1>1 DEF Owed
<1>4. QED
  BY <1>1, <1>2, <1>3 DEF DeliveredTo, Grows

\* A sink's call adds its own sink to those the attempt has delivered to.
LEMMA SinkDelivers ==
    ASSUME IInv, DInv, Handle, NEW s \in Sinks, pc = s, SinkStep(s)
    PROVE  DeliveredTo(Tried(s) \cup {s}, Cur, attempts[Cur])'
<1>1. HandleFrame /\ Cur' = Cur
  BY HandleIsFramed DEF HandleFrame, Evolves, Cur
<1>2. \A t : Owed(t, attempts[Cur])' = Owed(t, attempts[Cur])
  BY <1>1 DEF SinkStep, Owed
<1>3. DeliveredTo(Tried(s), Cur, attempts[Cur]) /\ Tried(s) \subseteq Sinks
  BY DEF DInv, RunningInv, Tried, Sinks
<1>4. ASSUME NEW t \in Tried(s) \cup {s}, t \notin attempts'[Cur].faults
      PROVE  {Cur} \X Owed(t, attempts[Cur]) \subseteq stored'[t]
  <2>1. CASE t = s
    BY <1>4, <2>1 DEF SinkStep
  <2>2. CASE t \in Tried(s) /\ t # s
    <3>1. t \notin attempts[Cur].faults
      BY <1>4, <2>2 DEF SinkStep
    <3>2. {Cur} \X Owed(t, attempts[Cur]) \subseteq stored[t]
      BY <1>3, <2>2, <3>1 DEF DeliveredTo
    <3>3. QED
      BY <1>3, <2>2, <3>2 DEF SinkStep, Grows
  <2>3. QED
    BY <2>1, <2>2
<1>5. QED
  BY <1>1, <1>2, <1>4 DEF DeliveredTo

\* The order of the sinks holds for the rows they gain, and stays for the others.
LEMMA SinkKeepsOrder ==
    ASSUME IInv, DInv, Handle, NEW s \in Sinks, pc = s, SinkStep(s)
    PROVE  AlertsFollowDelta'
<1>1. HandleFrame /\ Cur' = Cur /\ Cur \in DOMAIN attempts
      /\ attempts[Cur].flagged \subseteq attempts[Cur].rows
  BY HandleIsFramed, RunningAttempt DEF HandleFrame, Evolves, Cur
<1>2. ASSUME NEW late \in {"critical_alerts", "anomaly_alerts_pg"},
             NEW early \in {"processed_logs", "critical_alerts"},
             late = "critical_alerts" => early = "processed_logs",
             NEW e \in stored'[late]
      PROVE  e \in stored'[early] \/ early \in attempts'[e[1]].faults
  <2>1. late \in Sinks /\ early \in Sinks
    BY DEF Sinks
  <2>2. CASE e \in stored[late]
    <3>1. e[1] \in DOMAIN attempts
      BY <2>1, <2>2 DEF IInv, StoredInv
    <3>2. e \in stored[early] \/ early \in attempts[e[1]].faults
      BY <1>2, <2>2 DEF DInv, AlertsFollowDelta
    <3>3. QED
      BY <2>1, <3>1, <3>2 DEF SinkStep, Grows
  <2>3. CASE e \notin stored[late]
    <3>1. s = late /\ e \in {Cur} \X Owed(late, attempts[Cur])
      BY <1>2, <2>1, <2>3 DEF SinkStep
    <3>2. early \in Tried(s)
      BY <1>2, <3>1 DEF Tried
    <3>3. e \in {Cur} \X Owed(early, attempts[Cur])
      BY <1>1, <3>1 DEF Owed
    <3>4. early \in attempts[Cur].faults
          \/ {Cur} \X Owed(early, attempts[Cur]) \subseteq stored[early]
      BY <3>2 DEF DInv, RunningInv, DeliveredTo
    <3>5. e[1] = Cur
      BY <3>1
    <3>6. QED
      BY <1>1, <2>1, <3>3, <3>4, <3>5 DEF SinkStep, Grows
  <2>4. QED
    BY <2>2, <2>3
<1>3. QED
  BY <1>2 DEF AlertsFollowDelta

LEMMA HandleKeepsDInv ==
    ASSUME IInv, DInv, Handle
    PROVE  DInv'
<1>1. HandleFrame /\ Cur' = Cur /\ Cur \in DOMAIN attempts
  BY HandleIsFramed, RunningAttempt DEF HandleFrame, Evolves, Cur
<1>2. CommitInv' /\ GaplessInv' /\ pc' \in Running /\ Covers(Cur, Planned)'
  BY HandleKeepsCommits
<1>3. CASE QuietStep
  <2>1. attempts[Cur].outcome = "running"
    BY <1>3 DEF QuietStep, DInv, RunningInv
  <2>2. RunningInv'
    <3>1. pc' \in Sinks => Tried(pc') = {}
      BY <1>3 DEF QuietStep, Tried, Sinks, Running, Busy, Steps, Training
    <3>2. pc' \in Running \ {"commit"} => attempts'[Cur].outcome = "running"
      BY <1>3, <2>1 DEF QuietStep
    <3>3. pc' = "commit" => attempts'[Cur].outcome \in {"untrained", "unscored"}
      BY <1>3 DEF QuietStep
    <3>4. QED
      BY <1>1, <1>2, <3>1, <3>2, <3>3 DEF RunningInv, DeliveredTo, Returned
  <2>3. attempts'[Cur].outcome # "written"
    BY <1>3, <2>1 DEF QuietStep
  <2>4. WrittenInv'
    BY <1>1, <1>3, <2>3, OthersStayWritten DEF WrittenInv, QuietStep
  <2>5. AlertsFollowDelta'
    <3>1. \A s \in Sinks : \A e \in stored[s] : e[1] \in DOMAIN attempts
      BY DEF IInv, StoredInv
    <3>2. QED
      BY <1>3, <3>1 DEF QuietStep, Grows, DInv, AlertsFollowDelta, Sinks
  <2>6. QED
    BY <1>2, <2>2, <2>4, <2>5 DEF DInv
<1>4. CASE \E s \in Sinks, next \in Sinks : MiddleSink(s, next)
  <2>1. PICK s \in Sinks, next \in Sinks : MiddleSink(s, next)
    BY <1>4
  <2>2. attempts[Cur].outcome = "running" /\ attempts'[Cur].outcome = "running"
    BY <1>1, <2>1 DEF MiddleSink, HandleFrame, DInv, RunningInv, Sinks
  <2>3. DeliveredTo(Tried(pc), Cur, attempts[Cur])'
    BY <2>1, SinkDelivers DEF MiddleSink
  <2>4. RunningInv'
    BY <1>1, <1>2, <2>1, <2>2, <2>3 DEF RunningInv, MiddleSink, Sinks
  <2>5. WrittenInv'
    BY <1>1, <2>1, <2>2, OthersStayWritten DEF WrittenInv, MiddleSink, SinkStep
  <2>6. AlertsFollowDelta'
    BY <2>1, SinkKeepsOrder DEF MiddleSink
  <2>7. QED
    BY <1>2, <2>4, <2>5, <2>6 DEF DInv
<1>5. CASE WriteModelMetrics
  <2>1. /\ pc = "model_metrics" /\ pc' = "commit"
        /\ SinkStep("model_metrics") /\ attempts'[Cur].outcome = "written"
    BY <1>5, LastSink
  <2>2. DeliveredTo(Sinks, Cur, attempts[Cur])'
    <3>1. Tried("model_metrics") \cup {"model_metrics"} = Sinks
      BY DEF Tried, Sinks
    <3>2. DeliveredTo(Tried("model_metrics") \cup {"model_metrics"}, Cur, attempts[Cur])'
      BY <2>1, SinkDelivers DEF Sinks
    <3>3. QED
      BY <3>1, <3>2
  <2>3. RunningInv'
    BY <1>1, <1>2, <2>1 DEF RunningInv, Returned, Sinks
  <2>4. WrittenInv'
    BY <1>1, <2>1, <2>2, OthersStayWritten DEF WrittenInv, SinkStep
  <2>5. AlertsFollowDelta'
    BY <2>1, SinkKeepsOrder DEF Sinks
  <2>6. QED
    BY <1>2, <2>3, <2>4, <2>5 DEF DInv
<1>6. QED
  BY <1>3, <1>4, <1>5, QuietSteps, MiddleSinks DEF Handle

-----------------------------------------------------------------------------
(* So do Kafka, the engine and a crash.                                    *)

\* What the parts of DInv that speak of attempts and sinks need: they stand still,
\* the log only loses its head, and no attempt is running.
LEMMA HistoryStands ==
    ASSUME IInv, DInv, UNCHANGED <<attempts, stored>>,
           logStart' \in Int, logStart' >= logStart
    PROVE  /\ WrittenInv' /\ AlertsFollowDelta' /\ Cur' = Cur
           /\ \A k \in DOMAIN attempts : \A b :
                 RangeOf(b)' = RangeOf(b) /\ Covers(k, b) => Covers(k, b)'
<1>1. WrittenInv' /\ AlertsFollowDelta' /\ Cur' = Cur
  BY DEF DInv, WrittenInv, DeliveredTo, Owed, AlertsFollowDelta, Cur
<1>2. ASSUME NEW k \in DOMAIN attempts, NEW b, RangeOf(b)' = RangeOf(b), Covers(k, b)
      PROVE  Covers(k, b)'
  <2>1. logStart \in Int /\ \A o \in RangeOf(b) : o \in Int
    BY SizeAssumption DEF IInv, Typed, RangeOf, Offset
  <2>2. QED
    BY <1>2, <2>1 DEF Covers
<1>3. QED
  BY <1>1, <1>2

LEMMA LogKeepsDInv ==
    ASSUME IInv, DInv, Produce \/ Expire \/ UNCHANGED vars
    PROVE  DInv'
<1>1. /\ UNCHANGED <<offsets, committed, pc, stored, attempts>>
      /\ logStart' \in Int /\ logStart' >= logStart
  BY DEF Produce, Expire, vars, kafkaVars, checkpoint, IInv, Typed
<1>2. Planned' = Planned /\ \A b : RangeOf(b)' = RangeOf(b)
  BY <1>1 DEF Planned, RangeOf
<1>3. /\ WrittenInv' /\ AlertsFollowDelta' /\ Cur' = Cur
      /\ \A k \in DOMAIN attempts : \A b : Covers(k, b) => Covers(k, b)'
  BY <1>1, <1>2, HistoryStands
<1>4. RunningInv'
  <2>1. pc \in Running => Cur \in DOMAIN attempts
    BY RunningAttempt
  <2>2. pc \in Running => Covers(Cur, Planned)'
    BY <1>1, <1>2, <1>3, <2>1
       DEF DInv, RunningInv, Covers, IInv, Typed, RangeOf, Offset
  <2>3. (pc \in Sinks => DeliveredTo(Tried(pc), Cur, attempts[Cur]))'
    BY <1>1, <1>3 DEF DInv, RunningInv, DeliveredTo, Owed
  <2>4. (/\ pc \in Running \ {"commit"} => attempts[Cur].outcome = "running"
         /\ pc = "commit" => Returned(Cur))'
    BY <1>1, <1>3 DEF DInv, RunningInv, Returned
  <2>5. QED
    BY <1>1, <2>2, <2>3, <2>4 DEF RunningInv
<1>5. CommitInv'
  BY <1>1, <1>3 DEF DInv, CommitInv, Returned
<1>6. GaplessInv'
  BY <1>1, <1>2 DEF DInv, GaplessInv
<1>7. QED
  BY <1>3, <1>4, <1>5, <1>6 DEF DInv

LEMMA StartKeepsDInv ==
    ASSUME IInv, DInv, Start
    PROVE  DInv'
<1>1. /\ pc' \notin Running /\ pc' \notin Sinks /\ pc' # "commit"
      /\ UNCHANGED <<logStart, committed, stored, attempts>>
      /\ offsets' = IF offsets = <<>> THEN <<logEnd>> ELSE offsets
  BY DEF Start, StartAt, kafkaVars, Running, Busy, Steps, Sinks
<1>2. /\ WrittenInv' /\ AlertsFollowDelta' /\ Cur' = Cur
      /\ \A k \in DOMAIN attempts : \A b :
            RangeOf(b)' = RangeOf(b) /\ Covers(k, b) => Covers(k, b)'
  BY <1>1, HistoryStands DEF IInv, Typed
<1>3. RunningInv'
  BY <1>1 DEF RunningInv
<1>4. CommitInv' /\ GaplessInv'
  <2>1. CASE offsets = <<>>
    <3>1. committed = 0 /\ offsets' = <<logEnd>> /\ Planned' = 0 /\ logEnd \in Int
      BY <1>1, <2>1 DEF IInv, Typed, EngineInv, Planned
    <3>2. CommitInv'
      BY <1>1, <3>1 DEF CommitInv
    <3>3. GaplessInv'
      BY <3>1 DEF GaplessInv, Offset
    <3>4. QED
      BY <3>2, <3>3
  <2>2. CASE offsets # <<>>
    <3>1. offsets' = offsets /\ Planned' = Planned /\ \A b : RangeOf(b)' = RangeOf(b)
      BY <1>1, <2>2 DEF Planned, RangeOf
    <3>2. CommitInv'
      BY <1>1, <1>2, <3>1 DEF DInv, CommitInv, Returned
    <3>3. GaplessInv'
      BY <3>1 DEF DInv, GaplessInv
    <3>4. QED
      BY <3>2, <3>3
  <2>3. QED
    BY <2>1, <2>2
<1>5. QED
  BY <1>2, <1>3, <1>4 DEF DInv

\* The new batch begins where the last one ends.
LEMMA PlanBatchKeepsDInv ==
    ASSUME IInv, DInv, PlanBatch
    PROVE  DInv'
<1>1. PICK end : offsets' = Append(offsets, end)
  BY DEF PlanBatch, PlanUpTo
<1>2. /\ pc = "idle" /\ pc' = "read"
      /\ UNCHANGED <<logStart, committed, stored, attempts>>
  BY DEF PlanBatch, PlanUpTo, kafkaVars
<1>3. /\ offsets # <<>> /\ offsets \in Seq(0..MaxLog) /\ offsets' \in Seq(0..MaxLog)
      /\ committed = Planned
  BY <1>2, PlanBatchKeepsIInv DEF IInv, Typed, EngineInv
<1>4. /\ Planned \in Nat /\ Planned' = Planned + 1
      /\ offsets'[Planned + 2] = end
      /\ \A i \in 1..(Planned + 1) : offsets'[i] = offsets[i]
  BY <1>1, <1>3 DEF Planned
<1>5. \A b \in 1..Planned : RangeOf(b)' = RangeOf(b)
  BY <1>4 DEF RangeOf
<1>6. /\ WrittenInv' /\ AlertsFollowDelta' /\ Cur' = Cur
      /\ \A k \in DOMAIN attempts : \A b :
            RangeOf(b)' = RangeOf(b) /\ Covers(k, b) => Covers(k, b)'
  BY <1>2, HistoryStands DEF IInv, Typed
<1>7. RunningInv'
  BY <1>2 DEF RunningInv, Running, Busy, Sinks
<1>8. CommitInv'
  BY <1>2, <1>3, <1>5, <1>6 DEF DInv, CommitInv, Returned
<1>9. GaplessInv'
  <2> SUFFICES ASSUME NEW n \in 0..(Planned + 1), NEW o \in Offset,
                      offsets'[1] < o, o <= offsets'[n + 1]
               PROVE  \E b \in 1..n : o \in RangeOf(b)'
    BY <1>4 DEF GaplessInv
  <2>1. offsets'[1] = offsets[1]
    BY <1>4
  <2>2. CASE n \in 0..Planned
    <3>1. offsets'[n + 1] = offsets[n + 1]
      BY <1>4, <2>2
    <3>2. PICK b \in 1..n : o \in RangeOf(b)
      BY <2>1, <2>2, <3>1 DEF DInv, GaplessInv
    <3>3. b \in 1..Planned
      BY <1>4, <2>2
    <3>4. QED
      BY <1>5, <3>2, <3>3
  <2>3. CASE n = Planned + 1
    <3>1. CASE o <= offsets[Planned + 1]
      <4>1. PICK b \in 1..Planned : o \in RangeOf(b)
        BY <1>4, <2>1, <3>1 DEF DInv, GaplessInv
      <4>2. b \in 1..n
        BY <1>4, <2>3
      <4>3. QED
        BY <1>5, <4>1, <4>2
    <3>2. CASE ~(o <= offsets[Planned + 1])
      <4>1. offsets[Planned + 1] \in 0..MaxLog
        <5>1. Planned + 1 \in DOMAIN offsets
          BY <1>3, <1>4 DEF Planned
        <5>2. QED
          BY <1>3, <5>1, ElementType
      <4>2. offsets'[n] < o /\ o <= offsets'[n + 1]
        BY <1>4, <2>3, <3>2, <4>1 DEF Offset
      <4>3. o \in RangeOf(n)'
        BY <4>2 DEF RangeOf
      <4>4. n \in 1..n
        BY <1>4, <2>3
      <4>5. QED
        BY <4>3, <4>4
    <3>3. QED
      BY <3>1, <3>2
  <2>4. QED
    BY <1>4, <2>2, <2>3
<1>10. QED
  BY <1>6, <1>7, <1>8, <1>9 DEF DInv

\* The attempt that just returned is the one the batch has to show.
LEMMA CommitBatchKeepsDInv ==
    ASSUME IInv, DInv, CommitBatch
    PROVE  DInv'
<1>1. /\ pc = "commit" /\ pc' = "idle" /\ committed' = committed + 1
      /\ UNCHANGED <<logStart, offsets, stored, attempts>>
  BY DEF CommitBatch, kafkaVars
<1>2. Planned' = Planned /\ \A b : RangeOf(b)' = RangeOf(b)
  BY <1>1 DEF Planned, RangeOf
<1>3. /\ WrittenInv' /\ AlertsFollowDelta' /\ Cur' = Cur
      /\ \A k \in DOMAIN attempts : \A b : Covers(k, b) => Covers(k, b)'
  BY <1>1, <1>2, HistoryStands DEF IInv, Typed
<1>4. /\ committed \in Nat /\ committed + 1 = Planned
      /\ Cur \in DOMAIN attempts /\ attempts[Cur].batch = Planned
      /\ Returned(Cur) /\ Covers(Cur, Planned)
  <2>1. pc \in Running
    BY <1>1 DEF Running, Busy, Steps
  <2>2. Planned \in Int
    BY DEF IInv, Typed, Planned
  <2>3. QED
    BY <1>1, <2>1, <2>2, RunningAttempt
       DEF Running, IInv, Typed, EngineInv, AttemptInv, DInv, RunningInv
<1>5. CommitInv'
  <2> SUFFICES ASSUME NEW b \in 1..(committed + 1)
               PROVE  \E k \in DOMAIN attempts :
                         (attempts[k].batch = b /\ Returned(k) /\ Covers(k, b))'
    BY <1>1 DEF CommitInv
  <2>1. PICK k \in DOMAIN attempts :
             attempts[k].batch = b /\ Returned(k) /\ Covers(k, b)
    BY <1>4 DEF DInv, CommitInv
  <2>2. QED
    BY <1>1, <1>3, <2>1 DEF Returned
<1>6. RunningInv'
  BY <1>1 DEF RunningInv, Running, Busy, Sinks
<1>7. GaplessInv'
  BY <1>1, <1>2 DEF DInv, GaplessInv
<1>8. QED
  BY <1>3, <1>5, <1>6, <1>7 DEF DInv

\* A crash takes an attempt away that no committed batch counts on.
LEMMA CrashKeepsDInv ==
    ASSUME IInv, DInv, Crash
    PROVE  DInv'
<1>1. /\ pc' = "down" /\ UNCHANGED <<logStart, offsets, committed, stored>>
  BY DEF Crash, kafkaVars, checkpoint
<1>2. Planned' = Planned /\ \A b : RangeOf(b)' = RangeOf(b)
  BY <1>1 DEF Planned, RangeOf
<1>3. RunningInv' /\ GaplessInv'
  BY <1>1, <1>2 DEF DInv, RunningInv, GaplessInv, Running, Busy, Sinks
<1>4. CASE UNCHANGED attempts
  <2>1. /\ WrittenInv' /\ AlertsFollowDelta' /\ Cur' = Cur
        /\ \A k \in DOMAIN attempts : \A b : Covers(k, b) => Covers(k, b)'
    BY <1>1, <1>2, <1>4, HistoryStands DEF IInv, Typed
  <2>2. CommitInv'
    BY <1>1, <1>4, <2>1 DEF DInv, CommitInv, Returned
  <2>3. QED
    BY <1>3, <2>1, <2>2 DEF DInv
<1>5. CASE pc \in Running /\ \E faults \in SUBSET {"saved_models"} : CutOff(faults)
  <2>1. /\ Cur \in DOMAIN attempts /\ attempts[Cur] \in Attempt
        /\ attempts[Cur].batch = Planned /\ committed = Planned - 1
        /\ committed \in Nat /\ Planned \in Int
    BY <1>5, RunningAttempt
       DEF IInv, Typed, AttemptInv, EngineInv, Running, Planned
  <2>2. /\ DOMAIN attempts' = DOMAIN attempts
        /\ attempts'[Cur].outcome = "crashed"
        /\ \A k \in DOMAIN attempts : /\ attempts[k].faults \subseteq attempts'[k].faults
                                      /\ k # Cur => attempts'[k] = attempts[k]
    BY <1>5, <2>1, CutOffEvolves DEF Evolves
  <2>3. WrittenInv'
    <3> SUFFICES ASSUME NEW k \in DOMAIN attempts, attempts'[k].outcome = "written"
                 PROVE  DeliveredTo(Sinks, k, attempts[k])'
      BY <2>2 DEF WrittenInv
    <3>1. attempts'[k] = attempts[k]
      BY <2>2
    <3>2. DeliveredTo(Sinks, k, attempts[k])
      BY <3>1 DEF DInv, WrittenInv
    <3>3. QED
      BY <1>1, <3>1, <3>2 DEF DeliveredTo, Owed
  <2>4. AlertsFollowDelta'
    <3>1. \A s \in Sinks : \A e \in stored[s] : e[1] \in DOMAIN attempts
      BY DEF IInv, StoredInv
    <3>2. QED
      BY <1>1, <2>2, <3>1 DEF DInv, AlertsFollowDelta, Sinks
  <2>5. CommitInv'
    <3> SUFFICES ASSUME NEW b \in 1..committed
                 PROVE  \E k \in DOMAIN attempts :
                           (attempts[k].batch = b /\ Returned(k) /\ Covers(k, b))'
      BY <1>1, <2>2 DEF CommitInv
    <3>1. PICK k \in DOMAIN attempts :
               attempts[k].batch = b /\ Returned(k) /\ Covers(k, b)
      BY DEF DInv, CommitInv
    <3>2. attempts'[k] = attempts[k]
      BY <2>1, <2>2, <3>1
    <3>3. QED
      BY <1>1, <1>2, <3>1, <3>2 DEF Returned, Covers
  <2>6. QED
    BY <1>3, <2>3, <2>4, <2>5 DEF DInv
<1>6. QED
  BY <1>4, <1>5 DEF Crash, IInv, Typed, Running, Busy

\* A new attempt covers its batch: it reads all of it that has not expired.
LEMMA ReadBatchKeepsDInv ==
    ASSUME IInv, DInv, ReadBatch
    PROVE  DInv'
<1> DEFINE rows == {o \in RangeOf(Planned) \cap Parsed : o > logStart}
           new  == [batch |-> Planned, rows |-> rows, flagged |-> {}, faults |-> {},
                    outcome |-> IF rows = {} THEN "empty" ELSE "running"]
<1>1. /\ pc = "read" /\ attempts' = Append(attempts, new)
      /\ pc' = IF rows = {} THEN "commit" ELSE IF model = {} THEN "fit" ELSE "infer"
      /\ UNCHANGED <<logStart, offsets, committed, stored>>
  BY DEF ReadBatch, kafkaVars, checkpoint
<1>2. Planned' = Planned /\ \A b : RangeOf(b)' = RangeOf(b)
  BY <1>1 DEF Planned, RangeOf
<1>3. new.rows = rows
      /\ new.outcome = (IF rows = {} THEN "empty" ELSE "running")
  OBVIOUS
<1> HIDE DEF new
<1>4. /\ Cur' = Cur + 1 /\ DOMAIN attempts' = DOMAIN attempts \cup {Cur + 1}
      /\ attempts'[Cur + 1] = new
      /\ \A k \in DOMAIN attempts : attempts'[k] = attempts[k]
  BY <1>1 DEF IInv, Typed, Cur
<1>5. RunningInv'
  <2>1. Covers(Cur, Planned)'
    <3>1. \A o \in RangeOf(Planned) \cap Parsed : o <= logStart \/ o \in rows
      BY DEF RangeOf, Offset, IInv, Typed
    <3>2. QED
      BY <1>1, <1>2, <1>3, <1>4, <3>1 DEF Covers
  <2>2. attempts'[Cur'] = new
    BY <1>4
  <2>3. pc' \notin Sinks
    BY <1>1 DEF Sinks
  <2>4. QED
    BY <1>1, <1>3, <2>1, <2>2, <2>3 DEF RunningInv, Returned
<1>6. WrittenInv'
  <2> SUFFICES ASSUME NEW k \in DOMAIN attempts', attempts'[k].outcome = "written"
               PROVE  DeliveredTo(Sinks, k, attempts[k])'
    BY DEF WrittenInv
  <2>1. k \in DOMAIN attempts /\ attempts'[k] = attempts[k]
    BY <1>3, <1>4
  <2>2. DeliveredTo(Sinks, k, attempts[k])
    BY <2>1 DEF DInv, WrittenInv
  <2>3. QED
    BY <1>1, <2>1, <2>2 DEF DeliveredTo, Owed
<1>7. AlertsFollowDelta'
  <2>1. \A s \in Sinks : \A e \in stored[s] : e[1] \in DOMAIN attempts
    BY DEF IInv, StoredInv
  <2>2. QED
    BY <1>1, <1>4, <2>1 DEF DInv, AlertsFollowDelta, Sinks
<1>8. CommitInv'
  BY <1>1, <1>2, <1>4 DEF DInv, CommitInv, Returned, Covers
<1>9. GaplessInv'
  BY <1>1, <1>2 DEF DInv, GaplessInv
<1>10. QED
  BY <1>5, <1>6, <1>7, <1>8, <1>9 DEF DInv

LEMMA InitDInv == Init => DInv
<1> SUFFICES ASSUME Init PROVE DInv
  OBVIOUS
<1>1. /\ pc = "down" /\ offsets = <<>> /\ committed = 0 /\ attempts = <<>>
      /\ \A s \in Sinks : stored[s] = {}
  BY DEF Init
<1>2. RunningInv /\ WrittenInv /\ CommitInv /\ AlertsFollowDelta
  BY <1>1 DEF RunningInv, WrittenInv, CommitInv, AlertsFollowDelta, Running, Busy, Sinks
<1>3. GaplessInv
  BY <1>1 DEF GaplessInv, Planned
<1>4. QED
  BY <1>2, <1>3 DEF DInv

LEMMA NextKeepsDInv == IInv /\ DInv /\ [Next]_vars => DInv'
<1> SUFFICES ASSUME IInv, DInv, [Next]_vars PROVE DInv'
  OBVIOUS
<1>1. CASE Handle
  BY <1>1, HandleKeepsDInv
<1>2. QED
  BY <1>1, LogKeepsDInv, StartKeepsDInv, PlanBatchKeepsDInv, CommitBatchKeepsDInv,
     CrashKeepsDInv, ReadBatchKeepsDInv
     DEF Next, Driver, Process, Handle

\* In every behaviour the delivery invariant holds: what the running attempt owes
\* and has delivered at each step, and for each committed batch an attempt that
\* returned and read all of it that had not expired.
THEOREM DeliveryInvariance == Spec => []DInv
<1>1. Init => DInv
  BY InitDInv
<1>2. IInv /\ DInv /\ [Next]_vars => DInv'
  BY NextKeepsDInv
<1>3. QED
  BY <1>1, <1>2, Invariance, PTL DEF Spec

-----------------------------------------------------------------------------
(* What the invariants give.                                               *)

\* No record falls through the checkpoint: whatever crashes, replays, expiry and
\* swallowed failures happen, a parsed record below the committed end offset had
\* expired before it was read, or was in an attempt that returned; and if that
\* attempt reached the sinks, each of them has it or its failure was logged.
THEOREM NothingUnaccounted == Spec => []RecordsAccountedFor
<1>1. IInv /\ DInv => RecordsAccountedFor
  <2> SUFFICES ASSUME IInv, DInv, offsets # <<>>, NEW o \in Parsed,
                      offsets[1] < o, o <= offsets[committed + 1]
               PROVE  \/ o <= logStart
                      \/ \E k \in DOMAIN attempts :
                            /\ o \in attempts[k].rows
                            /\ Returned(k)
                            /\ attempts[k].outcome = "written" => Delivered(k, o)
    BY DEF RecordsAccountedFor
  <2>1. committed \in 0..Planned /\ o \in Offset
    <3>1. Planned \in Int /\ committed \in Nat /\ committed \in {Planned - 1, Planned}
      BY DEF IInv, Typed, EngineInv, Planned
    <3>2. QED
      BY <3>1, RowAssumption
  <2>2. PICK b \in 1..committed : o \in RangeOf(b)
    BY <2>1 DEF DInv, GaplessInv
  <2>3. PICK k \in DOMAIN attempts :
             attempts[k].batch = b /\ Returned(k) /\ Covers(k, b)
    BY DEF DInv, CommitInv
  <2>4. o <= logStart \/ o \in attempts[k].rows
    BY <2>2, <2>3 DEF Covers
  <2>5. attempts[k].outcome = "written" => Delivered(k, o)
    BY DEF DInv, WrittenInv, DeliveredTo, Delivered
  <2>6. QED
    BY <2>3, <2>4, <2>5
<1>2. QED
  BY <1>1, Invariance, DeliveryInvariance, PTL

\* An alert that left for Kafka or PostgreSQL is in the lakehouse, and an alert in
\* PostgreSQL is in Kafka, unless the attempt recorded that the earlier sink failed:
\* in no interleaving with crashes does a later sink get ahead of an earlier one.
THEOREM SinksInOrder == Spec => []AlertsFollowDelta
<1>1. DInv => AlertsFollowDelta
  BY DEF DInv
<1>2. QED
  BY <1>1, DeliveryInvariance, PTL

-----------------------------------------------------------------------------
(* The job implements BatchDelivery.                                       *)

\* The model at each step: none while it is trained, and the one that scored the
\* rows from then on.  Only an attempt without rows ends as an empty one.
ScoringInv ==
    /\ pc \in Training => model = {} /\ attempts[Cur].rows # {}
    /\ pc = "infer" => model # {}
    /\ pc \in Sinks \/ (pc = "commit" /\ attempts[Cur].outcome = "written")
         => model # {} /\ attempts[Cur].flagged = attempts[Cur].rows \cap Flags[model]
    /\ pc = "commit" /\ attempts[Cur].outcome = "empty" => attempts[Cur].rows = {}

\* What a sink is to have of the given rows, scored with the given model.
Pick(s, rows, scorer) ==
    CASE s \in {"critical_alerts", "anomaly_alerts_pg"} -> rows \cap Flags[scorer]
      [] s = "model_metrics" -> rows \cap Labelled
      [] OTHER -> rows

LEMMA OwedIsPicked ==
    ASSUME NEW a \in Attempt, NEW scorer, NEW s \in Sinks
    PROVE  Owed(s, [a EXCEPT !.flagged = a.rows \cap Flags[scorer]])
             = Pick(s, a.rows, scorer)
<1> DEFINE b == [a EXCEPT !.flagged = a.rows \cap Flags[scorer]]
<1>1. b.rows = a.rows /\ b.flagged = a.rows \cap Flags[scorer] /\ a.rows \subseteq Offset
  BY DEF Attempt
<1> HIDE DEF b
<1>2. Owed(s, b) = Pick(s, a.rows, scorer)
  BY <1>1 DEF Owed, Pick, Labelled
<1>3. QED
  BY <1>2 DEF b

LEMMA WantedIsPicked ==
    ASSUME IInv, pc \in Running
    PROVE  Wanted = [s \in Sinks |-> Pick(s, attempts[Cur].rows, Scorer)]
<1>1. Attempting
  BY DEF Attempting, Running, Busy
<1>2. QED
  BY <1>1, RunningAttempt, OwedIsPicked DEF Wanted

\* The parts of the mapping that do not change while the handler runs.
LEMMA HandleKeepsMapping ==
    ASSUME IInv, IInv', ScoringInv, Handle
    PROVE  /\ Unreadable' = Unreadable /\ OpenBatch' = OpenBatch
           /\ Committed' = Committed
           /\ Attempting /\ Attempting' /\ Cur' = Cur /\ Wanted' = Wanted
<1>1. HandleFrame
  BY HandleIsFramed
<1>2. UNCHANGED <<logStart, offsets, committed>>
  BY <1>1 DEF HandleFrame, kafkaVars, checkpoint
<1>3. Attempting /\ Attempting'
  BY <1>1 DEF HandleFrame, Attempting, Running, Busy
<1>4. Cur' = Cur /\ Cur \in DOMAIN attempts /\ attempts'[Cur].rows = attempts[Cur].rows
  BY <1>1, RunningAttempt DEF HandleFrame, Evolves, Cur
<1>5. Scorer' = Scorer
  <2>1. CASE KeepModel
    <3>1. model = {} /\ model' = attempts[Cur].rows
      BY <2>1 DEF KeepModel, ScoringInv, Training
    <3>2. QED
      BY <1>4, <3>1 DEF Scorer
  <2>2. CASE UNCHANGED model
    BY <1>4, <2>2 DEF Scorer
  <2>3. QED
    BY <2>1, <2>2 DEF Handle, Fit, TrainingFails, SaveNlp, SaveKMeans, Save, Infer,
         WriteDelta, PublishAlerts, WriteBatchMetrics, WriteAnomalyAlerts,
         UpdateHealth, WriteModelMetrics
<1>6. Wanted' = Wanted
  <2>1. Wanted = [s \in Sinks |-> Pick(s, attempts[Cur].rows, Scorer)]
    BY <1>1, WantedIsPicked DEF HandleFrame
  <2>2. Wanted' = [s \in Sinks |-> Pick(s, attempts[Cur].rows, Scorer)']
    <3>1. attempts'[Cur] \in Attempt
      BY <1>1, <1>4 DEF HandleFrame, Evolves
    <3>2. QED
      BY <1>3, <1>4, <3>1, OwedIsPicked DEF Wanted
  <2>3. \A s \in Sinks : Pick(s, attempts[Cur].rows, Scorer)'
                           = Pick(s, attempts[Cur].rows, Scorer)
    BY <1>4, <1>5 DEF Pick
  <2>4. QED
    BY <2>1, <2>2, <2>3
<1>7. Unreadable' = Unreadable /\ OpenBatch' = OpenBatch /\ Committed' = Committed
  BY <1>2 DEF Unreadable, OpenBatch, Committed, Planned, RangeOf
<1>8. QED
  BY <1>3, <1>4, <1>6, <1>7

LEMMA HandleKeepsScoring ==
    ASSUME IInv, ScoringInv, Handle
    PROVE  ScoringInv'
<1> USE DEF Training, Sinks
<1>1. HandleFrame /\ Cur' = Cur /\ Cur \in DOMAIN attempts /\ attempts[Cur] \in Attempt
      /\ attempts'[Cur].rows = attempts[Cur].rows
  BY HandleIsFramed, RunningAttempt DEF HandleFrame, Evolves, Cur
<1>2. CASE pc' \in Training
  <2>1. pc \in Training /\ UNCHANGED model
    BY <1>2, <1>1 DEF Handle, Fit, TrainingFails, SaveNlp, SaveKMeans, Save, KeepModel,
       Infer, WriteDelta, PublishAlerts, WriteBatchMetrics, WriteAnomalyAlerts,
       UpdateHealth, WriteModelMetrics
  <2>2. QED
    BY <1>1, <1>2, <2>1 DEF ScoringInv
<1>3. CASE KeepModel
  BY <1>1, <1>3 DEF KeepModel, ScoringInv
<1>4. ASSUME NEW how \in {"untrained", "unscored"}, Finish(how), pc' = "commit"
      PROVE  ScoringInv'
  <2>1. attempts'[Cur].outcome = how
    BY <1>1, <1>4 DEF Finish, Attempt
  <2>2. QED
    BY <1>1, <1>4, <2>1 DEF ScoringInv
<1>5. CASE TrainingFails
  BY <1>4, <1>5 DEF TrainingFails
<1>6. CASE Infer
  <2>1. CASE Finish("unscored") /\ pc' = "commit"
    BY <1>4, <2>1
  <2>2. CASE /\ attempts' = [attempts EXCEPT ![Cur].flagged =
                                 attempts[Cur].rows \cap Flags[model]]
             /\ pc' = "processed_logs"
    <3>1. attempts'[Cur].flagged = attempts[Cur].rows \cap Flags[model]
      BY <1>1, <2>2 DEF Attempt
    <3>2. model # {} /\ model' = model
      BY <1>6 DEF Infer, ScoringInv
    <3>3. QED
      BY <1>1, <2>2, <3>1, <3>2 DEF ScoringInv
  <2>3. QED
    BY <1>6, <2>1, <2>2 DEF Infer
<1>7. CASE /\ \E s \in Sinks : pc = s /\ SinkStep(s)
           /\ pc' = "commit" => attempts'[Cur].outcome = "written"
           /\ UNCHANGED model
  <2>1. /\ model # {} /\ model' = model
        /\ attempts[Cur].flagged = attempts[Cur].rows \cap Flags[model]
        /\ attempts'[Cur].flagged = attempts[Cur].flagged
    BY <1>7 DEF ScoringInv, SinkStep
  <2>2. pc' \in Sinks \cup {"commit"}
    BY <1>7 DEF Handle, Fit, TrainingFails, SaveNlp, SaveKMeans, Save, KeepModel,
       Infer, WriteDelta, PublishAlerts, WriteBatchMetrics, WriteAnomalyAlerts,
       UpdateHealth, WriteModelMetrics
  <2>3. QED
    BY <1>1, <1>7, <2>1, <2>2 DEF ScoringInv
<1>8. CASE WriteModelMetrics
  BY <1>7, <1>8, LastSink DEF WriteModelMetrics
<1>9. CASE WriteDelta \/ PublishAlerts \/ WriteBatchMetrics \/ WriteAnomalyAlerts
           \/ UpdateHealth
  <2>1. UNCHANGED model
    BY <1>9 DEF WriteDelta, PublishAlerts, WriteBatchMetrics, WriteAnomalyAlerts,
       UpdateHealth
  <2>2. QED
    BY <1>7, <1>9, <2>1, MiddleSinks DEF MiddleSink
<1>10. CASE Fit \/ SaveNlp \/ SaveKMeans
  BY <1>2, <1>10 DEF Fit, SaveNlp, SaveKMeans, Save
<1>11. QED
  BY <1>3, <1>5, <1>6, <1>8, <1>9, <1>10 DEF Handle

LEMMA NextKeepsScoring == IInv /\ ScoringInv /\ [Next]_vars => ScoringInv'
<1> SUFFICES ASSUME IInv, ScoringInv, [Next]_vars PROVE ScoringInv'
  OBVIOUS
<1>1. CASE Handle
  BY <1>1, HandleKeepsScoring
<1>2. CASE Produce \/ Expire \/ UNCHANGED vars
  <2>1. UNCHANGED <<pc, model, attempts>>
    BY <1>2 DEF Produce, Expire, vars
  <2>2. QED
    BY <2>1 DEF ScoringInv, Cur
<1>3. CASE Start \/ PlanBatch \/ CommitBatch \/ Crash
  <2>1. pc' \in {"down", "idle", "read"}
    BY <1>3 DEF Start, StartAt, PlanBatch, PlanUpTo, CommitBatch, Crash
  <2>2. QED
    BY <2>1 DEF ScoringInv, Training, Sinks
<1>4. CASE ReadBatch
  <2> DEFINE rows == {o \in RangeOf(Planned) \cap Parsed : o > logStart}
             new  == [batch |-> Planned, rows |-> rows, flagged |-> {}, faults |-> {},
                      outcome |-> IF rows = {} THEN "empty" ELSE "running"]
  <2>1. /\ attempts' = Append(attempts, new) /\ UNCHANGED model
        /\ pc' = IF rows = {} THEN "commit" ELSE IF model = {} THEN "fit" ELSE "infer"
    BY <1>4 DEF ReadBatch
  <2>2. new.rows = rows /\ new.outcome = (IF rows = {} THEN "empty" ELSE "running")
    OBVIOUS
  <2> HIDE DEF rows, new
  <2>3. attempts'[Cur'] = new
    BY <2>1 DEF IInv, Typed, Cur
  <2>4. QED
    BY <2>1, <2>2, <2>3 DEF ScoringInv, Training, Sinks
<1>5. QED
  BY <1>1, <1>2, <1>3, <1>4 DEF Next, Driver, Process, Handle

-----------------------------------------------------------------------------
(* Each step of the job is a step of BatchDelivery, or none.               *)

\* Names for what the mapping substitutes, so that the provers see a step of the
\* abstract module as one between these.
Mapped == <<Unreadable, OpenBatch, Committed, Attempting, Cur, Wanted, Failed, stored>>

LEMMA SinkIsWrite ==
    ASSUME IInv, IInv', ScoringInv, Handle, NEW s \in Sinks, pc = s, SinkStep(s),
           attempts[Cur].outcome = "running",
           attempts'[Cur].outcome \in {"running", "written"}
    PROVE  Batches!Write(s)
<1>1. /\ Unreadable' = Unreadable /\ OpenBatch' = OpenBatch /\ Committed' = Committed
      /\ Attempting /\ Attempting' /\ Cur' = Cur /\ Wanted' = Wanted
  BY HandleKeepsMapping
<1>2. pc \in Running /\ Cur \in DOMAIN attempts /\ attempts[Cur] \in Attempt
  BY RunningAttempt DEF Running, Busy, Steps, Sinks
<1>3. Wanted[s] = Owed(s, attempts[Cur])
  <2>1. attempts[Cur].flagged = attempts[Cur].rows \cap Flags[Scorer]
    BY DEF ScoringInv, Scorer
  <2>2. Owed(s, attempts[Cur]) = Pick(s, attempts[Cur].rows, Scorer)
    BY <1>2, <2>1 DEF Owed, Pick, Labelled, Attempt
  <2>3. QED
    BY <1>2, <2>2, WantedIsPicked
<1>4. stored[s] \subseteq stored'[s] /\ stored'[s] \ stored[s] \subseteq {Cur} \X Wanted[s]
  BY <1>3 DEF SinkStep, Grows
<1>5. /\ \A t \in Sinks \ {s} : stored'[t] = stored[t] /\ Failed'[t] = Failed[t]
      /\ Failed[s] => Failed'[s]
  <2>1. \A t \in Sinks : /\ Failed[t]  = (t \in attempts[Cur].faults)
                         /\ Failed'[t] = (t \in attempts'[Cur].faults)
    BY <1>1 DEF Failed
  <2>2. /\ \A t \in Sinks \ {s} : t \in attempts'[Cur].faults <=> t \in attempts[Cur].faults
        /\ s \in attempts[Cur].faults => s \in attempts'[Cur].faults
        /\ \A t \in Sinks \ {s} : stored'[t] = stored[t]
    BY DEF SinkStep
  <2>3. ASSUME NEW t \in Sinks \ {s} PROVE Failed'[t] = Failed[t]
    <3>1. (t \in attempts'[Cur].faults) = (t \in attempts[Cur].faults)
      BY <2>2
    <3>2. QED
      BY <2>1, <3>1
  <2>4. Failed[s] => Failed'[s]
    BY <2>1, <2>2
  <2>5. QED
    BY <2>2, <2>3, <2>4
<1>6. QED
  BY <1>1, <1>4, <1>5 DEF Batches!Write, Batches!batch

LEMMA QuietIsStep ==
    ASSUME IInv, IInv', DInv, ScoringInv, Handle, QuietStep
    PROVE  Batches!GiveUp \/ UNCHANGED Mapped
<1>1. /\ Unreadable' = Unreadable /\ OpenBatch' = OpenBatch /\ Committed' = Committed
      /\ Attempting /\ Attempting' /\ Cur' = Cur /\ Wanted' = Wanted /\ stored' = stored
  BY HandleKeepsMapping DEF QuietStep
<1>2. \A s \in Sinks : (s \in attempts'[Cur].faults) = (s \in attempts[Cur].faults)
  BY DEF QuietStep
<1>3. CASE attempts'[Cur].outcome = attempts[Cur].outcome
  <2>1. Failed' = Failed
    BY <1>1, <1>2, <1>3 DEF Failed
  <2>2. QED
    BY <1>1, <2>1 DEF Mapped
<1>4. CASE attempts'[Cur].outcome \in {"untrained", "unscored"}
  <2>1. Failed' = [s \in Sinks |-> TRUE]
    BY <1>1, <1>4 DEF Failed
  <2>2. QED
    BY <1>1, <2>1 DEF Batches!GiveUp, Batches!batch
<1>5. QED
  BY <1>3, <1>4 DEF QuietStep

LEMMA HandleIsStep ==
    ASSUME IInv, IInv', DInv, ScoringInv, Handle
    PROVE  Batches!Next \/ UNCHANGED Mapped
<1>1. pc \in Sinks => attempts[Cur].outcome = "running"
  BY DEF DInv, RunningInv, Running, Busy, Steps, Sinks
<1>2. CASE \E s \in Sinks, next \in Sinks : MiddleSink(s, next)
  <2>1. PICK s \in Sinks, next \in Sinks : MiddleSink(s, next)
    BY <1>2
  <2>2. Batches!Write(s)
    BY <1>1, <2>1, SinkIsWrite DEF MiddleSink
  <2>3. QED
    BY <2>2 DEF Batches!Next
<1>3. CASE WriteModelMetrics
  <2>1. Batches!Write("model_metrics")
    BY <1>1, <1>3, LastSink, SinkIsWrite DEF Sinks
  <2>2. QED
    BY <2>1 DEF Batches!Next, Sinks
<1>4. CASE QuietStep
  BY <1>4, QuietIsStep DEF Batches!Next
<1>5. QED
  BY <1>2, <1>3, <1>4, QuietSteps, MiddleSinks DEF Handle

\* Outside an attempt nothing is wanted and nothing has failed.
LEMMA IdleMapping ==
    /\ ~Attempting  => Wanted  = [s \in Sinks |-> {}] /\ Failed  = [s \in Sinks |-> FALSE]
    /\ ~Attempting' => Wanted' = [s \in Sinks |-> {}] /\ Failed' = [s \in Sinks |-> FALSE]
  BY DEF Wanted, Failed

\* A record of the log is lost when it expires; what arrives is lost to nobody.
LEMMA LogIsStep ==
    ASSUME IInv, Produce \/ Expire \/ UNCHANGED vars
    PROVE  Batches!Lose \/ UNCHANGED Mapped
<1>1. /\ UNCHANGED <<offsets, committed, pc, model, stored, attempts>>
      /\ logStart' \in Int /\ logStart \in Int /\ logStart' >= logStart
  BY DEF Produce, Expire, vars, kafkaVars, checkpoint, IInv, Typed
<1>2. /\ OpenBatch' = OpenBatch /\ Committed' = Committed /\ Attempting' = Attempting
      /\ Cur' = Cur /\ Wanted' = Wanted /\ Failed' = Failed
  BY <1>1 DEF OpenBatch, Committed, Planned, RangeOf, Attempting, Cur, Wanted, Scorer,
              Failed, Owed
<1>3. Unreadable \subseteq Unreadable' /\ Unreadable' \subseteq Offset
  BY <1>1 DEF Unreadable, Offset
<1>4. QED
  BY <1>1, <1>2, <1>3 DEF Batches!Lose, Batches!batch

\* The engine's first start fixes where the query begins; no batch is open before.
LEMMA StartIsStep ==
    ASSUME IInv, Start
    PROVE  UNCHANGED Mapped
<1>1. /\ pc = "down" /\ pc' \in {"idle", "read"}
      /\ UNCHANGED <<logStart, committed, stored, attempts>>
      /\ offsets' = IF offsets = <<>> THEN <<logEnd>> ELSE offsets
  BY DEF Start, StartAt, kafkaVars
<1>2. ~Attempting /\ ~Attempting' /\ Cur' = Cur /\ Unreadable' = Unreadable
  BY <1>1 DEF Attempting, Cur, Unreadable
<1>3. OpenBatch' = OpenBatch /\ Committed' = Committed
  <2>1. CASE offsets = <<>>
    <3>1. committed = 0 /\ ~(Planned > committed) /\ ~(Planned' > committed)
      BY <1>1, <2>1 DEF IInv, Typed, EngineInv, Planned
    <3>2. QED
      BY <1>1, <3>1 DEF OpenBatch, Committed
  <2>2. CASE offsets # <<>>
    BY <1>1, <2>2 DEF OpenBatch, Committed, Planned, RangeOf
  <2>3. QED
    BY <2>1, <2>2
<1>4. Wanted' = Wanted /\ Failed' = Failed
  BY <1>2, IdleMapping
<1>5. Attempting' = Attempting
  BY <1>2 DEF Attempting
<1>6. QED
  BY <1>1, <1>2, <1>3, <1>4, <1>5 DEF Mapped

\* A planned batch lies past every committed one, and is never empty.
LEMMA PlanBatchIsOpen ==
    ASSUME IInv, IInv', PlanBatch
    PROVE  Batches!Open
<1>1. /\ pc = "idle" /\ pc' = "read"
      /\ UNCHANGED <<logStart, committed, stored, attempts>>
  BY DEF PlanBatch, PlanUpTo, kafkaVars
<1>2. PICK last : offsets' = Append(offsets, last)
  BY DEF PlanBatch, PlanUpTo
<1>3. /\ Planned \in Nat /\ committed = Planned /\ Planned' = Planned + 1
      /\ Planned + 2 \in DOMAIN offsets' /\ Planned + 1 \in DOMAIN offsets'
      /\ \A i \in 1..(Planned + 1) : i \in DOMAIN offsets' /\ offsets'[i] = offsets[i]
  BY <1>1, <1>2 DEF IInv, Typed, EngineInv, Planned
<1>4. /\ \A i \in DOMAIN offsets' : offsets'[i] \in 0..MaxLog
      /\ \A i, j \in DOMAIN offsets' : i < j => offsets'[i] < offsets'[j]
  BY ElementType DEF IInv, Typed, EngineInv
<1>5. OpenBatch = {} /\ Committed' = Committed
  <2>1. \A b \in 1..committed : RangeOf(b)' = RangeOf(b)
    BY <1>3 DEF RangeOf
  <2>2. QED
    BY <1>1, <1>3, <2>1 DEF OpenBatch, Committed
<1>6. OpenBatch' = {o \in Offset : /\ offsets'[Planned + 1] < o
                                   /\ o <= offsets'[Planned + 2]}
  BY <1>1, <1>3 DEF OpenBatch, RangeOf
<1>7. OpenBatch' # {}
  <2>1. offsets'[Planned + 2] \in OpenBatch'
    BY <1>3, <1>4, <1>6 DEF Offset
  <2>2. QED
    BY <2>1
<1>8. OpenBatch' \subseteq Offset \ Committed
  <2> SUFFICES ASSUME NEW o \in OpenBatch', o \in Committed PROVE FALSE
    BY <1>6
  <2>1. PICK b \in 1..Planned : o \in RangeOf(b)
    BY <1>3 DEF Committed
  <2>2. o \in Offset /\ o <= offsets'[b + 1] /\ b + 1 \in 1..(Planned + 1)
    BY <1>3, <2>1 DEF RangeOf
  <2>3. offsets'[b + 1] <= offsets'[Planned + 1]
    BY <1>3, <1>4, <2>2
  <2>4. QED
    BY <1>3, <1>4, <1>6, <2>2, <2>3 DEF Offset
<1>9. /\ ~Attempting /\ ~Attempting' /\ Attempting' = Attempting
      /\ Cur' = Cur /\ Unreadable' = Unreadable
  BY <1>1 DEF Attempting, Cur, Unreadable
<1>10. Wanted' = Wanted /\ Failed' = Failed
  BY <1>9, IdleMapping
<1>11. QED
  BY <1>1, <1>5, <1>7, <1>8, <1>9, <1>10 DEF Batches!Open

\* A new attempt wants what is left of its batch, or what the model flags of it.
LEMMA ReadBatchIsBegin ==
    ASSUME IInv, IInv', ReadBatch
    PROVE  Batches!Begin
<1> DEFINE rows == {o \in RangeOf(Planned) \cap Parsed : o > logStart}
           new  == [batch |-> Planned, rows |-> rows, flagged |-> {}, faults |-> {},
                    outcome |-> IF rows = {} THEN "empty" ELSE "running"]
<1>1. /\ pc = "read" /\ attempts' = Append(attempts, new)
      /\ pc' = IF rows = {} THEN "commit" ELSE IF model = {} THEN "fit" ELSE "infer"
      /\ UNCHANGED <<logStart, offsets, committed, stored, model>>
  BY DEF ReadBatch, kafkaVars, checkpoint
<1>2. ~Attempting /\ Attempting'
  BY <1>1 DEF Attempting, Steps, Training
<1>3. new.rows = rows /\ new.faults = {} /\ new.outcome \in {"empty", "running"}
  OBVIOUS
<1> HIDE DEF new
<1>4. /\ Cur' = Cur + 1 /\ Cur' \in DOMAIN attempts' /\ attempts'[Cur'] = new
      /\ new \in Attempt
  <2>1. Cur' = Cur + 1 /\ Cur' \in DOMAIN attempts' /\ attempts'[Cur'] = new
    BY <1>1 DEF IInv, Typed, Cur
  <2>2. QED
    BY <2>1 DEF IInv, Typed
<1>5. rows = OpenBatch \ Unreadable
  <2>1. Planned > committed
    BY <1>1 DEF IInv, Typed, EngineInv, Busy, Steps, Planned
  <2>2. QED
    BY <2>1, RowAssumption DEF OpenBatch, Unreadable, RangeOf, IInv, Typed, Offset
<1>6. /\ OpenBatch' = OpenBatch /\ Committed' = Committed /\ Unreadable' = Unreadable
  BY <1>1 DEF OpenBatch, Committed, Planned, RangeOf, Unreadable
<1>7. OpenBatch # {}
  <2>1. /\ committed = Planned - 1 /\ committed \in Nat /\ offsets \in Seq(0..MaxLog)
        /\ \A i, j \in DOMAIN offsets : i < j => offsets[i] < offsets[j]
    BY <1>1 DEF IInv, Typed, EngineInv, Busy, Steps
  <2>2. /\ Planned \in DOMAIN offsets /\ Planned + 1 \in DOMAIN offsets
        /\ Planned > committed /\ Planned < Planned + 1
    BY <2>1 DEF Planned
  <2>3. /\ offsets[Planned] < offsets[Planned + 1]
        /\ offsets[Planned] \in 0..MaxLog /\ offsets[Planned + 1] \in 0..MaxLog
    BY <2>1, <2>2, ElementType
  <2>4. offsets[Planned + 1] \in OpenBatch
    BY <2>2, <2>3 DEF OpenBatch, RangeOf, Offset
  <2>5. QED
    BY <2>4
<1> HIDE DEF rows
<1>8. \A s \in Sinks : Wanted'[s] = Pick(s, rows, Scorer')
  BY <1>2, <1>3, <1>4, OwedIsPicked DEF Wanted
<1>9. \A s \in Sinks : /\ rows \cap Required[s] \subseteq Wanted'[s]
                       /\ Wanted'[s] \subseteq rows \cap Allowed[s]
  <2>1. rows \subseteq Offset
    BY DEF rows, RangeOf
  <2>2. QED
    BY <1>8, <2>1 DEF Pick, Required, Allowed
<1>10. Failed' = Failed
  <2>1. Failed' = [s \in Sinks |-> FALSE]
    BY <1>2, <1>3, <1>4 DEF Failed
  <2>2. QED
    BY <1>2, <2>1, IdleMapping
<1>11. QED
  BY <1>1, <1>2, <1>4, <1>5, <1>6, <1>7, <1>9, <1>10 DEF Batches!Begin, Batches!batch

\* process returns only when each sink has what it was to have, or failed; and the
\* engine then closes the batch.
LEMMA CommitBatchIsClose ==
    ASSUME IInv, DInv, ScoringInv, CommitBatch
    PROVE  Batches!Close
<1>1. /\ pc = "commit" /\ pc' = "idle" /\ committed' = committed + 1
      /\ UNCHANGED <<logStart, offsets, stored, attempts>>
  BY DEF CommitBatch, kafkaVars
<1>2. /\ Attempting /\ ~Attempting' /\ Cur' = Cur /\ Unreadable' = Unreadable
      /\ pc \in Running
  BY <1>1 DEF Attempting, Steps, Cur, Unreadable, Running, Busy
<1>3. committed = Planned - 1 /\ committed \in Nat /\ Planned \in Int
  BY <1>1 DEF IInv, Typed, EngineInv, Busy, Steps, Planned
<1>4. OpenBatch' = {} /\ Committed' = Committed \cup OpenBatch
  <2>1. Planned' = Planned /\ \A b : RangeOf(b)' = RangeOf(b)
    BY <1>1 DEF Planned, RangeOf
  <2>2. OpenBatch' = {} /\ OpenBatch = RangeOf(Planned)
    BY <1>1, <1>3, <2>1 DEF OpenBatch
  <2>3. 1..committed' = (1..committed) \cup {Planned}
    BY <1>1, <1>3
  <2>4. Committed' = UNION {RangeOf(b) : b \in 1..committed'}
    BY <2>1 DEF Committed
  <2>5. QED
    BY <2>2, <2>3, <2>4 DEF Committed
<1>5. /\ Wanted' = [s \in Sinks |-> {}] /\ Failed' = [s \in Sinks |-> FALSE]
  BY <1>2, IdleMapping
<1>6. ASSUME NEW s \in Sinks, ~Failed[s]
      PROVE  {Cur} \X Wanted[s] \subseteq stored[s]
  <2> DEFINE a == attempts[Cur]
  <2>1. Cur \in DOMAIN attempts /\ a \in Attempt /\ a.rows \subseteq Offset
    BY <1>2, RunningAttempt
  <2>2. s \notin a.faults /\ a.outcome \in {"empty", "written"}
    <3>1. a.outcome \in Outcomes \ {"running", "crashed"}
      BY <1>1, <2>1 DEF DInv, RunningInv, Returned, Attempt
    <3>2. QED
      BY <1>2, <1>6, <3>1 DEF Failed, Outcomes
  <2>3. Wanted[s] = Pick(s, a.rows, Scorer)
    BY <1>2, WantedIsPicked
  <2>4. CASE a.outcome = "empty"
    <3>1. a.rows = {}
      BY <1>1, <2>4 DEF ScoringInv
    <3>2. QED
      BY <2>3, <3>1 DEF Pick
  <2>5. CASE a.outcome = "written"
    <3>1. {Cur} \X Owed(s, a) \subseteq stored[s]
      BY <2>1, <2>2, <2>5 DEF DInv, WrittenInv, DeliveredTo
    <3>2. a.flagged = a.rows \cap Flags[Scorer]
      BY <1>1, <2>5 DEF ScoringInv, Scorer
    <3>3. Owed(s, a) = Pick(s, a.rows, Scorer)
      BY <2>1, <3>2 DEF Owed, Pick, Labelled
    <3>4. QED
      BY <2>3, <3>1, <3>3
  <2>6. QED
    BY <2>2, <2>4, <2>5
<1>7. QED
  BY <1>1, <1>2, <1>4, <1>5, <1>6 DEF Batches!Close, Batches!Nothing

\* The driver dies in an attempt and cuts it off, or between two attempts.
LEMMA CrashIsAbort ==
    ASSUME IInv, Crash
    PROVE  Batches!Abort \/ UNCHANGED Mapped
<1>1. /\ pc' = "down" /\ UNCHANGED <<logStart, offsets, committed, stored>>
      /\ pc \in {"idle", "read"} => UNCHANGED attempts
      /\ pc \notin {"idle", "read"} => \E faults \in SUBSET {"saved_models"} : CutOff(faults)
      /\ pc # "down" /\ pc \in Steps
  BY DEF Crash, kafkaVars, checkpoint, IInv, Typed
<1>2. Cur' = Cur
  BY <1>1 DEF Cur, CutOff, IInv, Typed
<1>3. /\ OpenBatch' = OpenBatch /\ Committed' = Committed /\ Unreadable' = Unreadable
      /\ ~Attempting'
  BY <1>1 DEF OpenBatch, Committed, Planned, RangeOf, Unreadable, Attempting
<1>4. Wanted' = [s \in Sinks |-> {}] /\ Failed' = [s \in Sinks |-> FALSE]
  BY <1>3, IdleMapping
<1>5. CASE Attempting
  BY <1>1, <1>2, <1>3, <1>4, <1>5 DEF Batches!Abort, Batches!Nothing, Batches!batch
<1>6. CASE ~Attempting
  <2>1. Wanted' = Wanted /\ Failed' = Failed
    BY <1>4, <1>6, IdleMapping
  <2>2. Attempting' = Attempting
    BY <1>3, <1>6 DEF Attempting
  <2>3. QED
    BY <1>1, <1>2, <1>3, <2>1, <2>2 DEF Mapped
<1>7. QED
  BY <1>5, <1>6

LEMMA StepIsStep ==
    IInv /\ IInv' /\ DInv /\ ScoringInv /\ [Next]_vars => [Batches!Next]_(Batches!vars)
<1> SUFFICES ASSUME IInv, IInv', DInv, ScoringInv, [Next]_vars
             PROVE  [Batches!Next]_(Batches!vars)
  OBVIOUS
<1>1. UNCHANGED Mapped => UNCHANGED Batches!vars
  BY DEF Mapped, Batches!vars, Batches!batch
<1>2. Batches!Next \/ UNCHANGED Mapped
  <2>1. CASE Handle
    BY <2>1, HandleIsStep
  <2>2. CASE Produce \/ Expire \/ UNCHANGED vars
    BY <2>2, LogIsStep DEF Batches!Next
  <2>3. CASE Start
    BY <2>3, StartIsStep
  <2>4. CASE PlanBatch
    BY <2>4, PlanBatchIsOpen DEF Batches!Next
  <2>5. CASE ReadBatch
    BY <2>5, ReadBatchIsBegin DEF Batches!Next
  <2>6. CASE CommitBatch
    BY <2>6, CommitBatchIsClose DEF Batches!Next
  <2>7. CASE Crash
    BY <2>7, CrashIsAbort DEF Batches!Next
  <2>8. QED
    BY <2>1, <2>2, <2>3, <2>4, <2>5, <2>6, <2>7 DEF Next, Driver, Process, Handle
<1>3. QED
  BY <1>1, <1>2

LEMMA InitIsInit == Init => Batches!Init /\ ScoringInv
<1> SUFFICES ASSUME Init PROVE Batches!Init /\ ScoringInv
  OBVIOUS
<1>1. /\ pc = "down" /\ offsets = <<>> /\ committed = 0 /\ attempts = <<>>
      /\ stored = [s \in Sinks |-> {}]
  BY DEF Init
<1>2. ~Attempting /\ Cur = 0 /\ OpenBatch = {} /\ Committed = {}
  BY <1>1 DEF Attempting, Cur, OpenBatch, Planned, Committed
<1>3. Unreadable \subseteq Offset
  BY DEF Unreadable
<1>4. Batches!Init
  BY <1>1, <1>2, <1>3, IdleMapping DEF Batches!Init, Batches!Nothing
<1>5. ScoringInv
  BY <1>1 DEF ScoringInv, Training, Sinks
<1>6. QED
  BY <1>4, <1>5

\* The job with its crashes, replays, expired records and swallowed failures is a
\* BatchDelivery: batches are disjoint and closed one by one, a sink takes only what
\* the running attempt wants for it, and a batch is closed only when each sink has
\* what the attempt that ended wanted for it, or its failure was recorded.
THEOREM DeliveryImplemented == Spec => ImplementsBatches
<1>1. Init => Batches!Init /\ ScoringInv
  BY InitIsInit
<1>2. IInv /\ ScoringInv /\ [Next]_vars => ScoringInv'
  BY NextKeepsScoring
<1>3. IInv /\ IInv' /\ DInv /\ ScoringInv /\ [Next]_vars => [Batches!Next]_(Batches!vars)
  BY StepIsStep
<1>4. QED
  BY <1>1, <1>2, <1>3, Invariance, DeliveryInvariance, PTL
     DEF Spec, ImplementsBatches, Batches!Spec

=============================================================================
