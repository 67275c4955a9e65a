----------------------- MODULE StreamProcessor_proofs ------------------------
(***************************************************************************)
(* Proofs about StreamProcessor, for any log, any model, any bound on      *)
(* crashes and faults.  The inductive invariant relates the checkpoint to  *)
(* the history of attempts: an attempt that neither crashed nor is running *)
(* belongs to a committed batch, so a batch that is planned anew has only  *)
(* crashed attempts before it, and a sink only holds rows of the offset    *)
(* range of the attempt it names.                                          *)
(***************************************************************************)
EXTENDS StreamProcessor, FiniteSetTheorems, TLAPS

Busy    == Steps \ {"down", "idle"}
Running == Busy \ {"read"}

\* The checkpoint: batches are disjoint ranges, at most one is not committed.
EngineInv ==
    /\ offsets = <<>> => committed = 0 /\ pc = "down"
    /\ offsets # <<>> => committed \in {Planned - 1, Planned}
    /\ pc = "idle" => committed = Planned
    /\ pc \in Busy => committed = Planned - 1
    /\ \A i, j \in DOMAIN offsets : i < j => offsets[i] < offsets[j]

\* The attempts: which rows each may touch, and which attempts share a batch.
AttemptInv ==
    /\ pc \in Running => attempts # <<>> /\ attempts[Cur].batch = Planned
    /\ \A k \in DOMAIN attempts :
         /\ attempts[k].batch \in 1..Planned
         /\ attempts[k].rows \subseteq RangeOf(attempts[k].batch)
         /\ attempts[k].flagged \subseteq attempts[k].rows
         /\ attempts[k].outcome # "crashed" /\ ~(k = Cur /\ pc \in Running)
              => attempts[k].batch <= committed
    /\ \A j, k \in DOMAIN attempts :
         j < k /\ attempts[j].batch = attempts[k].batch
           => attempts[j].outcome = "crashed"

\* The sinks hold only rows that the attempt they name has read.
StoredInv ==
    \A s \in Sinks : \A e \in stored[s] :
        e[1] \in DOMAIN attempts /\ e[2] \in attempts[e[1]].rows

IInv == Typed /\ EngineInv /\ AttemptInv /\ StoredInv

-----------------------------------------------------------------------------
(* What a step of the handler may do to the history and to the sinks.      *)

\* Only the running attempt changes, and neither its batch nor its rows.
Evolves ==
    /\ attempts' \in Seq(Attempt)
    /\ Len(attempts') = Len(attempts)
    /\ \A k \in DOMAIN attempts :
         /\ attempts'[k].batch = attempts[k].batch
         /\ attempts'[k].rows = attempts[k].rows
         /\ attempts'[k].flagged \subseteq attempts[k].rows
         /\ k # Cur => attempts'[k] = attempts[k]

\* The sinks gain rows of the running attempt only.
StoresOnlyCurrent ==
    /\ stored' \in [Sinks -> SUBSET (Nat \X Offset)]
    /\ \A s \in Sinks : \A e \in stored'[s] :
         e \in stored[s] \/ (e[1] = Cur /\ e[2] \in attempts[Cur].rows)

LEMMA UpdateEvolves ==
    ASSUME Typed, AttemptInv, attempts # <<>>,
           NEW a \in Attempt,
           a.batch = attempts[Cur].batch, a.rows = attempts[Cur].rows,
           a.flagged \subseteq a.rows,
           attempts' = [attempts EXCEPT ![Cur] = a]
    PROVE  Evolves
  BY DEF Typed, AttemptInv, Evolves, Cur

LEMMA SameEvolves ==
    ASSUME Typed, AttemptInv, UNCHANGED attempts
    PROVE  Evolves
  BY DEF Typed, AttemptInv, Evolves, Cur

LEMMA PutStores ==
    ASSUME Typed, attempts # <<>>,
           NEW s \in Sinks, NEW P \in SUBSET attempts[Cur].rows, Put(s, P)
    PROVE  StoresOnlyCurrent
<1>1. Cur \in Nat /\ attempts[Cur] \in Attempt
  BY DEF Typed, Cur
<1>2. P \subseteq Offset
  BY <1>1 DEF Attempt
<1>3. {Cur} \X P \subseteq Nat \X Offset
  BY <1>1, <1>2
<1>4. stored' \in [Sinks -> SUBSET (Nat \X Offset)]
  BY <1>3 DEF Typed, Put
<1>5. \A t \in Sinks : \A e \in stored'[t] :
         e \in stored[t] \/ (e[1] = Cur /\ e[2] \in attempts[Cur].rows)
  BY DEF Typed, Put
<1>6. QED
  BY <1>4, <1>5 DEF StoresOnlyCurrent

LEMMA SameStores ==
    ASSUME Typed, UNCHANGED stored
    PROVE  StoresOnlyCurrent
  BY DEF Typed, StoresOnlyCurrent

-----------------------------------------------------------------------------
(* Each step of process after the batch is read.                           *)

\* process after ReadBatch.
Handle == \/ Fit \/ TrainingFails \/ SaveNlp \/ SaveKMeans \/ KeepModel \/ Infer
          \/ WriteDelta \/ PublishAlerts \/ WriteBatchMetrics
          \/ WriteAnomalyAlerts \/ UpdateHealth \/ WriteModelMetrics

HandleFrame == /\ pc \in Running /\ pc' \in Running
               /\ UNCHANGED <<kafkaVars, checkpoint, crashes>>
               /\ Evolves /\ StoresOnlyCurrent

LEMMA RunningAttempt ==
    ASSUME IInv, pc \in Running
    PROVE  /\ attempts # <<>> /\ Cur \in DOMAIN attempts /\ attempts[Cur] \in Attempt
           /\ attempts[Cur].rows \subseteq Offset
           /\ attempts[Cur].flagged \subseteq attempts[Cur].rows
<1>1. attempts # <<>>
  BY DEF IInv, AttemptInv
<1>2. Cur \in DOMAIN attempts /\ attempts[Cur] \in Attempt
  BY <1>1 DEF IInv, Typed, Cur
<1>3. QED
  BY <1>1, <1>2 DEF IInv, AttemptInv, Attempt

\* Finish and a recorded fault are updates of the running attempt.
LEMMA FinishEvolves ==
    ASSUME IInv, pc \in Running, NEW how \in Outcomes, Finish(how)
    PROVE  Evolves
<1>1. [attempts[Cur] EXCEPT !.outcome = how] \in Attempt
  BY RunningAttempt DEF Attempt
<1>2. QED
  BY <1>1, RunningAttempt, UpdateEvolves DEF IInv, Finish, Attempt

LEMMA CutOffEvolves ==
    ASSUME IInv, pc \in Running, NEW faults \in SUBSET {"saved_models"}, CutOff(faults)
    PROVE  /\ Evolves /\ attempts # <<>> /\ Cur \in DOMAIN attempts
           /\ DOMAIN attempts' = DOMAIN attempts /\ attempts'[Cur].outcome = "crashed"
           /\ attempts'[Cur].faults = attempts[Cur].faults \cup faults
           /\ attempts'[Cur].flagged = attempts[Cur].flagged
<1> DEFINE a == [attempts[Cur] EXCEPT !.outcome = "crashed",
                                      !.faults = attempts[Cur].faults \cup faults]
<1>1. a \in Attempt
  BY RunningAttempt DEF Attempt, Outcomes
<1>2. /\ a.batch = attempts[Cur].batch /\ a.rows = attempts[Cur].rows
      /\ a.flagged = attempts[Cur].flagged /\ a.outcome = "crashed"
      /\ a.faults = attempts[Cur].faults \cup faults
  BY RunningAttempt DEF Attempt
<1>3. attempts' = [attempts EXCEPT ![Cur] = a]
  BY RunningAttempt DEF CutOff, IInv, Typed
<1> HIDE DEF a
<1>4. Evolves
  BY <1>1, <1>2, <1>3, RunningAttempt, UpdateEvolves DEF IInv
<1>5. QED
  BY <1>2, <1>3, <1>4, RunningAttempt DEF IInv, Typed

LEMMA FaultEvolves ==
    ASSUME IInv, pc \in Running, NEW s \in Sinks \cup {"saved_models"},
           attempts' = [attempts EXCEPT ![Cur].faults = @ \cup {s}]
    PROVE  Evolves
<1> DEFINE a == [attempts[Cur] EXCEPT !.faults = attempts[Cur].faults \cup {s}]
<1>1. a \in Attempt
  BY RunningAttempt DEF Attempt
<1>2. a.batch = attempts[Cur].batch /\ a.rows = attempts[Cur].rows
      /\ a.flagged = attempts[Cur].flagged
  BY RunningAttempt DEF Attempt
<1>3. attempts' = [attempts EXCEPT ![Cur] = a]
  OBVIOUS
<1> HIDE DEF a
<1>4. QED
  BY <1>1, <1>2, <1>3, RunningAttempt, UpdateEvolves DEF IInv

LEMMA OwedRows ==
    ASSUME IInv, pc \in Running, NEW s \in Sinks
    PROVE  Owed(s, attempts[Cur]) \in SUBSET attempts[Cur].rows
  BY RunningAttempt DEF Owed

LEMMA SucceedsFrame ==
    ASSUME IInv, pc \in Running, NEW s \in Sinks, Succeeds(s)
    PROVE  Evolves /\ StoresOnlyCurrent
  BY OwedRows, RunningAttempt, SameEvolves, PutStores DEF Succeeds, IInv

LEMMA FailsFrame ==
    ASSUME IInv, pc \in Running, NEW s \in Sinks,
           NEW P \in SUBSET attempts[Cur].rows, Fails(s, P)
    PROVE  Evolves /\ StoresOnlyCurrent
  BY RunningAttempt, FaultEvolves, PutStores DEF Fails, IInv

LEMMA HandleIsFramed ==
    ASSUME IInv, Handle
    PROVE  HandleFrame
<1> USE DEF Running, Busy, Steps, Training, Sinks
<1>1. CASE Fit
  BY <1>1, SameEvolves, SameStores DEF Fit, IInv, HandleFrame
<1>2. CASE TrainingFails
  BY <1>2, FinishEvolves, SameStores
     DEF TrainingFails, IInv, HandleFrame, Outcomes
<1>3. ASSUME NEW artefact, NEW step \in Training, NEW next \in Running,
             Save(artefact, step, next)
      PROVE  HandleFrame
  <2>1. Evolves
    BY <1>3, SameEvolves, FaultEvolves DEF Save, IInv
  <2>2. QED
    BY <1>3, <2>1, SameStores DEF Save, IInv, HandleFrame
<1>4. CASE SaveNlp \/ SaveKMeans
  BY <1>4, <1>3 DEF SaveNlp, SaveKMeans
<1>5. CASE KeepModel
  BY <1>5, SameEvolves, SameStores DEF KeepModel, IInv, HandleFrame
<1>6. CASE Infer
  <2> DEFINE a == [attempts[Cur] EXCEPT !.flagged = attempts[Cur].rows \cap Flags[model]]
  <2>1. CASE attempts' = [attempts EXCEPT ![Cur] = a]
    <3>1. a \in Attempt /\ a.batch = attempts[Cur].batch
          /\ a.rows = attempts[Cur].rows /\ a.flagged \subseteq a.rows
      BY <1>6, RunningAttempt DEF Attempt, Infer
    <3> HIDE DEF a
    <3>2. QED
      BY <1>6, <2>1, <3>1, RunningAttempt, UpdateEvolves, SameStores
         DEF Infer, IInv, HandleFrame
  <2>2. CASE Finish("unscored") /\ pc' = "commit"
    BY <1>6, <2>2, FinishEvolves, SameStores DEF Infer, IInv, HandleFrame, Outcomes
  <2>3. QED
    BY <1>6, <2>1, <2>2 DEF Infer, Finish
<1>7. CASE WriteDelta
  BY <1>7, SucceedsFrame, FailsFrame DEF WriteDelta, HandleFrame
<1>8. CASE PublishAlerts
  BY <1>8, RunningAttempt, SucceedsFrame, FailsFrame DEF PublishAlerts, HandleFrame
<1>9. CASE WriteBatchMetrics
  <2>1. \A P \in DatedGroups(attempts[Cur].rows) : P \in SUBSET attempts[Cur].rows
    BY DEF DatedGroups
  <2>2. QED
    BY <1>9, <2>1, SucceedsFrame, FailsFrame DEF WriteBatchMetrics, HandleFrame
<1>10. CASE WriteAnomalyAlerts
  BY <1>10, RunningAttempt, SucceedsFrame, FailsFrame
     DEF WriteAnomalyAlerts, HandleFrame
<1>11. CASE UpdateHealth
  BY <1>11, SucceedsFrame, FailsFrame DEF UpdateHealth, HandleFrame
<1>12. CASE WriteModelMetrics
  <2>1. PICK faults \in {{}, {"model_metrics"}} :
             attempts' = [attempts EXCEPT
                  ![Cur].faults = @ \cup faults, ![Cur].outcome = "written"]
    BY <1>12 DEF WriteModelMetrics
  <2> DEFINE a == [attempts[Cur] EXCEPT !.faults = attempts[Cur].faults \cup faults,
                                        !.outcome = "written"]
  <2>2. attempts' = [attempts EXCEPT ![Cur] = a]
    BY <1>12, <2>1, RunningAttempt DEF WriteModelMetrics, IInv, Typed, Attempt
  <2>3. a \in Attempt /\ a.batch = attempts[Cur].batch
        /\ a.rows = attempts[Cur].rows /\ a.flagged \subseteq a.rows
    BY <1>12, RunningAttempt DEF Attempt, Outcomes, WriteModelMetrics
  <2> HIDE DEF a
  <2>4. Evolves
    BY <1>12, <2>2, <2>3, RunningAttempt, UpdateEvolves DEF WriteModelMetrics, IInv
  <2>5. StoresOnlyCurrent
    BY <1>12, OwedRows, RunningAttempt, PutStores, SameStores
       DEF WriteModelMetrics, IInv
  <2>6. QED
    BY <1>12, <2>4, <2>5 DEF WriteModelMetrics, HandleFrame
<1>13. QED
  BY <1>1, <1>2, <1>4, <1>5, <1>6, <1>7, <1>8, <1>9, <1>10, <1>11, <1>12 DEF Handle

-----------------------------------------------------------------------------
(* The invariant holds initially and every step keeps it.                  *)

LEMMA InitIInv == Init => IInv
<1> SUFFICES ASSUME Init PROVE IInv
  OBVIOUS
<1>1. Typed
  BY SizeAssumption DEF Init, Typed, Steps
<1>2. EngineInv /\ AttemptInv /\ StoredInv
  BY DEF Init, EngineInv, AttemptInv, StoredInv, Busy, Running, Planned, Cur
<1>3. QED
  BY <1>1, <1>2 DEF IInv

LEMMA RowsAreFinite ==
    ASSUME NEW S \in SUBSET Offset
    PROVE  IsFiniteSet(S) /\ Cardinality(S) \in Nat
<1>1. IsFiniteSet(Offset)
  BY SizeAssumption, FS_Interval DEF Offset
<1>2. IsFiniteSet(S)
  BY <1>1, FS_Subset
<1>3. QED
  BY <1>2, FS_CardinalityType

LEMMA UpsertedType ==
    ASSUME Typed, NEW rows \in SUBSET Offset, NEW flagged \in SUBSET Offset
    PROVE  Upserted(rows, flagged) \in
             [Component -> [events : Nat, anomalies : Nat,
                status : {"unknown", "healthy", "warning", "critical"}]]
<1>1. ASSUME NEW c \in Component
      PROVE  /\ Cardinality({o \in rows : CompOf[o] = c}) \in Nat
             /\ Cardinality({o \in flagged : CompOf[o] = c}) \in Nat
  <2>1. {o \in rows : CompOf[o] = c} \in SUBSET Offset
        /\ {o \in flagged : CompOf[o] = c} \in SUBSET Offset
    OBVIOUS
  <2>2. QED
    BY <2>1, RowsAreFinite
<1>2. \A r : StatusOf(r) \in {"unknown", "healthy", "warning", "critical"}
  BY DEF StatusOf
<1>3. QED
  BY <1>1, <1>2 DEF Upserted, UpsertedOver, Typed

LEMMA ConfusionType ==
    ASSUME NEW k \in Nat, NEW labelled \in SUBSET Offset, NEW flagged
    PROVE  Confusion(k, labelled, flagged) \in
             [attempt : Nat, tp : Nat, fp : Nat, tn : Nat, fn : Nat]
<1>1. ASSUME NEW predicted, NEW truth
      PROVE  Count(labelled, flagged, predicted, truth) \in Nat
  <2>1. {o \in labelled : (o \in flagged) = predicted /\ Label[o] = truth}
          \in SUBSET Offset
    OBVIOUS
  <2>2. QED
    BY <2>1, RowsAreFinite DEF Count
<1>2. QED
  BY <1>1 DEF Confusion

LEMMA HandleTyped ==
    ASSUME IInv, Handle
    PROVE  Typed'
<1>1. HandleFrame
  BY HandleIsFramed
<1>2. attempts' \in Seq(Attempt) /\ stored' \in [Sinks -> SUBSET (Nat \X Offset)]
      /\ pc' \in Steps
  BY <1>1 DEF HandleFrame, Evolves, StoresOnlyCurrent, Running, Busy
<1>3. UNCHANGED <<logStart, logEnd, offsets, committed, crashes>>
  BY <1>1 DEF HandleFrame, kafkaVars, checkpoint
<1>4. nfaults' \in Nat /\ model' \in SUBSET Offset
      /\ saved' \in [Artefacts -> Nat]
  <2>1. attempts[Cur].rows \subseteq Offset
    BY <1>1, RunningAttempt DEF HandleFrame
  <2> USE DEF IInv, Typed, Fault
  <2>2. CASE Fit \/ TrainingFails \/ KeepModel \/ Infer
    BY <2>1, <2>2 DEF Fit, TrainingFails, KeepModel, Infer
  <2>3. CASE SaveNlp \/ SaveKMeans
    <3>1. Cur \in Nat
      BY DEF Cur
    <3>2. QED
      BY <2>1, <2>3, <3>1 DEF SaveNlp, SaveKMeans, Save, Artefacts
  <2>4. CASE WriteDelta \/ PublishAlerts \/ WriteBatchMetrics \/ WriteAnomalyAlerts
             \/ UpdateHealth \/ WriteModelMetrics
    BY <2>4 DEF WriteDelta, PublishAlerts, WriteBatchMetrics, WriteAnomalyAlerts,
                UpdateHealth, WriteModelMetrics
  <2>5. QED
    BY <2>2, <2>3, <2>4 DEF Handle
<1>5. health' \in [Component -> [events : Nat, anomalies : Nat,
                     status : {"unknown", "healthy", "warning", "critical"}]]
  <2>1. CASE UpdateHealth
    <3>1. Upserted(attempts[Cur].rows, attempts[Cur].flagged) \in
             [Component -> [events : Nat, anomalies : Nat,
                status : {"unknown", "healthy", "warning", "critical"}]]
      BY <1>1, RunningAttempt, UpsertedType DEF HandleFrame, IInv
    <3>2. QED
      BY <2>1, <3>1 DEF UpdateHealth, IInv, Typed
  <2>2. CASE UNCHANGED health
    BY <2>2 DEF IInv, Typed
  <2>3. QED
    BY <2>1, <2>2 DEF Handle, Fit, TrainingFails, KeepModel, Infer, SaveNlp,
         SaveKMeans, Save, WriteDelta, PublishAlerts, WriteBatchMetrics,
         WriteAnomalyAlerts, WriteModelMetrics, tables
<1>6. modelMetrics' \in SUBSET [attempt : Nat, tp : Nat, fp : Nat, tn : Nat, fn : Nat]
  <2>1. CASE WriteModelMetrics
    <3> DEFINE labelled == Owed("model_metrics", attempts[Cur])
               row == Confusion(Cur, labelled, attempts[Cur].flagged)
    <3>1. Cur \in Nat
      BY DEF IInv, Typed, Cur
    <3>2. labelled \in SUBSET Offset
      BY <1>1, RunningAttempt, OwedRows DEF HandleFrame, Sinks
    <3>3. row \in [attempt : Nat, tp : Nat, fp : Nat, tn : Nat, fn : Nat]
      BY <3>1, <3>2, ConfusionType
    <3>4. modelMetrics' \in {modelMetrics, modelMetrics \cup {row}}
      BY <2>1 DEF WriteModelMetrics
    <3> HIDE DEF row
    <3>5. QED
      BY <3>3, <3>4 DEF IInv, Typed
  <2>2. CASE UNCHANGED modelMetrics
    BY <2>2 DEF IInv, Typed
  <2>3. QED
    BY <2>1, <2>2 DEF Handle, Fit, TrainingFails, KeepModel, Infer, SaveNlp,
         SaveKMeans, Save, WriteDelta, PublishAlerts, WriteBatchMetrics,
         WriteAnomalyAlerts, UpdateHealth, tables
<1>7. QED
  BY <1>2, <1>3, <1>4, <1>5, <1>6 DEF Typed, IInv

\* The checkpoint stands still, so only the frame matters for the rest.
LEMMA HandleKeepsIInv ==
    ASSUME IInv, Handle
    PROVE  IInv'
<1>1. HandleFrame /\ Typed'
  BY HandleIsFramed, HandleTyped
<1>2. UNCHANGED <<offsets, committed>>
  BY <1>1 DEF HandleFrame, checkpoint
<1>3. EngineInv'
  BY <1>1, <1>2 DEF HandleFrame, EngineInv, IInv, Planned, Running, Busy
<1>4. DOMAIN attempts' = DOMAIN attempts /\ Cur' = Cur
  BY <1>1 DEF HandleFrame, Evolves, IInv, Typed, Cur
<1>5. AttemptInv'
  <2>1. Planned' = Planned /\ \A b : RangeOf(b)' = RangeOf(b)
    BY <1>2 DEF Planned, RangeOf
  <2>2. attempts # <<>> /\ Cur \in DOMAIN attempts /\ pc \in Running /\ pc' \in Running
    BY <1>1, RunningAttempt DEF HandleFrame
  <2>3. attempts' # <<>> /\ attempts'[Cur].batch = Planned
    BY <1>1, <2>2 DEF HandleFrame, Evolves, AttemptInv, IInv, Typed
  <2>4. ASSUME NEW k \in DOMAIN attempts
        PROVE  /\ attempts'[k].batch \in 1..Planned
               /\ attempts'[k].rows \subseteq RangeOf(attempts'[k].batch)
               /\ attempts'[k].flagged \subseteq attempts'[k].rows
               /\ attempts'[k].outcome # "crashed" /\ k # Cur
                    => attempts'[k].batch <= committed
    BY <1>1, <2>2 DEF HandleFrame, Evolves, AttemptInv, IInv
  <2>5. ASSUME NEW j \in DOMAIN attempts, NEW k \in DOMAIN attempts,
               j < k, attempts'[j].batch = attempts'[k].batch
        PROVE  attempts'[j].outcome = "crashed"
    <3>1. j # Cur
      BY <2>5 DEF IInv, Typed, Cur
    <3>2. attempts'[j] = attempts[j] /\ attempts'[k].batch = attempts[k].batch
      BY <1>1, <3>1 DEF HandleFrame, Evolves
    <3>3. QED
      BY <2>5, <3>2 DEF IInv, AttemptInv
  <2>6. QED
    BY <1>2, <1>4, <2>1, <2>2, <2>3, <2>4, <2>5 DEF AttemptInv
<1>6. StoredInv'
  BY <1>1, <1>4, RunningAttempt
     DEF HandleFrame, Evolves, StoresOnlyCurrent, StoredInv, IInv
<1>7. QED
  BY <1>1, <1>3, <1>5, <1>6 DEF IInv

\* Kafka's own steps, and a stutter, leave the query and the sinks alone.
LEMMA LogKeepsIInv ==
    ASSUME IInv, Produce \/ Expire \/ UNCHANGED vars
    PROVE  IInv'
<1>1. UNCHANGED <<checkpoint, pc, model, saved, tables, stored, attempts,
                  crashes, nfaults>>
  BY DEF Produce, Expire, vars
<1>2. logStart' \in 0..MaxLog /\ logEnd' \in 0..MaxLog /\ logStart' <= logEnd'
  BY SizeAssumption DEF Produce, Expire, vars, kafkaVars, IInv, Typed
<1>3. Typed'
  BY <1>1, <1>2 DEF IInv, Typed, checkpoint, tables
<1>4. EngineInv' /\ StoredInv'
  BY <1>1 DEF IInv, EngineInv, StoredInv, Planned, checkpoint
<1>5. AttemptInv'
  BY <1>1 DEF IInv, AttemptInv, Planned, Cur, RangeOf, checkpoint
<1>6. QED
  BY <1>3, <1>4, <1>5 DEF IInv

LEMMA ElementType ==
    ASSUME NEW S, NEW q \in Seq(S), NEW i \in DOMAIN q
    PROVE  q[i] \in S
  OBVIOUS

LEMMA SingletonType ==
    ASSUME NEW S, NEW x \in S
    PROVE  <<x>> \in Seq(S)
  OBVIOUS

\* Outside the handler an attempt stands, as long as its offset range does.
LEMMA AttemptsStand ==
    ASSUME IInv, UNCHANGED attempts, pc' \notin Running,
           Planned' \in Int, Planned' >= Planned,
           \A b \in 1..Planned : RangeOf(b)' = RangeOf(b),
           committed' \in Nat, committed' >= committed,
           pc \in Running => committed' = Planned
    PROVE  AttemptInv'
<1>1. Planned \in Int /\ committed \in Nat
  BY DEF IInv, Typed, Planned
<1>2. ASSUME NEW k \in DOMAIN attempts
      PROVE  /\ attempts[k].batch \in 1..Planned'
             /\ attempts[k].rows \subseteq RangeOf(attempts[k].batch)'
             /\ attempts[k].flagged \subseteq attempts[k].rows
             /\ attempts[k].outcome # "crashed" => attempts[k].batch <= committed'
  <2>1. attempts[k].batch \in 1..Planned
    BY DEF IInv, AttemptInv
  <2>2. attempts[k].rows \subseteq RangeOf(attempts[k].batch)'
        /\ attempts[k].flagged \subseteq attempts[k].rows
    BY <2>1 DEF IInv, AttemptInv
  <2>3. attempts[k].outcome # "crashed" /\ ~(k = Cur /\ pc \in Running)
           => attempts[k].batch <= committed
    BY DEF IInv, AttemptInv
  <2>4. QED
    BY <1>1, <2>1, <2>2, <2>3
<1>3. \A j, k \in DOMAIN attempts :
         j < k /\ attempts[j].batch = attempts[k].batch
           => attempts[j].outcome = "crashed"
  BY DEF IInv, AttemptInv
<1>4. QED
  BY <1>2, <1>3 DEF AttemptInv

LEMMA StartKeepsIInv ==
    ASSUME IInv, Start
    PROVE  IInv'
<1>1. /\ pc = "down" /\ pc' \in {"idle", "read"} /\ model' = {}
      /\ offsets' = IF offsets = <<>> THEN <<logEnd>> ELSE offsets
      /\ pc' = IF Planned > committed THEN "read" ELSE "idle"
      /\ UNCHANGED <<logStart, logEnd, committed, saved, health, modelMetrics,
                     stored, attempts, crashes, nfaults>>
  BY DEF Start, StartAt, kafkaVars, tables
<1>2. /\ offsets' \in Seq(0..MaxLog) /\ offsets' # <<>> /\ committed \in Nat
      /\ offsets = <<>> => offsets' = <<logEnd>>
      /\ offsets # <<>> => offsets' = offsets
  BY <1>1, SingletonType DEF IInv, Typed
<1>3. Typed'
  BY <1>1, <1>2 DEF IInv, Typed, Steps
<1>4. EngineInv' /\ Planned' \in Int /\ Planned' >= Planned
      /\ \A b \in 1..Planned : RangeOf(b)' = RangeOf(b)
  <2>1. CASE offsets = <<>>
    <3>1. offsets' = <<logEnd>> /\ Planned' = 0 /\ Planned = -1 /\ committed = 0
      BY <1>2, <2>1 DEF Planned, IInv, EngineInv
    <3>2. pc' = "idle"
      BY <1>1, <3>1
    <3>3. QED
      BY <1>1, <3>1, <3>2 DEF EngineInv, Busy
  <2>2. CASE offsets # <<>>
    <3>1. offsets' = offsets /\ Planned \in Int /\ Planned' = Planned
      BY <1>2, <2>2 DEF Planned, IInv, Typed
    <3>2. EngineInv'
      BY <1>1, <1>2, <2>2, <3>1 DEF IInv, EngineInv, Busy
    <3>3. QED
      BY <3>1, <3>2 DEF RangeOf
  <2>3. QED
    BY <2>1, <2>2
<1>5. AttemptInv'
  BY <1>1, <1>2, <1>4, AttemptsStand DEF Running, Busy
<1>6. StoredInv'
  BY <1>1 DEF IInv, StoredInv
<1>7. QED
  BY <1>3, <1>4, <1>5, <1>6 DEF IInv

\* A new end offset lies beyond the old ones; the ranges of old batches stand.
LEMMA PlanBatchKeepsIInv ==
    ASSUME IInv, PlanBatch
    PROVE  IInv'
<1> DEFINE last == offsets[Len(offsets)]
           end == IF logEnd <= last + MaxOffsetsPerTrigger
                  THEN logEnd ELSE last + MaxOffsetsPerTrigger
<1> USE DEF PlanBatch, PlanUpTo
<1>1. offsets # <<>> /\ offsets \in Seq(0..MaxLog) /\ Len(offsets) \in DOMAIN offsets
  BY DEF IInv, Typed, EngineInv
<1>2. last \in 0..MaxLog /\ end \in 0..MaxLog /\ last < end
  <2>1. last \in 0..MaxLog /\ logEnd \in 0..MaxLog /\ last + 1 <= logEnd
    <3>1. last \in 0..MaxLog
      BY <1>1, ElementType
    <3>2. QED
      BY <3>1 DEF IInv, Typed
  <2>2. QED
    BY <2>1, SizeAssumption
<1>3. offsets' = Append(offsets, end) /\ pc' = "read" /\ pc = "idle"
      /\ UNCHANGED <<logStart, logEnd, committed, model, saved, health, modelMetrics,
                     stored, attempts, crashes, nfaults>>
  BY DEF kafkaVars, tables
<1> HIDE DEF end, PlanBatch, PlanUpTo
<1>4. Typed'
  BY <1>2, <1>3 DEF IInv, Typed, Steps
<1>5. /\ Len(offsets') = Len(offsets) + 1
      /\ offsets'[Len(offsets) + 1] = end
      /\ \A i \in DOMAIN offsets : offsets'[i] = offsets[i]
      /\ DOMAIN offsets' = DOMAIN offsets \cup {Len(offsets) + 1}
  BY <1>1, <1>2, <1>3
<1> HIDE DEF last
<1>6. EngineInv'
  <2>1. Planned' = Planned + 1 /\ committed' = Planned
    BY <1>1, <1>3, <1>5 DEF IInv, EngineInv, Planned
  <2>2. ASSUME NEW i \in DOMAIN offsets', NEW j \in DOMAIN offsets', i < j
        PROVE  offsets'[i] < offsets'[j]
    <3>1. i \in DOMAIN offsets
      BY <1>1, <1>5, <2>2
    <3>2. offsets[i] \in 0..MaxLog
      BY <1>1, <3>1, ElementType
    <3>3. CASE j \in DOMAIN offsets
      BY <1>5, <2>2, <3>1, <3>3 DEF IInv, EngineInv
    <3>4. CASE j = Len(offsets) + 1
      <4>1. CASE i = Len(offsets)
        BY <1>2, <1>5, <3>1, <3>4, <4>1 DEF last
      <4>2. CASE i < Len(offsets)
        <5>1. offsets[i] < last
          BY <1>1, <3>1, <3>2, <4>2 DEF IInv, EngineInv, last
        <5>2. QED
          BY <1>2, <1>5, <3>1, <3>2, <3>4, <5>1
      <4>3. QED
        BY <1>1, <3>1, <4>1, <4>2
    <3>5. QED
      BY <1>5, <3>3, <3>4
  <2>3. offsets' # <<>> /\ Planned \in Int
    BY <1>1, <1>5 DEF Planned
  <2>4. QED
    BY <1>3, <2>1, <2>2, <2>3 DEF EngineInv
<1>7. AttemptInv'
  <2>1. Planned' = Planned + 1 /\ Planned \in Nat
    BY <1>1, <1>5 DEF Planned
  <2>2. \A b \in 1..Planned : RangeOf(b)' = RangeOf(b)
    BY <1>1, <1>5 DEF Planned, RangeOf
  <2>3. QED
    BY <1>3, <2>1, <2>2, AttemptsStand DEF IInv, Typed, Running, Busy
<1>8. StoredInv'
  BY <1>3 DEF IInv, StoredInv
<1>9. QED
  BY <1>4, <1>6, <1>7, <1>8 DEF IInv

LEMMA CommitBatchKeepsIInv ==
    ASSUME IInv, CommitBatch
    PROVE  IInv'
<1>1. /\ pc = "commit" /\ pc' = "idle" /\ committed' = committed + 1
      /\ UNCHANGED <<logStart, logEnd, offsets, model, saved, health, modelMetrics,
                     stored, attempts, crashes, nfaults>>
  BY DEF CommitBatch, kafkaVars, tables
<1>2. Typed'
  BY <1>1 DEF IInv, Typed, Steps
<1>3. committed' = Planned /\ Planned \in Nat /\ offsets # <<>>
  BY <1>1 DEF IInv, Typed, EngineInv, Planned, Busy, Steps
<1>4. EngineInv'
  BY <1>1, <1>3 DEF IInv, EngineInv, Planned, Busy
<1>5. AttemptInv'
  <2>1. Planned' = Planned /\ \A b : RangeOf(b)' = RangeOf(b)
    BY <1>1 DEF Planned, RangeOf
  <2>2. QED
    BY <1>1, <1>3, <2>1, AttemptsStand DEF IInv, Typed, Running, Busy
<1>6. StoredInv'
  BY <1>1 DEF IInv, StoredInv
<1>7. QED
  BY <1>2, <1>4, <1>5, <1>6 DEF IInv

LEMMA CrashKeepsIInv ==
    ASSUME IInv, Crash
    PROVE  IInv'
<1>1. /\ pc # "down" /\ pc' = "down" /\ model' = {}
      /\ crashes' = crashes + 1
      /\ UNCHANGED <<logStart, logEnd, offsets, committed, saved, health,
                     modelMetrics, stored, nfaults>>
  BY DEF Crash, kafkaVars, checkpoint, tables
<1>2. Planned' = Planned /\ \A b : RangeOf(b)' = RangeOf(b)
  BY <1>1 DEF Planned, RangeOf
<1>3. EngineInv' /\ Planned \in Int
  BY <1>1, <1>2 DEF IInv, Typed, EngineInv, Busy, Planned
<1>4. CASE pc \in {"idle", "read"}
  <2>1. UNCHANGED attempts
    BY <1>4 DEF Crash
  <2>2. Typed'
    BY <1>1, <2>1 DEF IInv, Typed, Steps
  <2>3. AttemptInv'
    BY <1>1, <1>2, <1>3, <1>4, <2>1, AttemptsStand DEF IInv, Typed, Running, Busy
  <2>4. StoredInv'
    BY <1>1, <2>1 DEF IInv, StoredInv
  <2>5. QED
    BY <1>3, <2>2, <2>3, <2>4 DEF IInv
<1>5. CASE pc \notin {"idle", "read"}
  <2>1. pc \in Running /\ \E faults \in SUBSET {"saved_models"} : CutOff(faults)
    BY <1>1, <1>5 DEF IInv, Typed, Crash, Running, Busy
  <2>2. Evolves /\ attempts # <<>> /\ Cur \in DOMAIN attempts
    BY <2>1, CutOffEvolves
  <2>3. DOMAIN attempts' = DOMAIN attempts /\ attempts'[Cur].outcome = "crashed"
    BY <2>1, CutOffEvolves
  <2>4. Typed'
    BY <1>1, <2>2 DEF IInv, Typed, Steps, Evolves
  <2>5. ASSUME NEW k \in DOMAIN attempts
        PROVE  /\ attempts'[k].batch \in 1..Planned
               /\ attempts'[k].rows \subseteq RangeOf(attempts'[k].batch)
               /\ attempts'[k].flagged \subseteq attempts'[k].rows
               /\ attempts'[k].outcome # "crashed" => attempts'[k].batch <= committed
    BY <2>2, <2>3 DEF Evolves, AttemptInv, IInv
  <2>6. ASSUME NEW j \in DOMAIN attempts, NEW k \in DOMAIN attempts,
               j < k, attempts'[j].batch = attempts'[k].batch
        PROVE  attempts'[j].outcome = "crashed"
    <3>1. j # Cur
      BY <2>6 DEF IInv, Typed, Cur
    <3>2. attempts'[j] = attempts[j] /\ attempts'[k].batch = attempts[k].batch
      BY <2>2, <3>1 DEF Evolves
    <3>3. QED
      BY <2>6, <3>2 DEF IInv, AttemptInv
  <2>7. AttemptInv'
    BY <1>1, <1>2, <2>3, <2>5, <2>6 DEF AttemptInv, Running, Busy
  <2>8. StoredInv'
    BY <1>1, <2>2, <2>3 DEF Evolves, IInv, StoredInv
  <2>9. QED
    BY <1>3, <2>4, <2>7, <2>8 DEF IInv
<1>6. QED
  BY <1>4, <1>5

\* A new attempt belongs to the planned batch; all the batch's earlier attempts
\* crashed, because the batch is not committed.
LEMMA ReadBatchKeepsIInv ==
    ASSUME IInv, ReadBatch
    PROVE  IInv'
<1> DEFINE rows == {o \in RangeOf(Planned) \cap Parsed : o > logStart}
           new  == [batch |-> Planned, rows |-> rows, flagged |-> {}, faults |-> {},
                    outcome |-> IF rows = {} THEN "empty" ELSE "running"]
<1>1. /\ pc = "read" /\ pc' \in {"commit", "fit", "infer"}
      /\ attempts' = Append(attempts, new)
      /\ UNCHANGED <<logStart, logEnd, offsets, committed, model, saved, health,
                     modelMetrics, stored, crashes, nfaults>>
  BY DEF ReadBatch, kafkaVars, checkpoint, tables
<1>2. Planned' = Planned /\ \A b : RangeOf(b)' = RangeOf(b)
  BY <1>1 DEF Planned, RangeOf
<1>3. /\ committed = Planned - 1 /\ committed \in Nat /\ Planned \in Nat
      /\ Planned \in 1..Planned
  BY <1>1 DEF IInv, Typed, EngineInv, Busy, Steps, Planned
<1>4. /\ new \in Attempt /\ new.batch = Planned /\ new.flagged = {}
      /\ new.rows \subseteq RangeOf(Planned)
  BY <1>3 DEF Attempt, Outcomes, RangeOf
<1> HIDE DEF new
<1>5. /\ attempts' \in Seq(Attempt) /\ Cur' = Cur + 1 /\ Cur \in Nat
      /\ DOMAIN attempts' = DOMAIN attempts \cup {Cur + 1}
      /\ attempts'[Cur + 1] = new
      /\ \A k \in DOMAIN attempts : attempts'[k] = attempts[k] /\ k \in 1..Cur
  BY <1>1, <1>4 DEF IInv, Typed, Cur
<1>6. Typed'
  BY <1>1, <1>5 DEF IInv, Typed, Steps, Training
<1>7. EngineInv'
  BY <1>1, <1>2 DEF IInv, EngineInv, Busy, Steps, Training
<1>8. ASSUME NEW k \in DOMAIN attempts
      PROVE  /\ attempts[k].batch \in 1..Planned
             /\ attempts[k].rows \subseteq RangeOf(attempts[k].batch)
             /\ attempts[k].flagged \subseteq attempts[k].rows
             /\ attempts[k].outcome # "crashed" => attempts[k].batch <= committed
  BY <1>1 DEF IInv, AttemptInv, Running
<1>9. ASSUME NEW j \in DOMAIN attempts', NEW k \in DOMAIN attempts',
             j < k, attempts'[j].batch = attempts'[k].batch
      PROVE  attempts'[j].outcome = "crashed"
  <2>1. j \in DOMAIN attempts
    BY <1>5, <1>9
  <2>2. CASE k \in DOMAIN attempts
    BY <1>5, <1>9, <2>1, <2>2 DEF IInv, AttemptInv
  <2>3. CASE k = Cur + 1
    <3>1. attempts[j].batch = Planned
      BY <1>4, <1>5, <1>9, <2>1, <2>3
    <3>2. QED
      BY <1>3, <1>5, <1>8, <2>1, <3>1
  <2>4. QED
    BY <1>5, <2>2, <2>3
<1>10. AttemptInv'
  <2>1. attempts' # <<>> /\ attempts'[Cur'].batch = Planned
    BY <1>4, <1>5
  <2>2. ASSUME NEW k \in DOMAIN attempts'
        PROVE  /\ attempts'[k].batch \in 1..Planned
               /\ attempts'[k].rows \subseteq RangeOf(attempts'[k].batch)
               /\ attempts'[k].flagged \subseteq attempts'[k].rows
               /\ attempts'[k].outcome # "crashed" /\ k # Cur'
                    => attempts'[k].batch <= committed
    BY <1>3, <1>4, <1>5, <1>8
  <2>3. pc' \in Running
    BY <1>1 DEF Running, Busy, Steps, Training
  <2>4. QED
    BY <1>1, <1>2, <1>9, <2>1, <2>2, <2>3 DEF AttemptInv
<1>11. StoredInv'
  BY <1>1, <1>5 DEF IInv, StoredInv
<1>12. QED
  BY <1>6, <1>7, <1>10, <1>11 DEF IInv

LEMMA NextKeepsIInv == IInv /\ [Next]_vars => IInv'
<1> SUFFICES ASSUME IInv, [Next]_vars PROVE IInv'
  OBVIOUS
<1>1. CASE Handle
  BY <1>1, HandleKeepsIInv
<1>2. QED
  BY <1>1, LogKeepsIInv, StartKeepsIInv, PlanBatchKeepsIInv, CommitBatchKeepsIInv,
     CrashKeepsIInv, ReadBatchKeepsIInv
     DEF Next, Driver, Process, Handle

\* In every behaviour of the job, for every log, every model and any number of
\* crashes and failed calls, the inductive invariant holds: the checkpoint, the
\* history of process's calls and the sinks fit together.
THEOREM Invariance == Spec => []IInv
<1>1. Init => IInv
  BY InitIInv
<1>2. IInv /\ [Next]_vars => IInv'
  BY NextKeepsIInv
<1>3. QED
  BY <1>1, <1>2, PTL DEF Spec

-----------------------------------------------------------------------------
(* What the invariant gives.                                               *)

\* Every variable always has its type: in particular no offset the checkpoint
\* logs lies beyond the topic, and no sink holds an offset that is not a record.
THEOREM TypeCorrect == Spec => []TypeOK
<1>1. IInv => TypeOK
  BY DEF IInv, EngineInv, TypeOK
<1>2. QED
  BY <1>1, Invariance, PTL

\* Two planned batches share no offset: the end of one is at or before the start
\* of the next.
LEMMA RangesDisjoint ==
    ASSUME IInv, NEW b \in 1..Planned, NEW c \in 1..Planned, b < c
    PROVE  RangeOf(b) \cap RangeOf(c) = {}
<1>1. b + 1 \in DOMAIN offsets /\ c \in DOMAIN offsets /\ b + 1 <= c
  BY DEF IInv, Typed, Planned
<1>2. offsets[b + 1] \in 0..MaxLog /\ offsets[c] \in 0..MaxLog
  BY <1>1, ElementType DEF IInv, Typed
<1>3. offsets[b + 1] <= offsets[c]
  BY <1>1, <1>2 DEF IInv, EngineInv
<1>4. QED
  BY <1>2, <1>3 DEF RangeOf, Offset

\* A sink holds a record from two calls of process only when both ran the same
\* batch and the driver died in the earlier one: swallowed failures of the sinks,
\* of training or of scoring never make the job write a record twice.
THEOREM ReplayOnly == Spec => []DuplicatesOnlyFromReplay
<1>1. IInv => DuplicatesOnlyFromReplay
  <2> SUFFICES ASSUME IInv, NEW s \in Sinks, NEW d \in stored[s], NEW e \in stored[s],
                      d[2] = e[2], d[1] < e[1]
               PROVE  /\ attempts[d[1]].batch = attempts[e[1]].batch
                      /\ attempts[d[1]].outcome = "crashed"
    BY DEF DuplicatesOnlyFromReplay
  <2> DEFINE j == d[1]  k == e[1]  o == d[2]
  <2>1. /\ j \in DOMAIN attempts /\ k \in DOMAIN attempts
        /\ o \in attempts[j].rows /\ o \in attempts[k].rows
    BY DEF IInv, StoredInv
  <2>2. /\ attempts[j].batch \in 1..Planned /\ attempts[k].batch \in 1..Planned
        /\ o \in RangeOf(attempts[j].batch) /\ o \in RangeOf(attempts[k].batch)
    BY <2>1 DEF IInv, AttemptInv
  <2>3. attempts[j].batch = attempts[k].batch
    <3>1. ~(attempts[j].batch < attempts[k].batch)
      BY <2>2, RangesDisjoint
    <3>2. ~(attempts[k].batch < attempts[j].batch)
      BY <2>2, RangesDisjoint
    <3>3. QED
      BY <2>2, <3>1, <3>2
  <2>4. QED
    BY <2>1, <2>3 DEF IInv, AttemptInv
<1>2. QED
  BY <1>1, Invariance, PTL

\* Once a batch is in the commit log no sink ever receives a row of it again.
CommittedIsFinal ==
    [][\A s \in Sinks : \A e \in stored'[s] \ stored[s] :
          attempts[e[1]].batch > committed]_vars

\* A batch in the commit log is closed: whatever a sink takes in a step belongs to
\* a batch that is planned and not yet committed, also after restarts and replays.
THEOREM CommittedFinal == Spec => CommittedIsFinal
<1>1. IInv /\ [Next]_vars
        => [\A s \in Sinks : \A e \in stored'[s] \ stored[s] :
                attempts[e[1]].batch > committed]_vars
  <2> SUFFICES ASSUME IInv, Next, NEW s \in Sinks, NEW e \in stored'[s] \ stored[s]
               PROVE  attempts[e[1]].batch > committed
    OBVIOUS
  <2>1. CASE Handle
    <3>1. HandleFrame
      BY <2>1, HandleIsFramed
    <3>2. e[1] = Cur
      BY <3>1 DEF HandleFrame, StoresOnlyCurrent
    <3>3. attempts[Cur].batch = Planned /\ committed = Planned - 1 /\ committed \in Nat
      BY <3>1 DEF HandleFrame, IInv, Typed, EngineInv, AttemptInv, Running, Busy
    <3>4. Planned \in Int
      BY DEF IInv, Typed, Planned
    <3>5. QED
      BY <3>2, <3>3, <3>4
  <2>2. CASE UNCHANGED stored
    BY <2>2
  <2>3. QED
    BY <2>1, <2>2 DEF Next, Driver, Process, Handle, Produce, Expire, Start, StartAt,
         PlanBatch, PlanUpTo, CommitBatch, Crash, ReadBatch
<1>2. QED
  BY <1>1, Invariance, PTL DEF Spec, CommittedIsFinal

=============================================================================
