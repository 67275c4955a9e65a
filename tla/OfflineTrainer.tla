---------------------------- MODULE OfflineTrainer ----------------------------
(***************************************************************************)
(* What src/ml/train_model.py computes between loading its rows and saving *)
(* its model: the cluster it calls anomalous and the evaluation it reports.*)
(* The clustering itself is any assignment of the rows to clusters.  Where *)
(* the model goes is ModelStore.                                           *)
(***************************************************************************)
EXTENDS Integers, FiniteSets

CONSTANTS Row,     \* the rows of the source
          Cluster  \* 0..KMEANS_K - 1

ASSUME RowAssumption == IsFiniteSet(Row)

Null == -1
Label == {0, 1}

VARIABLES
    source,    \* "delta", or "csv" with or without labels
    blank,     \* the rows without a message
    truth,     \* the label the log line came with, or Null
    flag,      \* is_anomaly of processed_logs: what the job predicted
    df,        \* the rows loaded
    cluster,   \* prediction: the cluster of each row
    anomalous, \* anomaly_cluster
    report,    \* the confusion matrix, if one was logged
    pc         \* "load", "train", "evaluate", "save" or "exited"

inputVars == <<source, blank, truth, flag>>
trainerVars == <<inputVars, df, cluster, anomalous, report, pc>>

\* The column is_anomaly of the source.
Labelled == source # "bare csv"
IsAnomaly(r) == IF source = "delta" THEN flag[r] ELSE truth[r]

\* Rows without a message are dropped; without rows the trainer exits.
Load == /\ pc = "load"
        /\ df' = Row \ blank
        /\ pc' = IF df' = {} THEN "exited" ELSE "train"
        /\ UNCHANGED <<inputVars, cluster, anomalous, report>>

\* K-means.
Train == /\ pc = "train" /\ pc' = "evaluate"
         /\ cluster' \in [df -> Cluster]
         /\ UNCHANGED <<inputVars, df, anomalous, report>>

Members(c) == {r \in df : cluster[r] = c}
Used == {cluster[r] : r \in df}

WithLabel(S, l) == Cardinality({r \in S : IsAnomaly(r) = l})
Labels(S) == WithLabel(S, 0) + WithLabel(S, 1)

\* F.avg of a cluster without labels is null, which comes last in a descending order.
AtLeastAsDense(c, d) ==
    \/ Labels(Members(d)) = 0
    \/ /\ Labels(Members(c)) > 0
       /\ WithLabel(Members(c), 1) * Labels(Members(d))
             >= WithLabel(Members(d), 1) * Labels(Members(c))

\* Mutant of DensestClusters: the order is ascending.
SparsestClusters == {c \in Used : \A d \in Used : AtLeastAsDense(d, c)}

DensestClusters == {c \in Used : \A d \in Used : AtLeastAsDense(c, d)}

SmallestClusters ==
    {c \in Used : \A d \in Used : Cardinality(Members(c)) <= Cardinality(Members(d))}

Predicted(r) == IF cluster[r] = anomalous' THEN 1 ELSE 0

CountOf(p, l) == Cardinality({r \in df : Predicted(r) = p /\ IsAnomaly(r) = l})

\* The silhouette of fewer than two clusters is an exception nothing catches.
EvaluatorRaises == /\ pc = "evaluate" /\ Cardinality(Used) < 2 /\ pc' = "exited"
                   /\ UNCHANGED <<inputVars, df, cluster, anomalous, report>>

\* The anomaly cluster, and the evaluation if there is a row with a label.
Evaluate ==
    /\ pc = "evaluate" /\ Cardinality(Used) > 1 /\ pc' = "save"
    /\ anomalous' \in IF Labelled THEN DensestClusters ELSE SmallestClusters
    /\ report' = IF Labelled /\ Labels(df) > 0
                 THEN [tp |-> CountOf(1, 1), fp |-> CountOf(1, 0),
                       tn |-> CountOf(0, 0), fn |-> CountOf(0, 1)]
                 ELSE [tp |-> 0, fp |-> 0, tn |-> 0, fn |-> 0]
    /\ UNCHANGED <<inputVars, df, cluster>>

TrainerInit ==
    /\ source \in {"delta", "csv", "bare csv"}
    /\ blank \in SUBSET Row
    /\ truth \in [Row -> Label \cup {Null}]
    /\ flag \in IF source = "delta" THEN [Row -> Label] ELSE {[r \in Row |-> 0]}
    /\ df = {} /\ cluster = <<>> /\ anomalous = -1
    /\ report = [tp |-> 0, fp |-> 0, tn |-> 0, fn |-> 0] /\ pc = "load"

TrainerNext == Load \/ Train \/ EvaluatorRaises \/ Evaluate

TrainerSpec == TrainerInit /\ [][TrainerNext]_trainerVars

-----------------------------------------------------------------------------
(* Properties.                                                             *)

Total == report.tp + report.fp + report.tn + report.fn

\* The precision reported is at least the share of anomalies in the data, and above 0
\* if there is one: the cluster chosen is not worse than none.  Rounding, null labels
\* and empty clusters do not break it (train_model.py:131-143, 160-182).
BetterThanChance ==
    pc = "save" => /\ report.tp * Total >= (report.tp + report.fn) * (report.tp + report.fp)
                   /\ report.tp + report.fn > 0 => report.tp > 0

\* The matrix counts every loaded row with a label once, and no other.
MatrixComplete ==
    pc = "save" /\ Labelled
        => /\ Total = Labels(df)
           /\ report.tp + report.fn = WithLabel(df, 1)

\* The evaluation counts the right rows and its cluster is worth choosing.
EvaluationSound == BetterThanChance /\ MatrixComplete

=============================================================================
