---------------------------- MODULE Serving_proofs -----------------------------
(***************************************************************************)
(* What the readers of the system see: proofs for any batches, any number  *)
(* of restarts, of imports and of failing calls.                           *)
(*                                                                         *)
(* The table of alerts: a reader sees whole batches, so what the           *)
(* transaction holds while it is filled must be known: what the loop has   *)
(* passed, each anomaly once, unless a statement failed.  The page: the    *)
(* one socket it believes in, and how a timer can be older than a socket.  *)
(* The API: what an answer and the table it is about have in common until  *)
(* the table changes; and that a summary adds up every row of its table,   *)
(* by sums over finite sets that do not depend on the order of the fold.   *)
(***************************************************************************)
EXTENDS AlertTable, AnalyticsApi, DemoClient, FiniteSetTheorems, TLAPS

SessionType == [open : BOOLEAN, todo : Seq(Anomaly), staged : SUBSET (Nat \X Anomaly),
                aborted : BOOLEAN, count : Nat]

TypeInv ==
    /\ batch \in Nat \ {0} /\ batch <= Len(Batches) + 1
    /\ at \in {"publish", "insert", "checkpoint"}
    /\ at # "publish" => batch \in DOMAIN Batches
    /\ topic \in Seq(Anomaly) /\ position \in 0..Len(topic) /\ file \in Seq(Anomaly)
    /\ session \in [Session -> SessionType]
    /\ rows \in [Writer -> [Anomaly -> Nat]]
    /\ said \in Nat /\ stored \in Nat /\ starts \in Nat \ {0} /\ imports \in Nat
    /\ nfaults \in Nat /\ dbFaults \in Nat

\* The loop counts what it has sent, and only a failing call aborts a transaction.
Consistent(s) ==
    /\ IsFiniteSet(s.staged) /\ Cardinality(s.staged) = s.count
    /\ \A r \in s.staged : r[1] <= s.count
    /\ dbFaults = 0 => ~s.aborted

SessionInv == \A w \in Session : Consistent(session[w])

\* The transaction of the job: what the loop has passed of the batch, each anomaly once.
PartOf(s, listed) ==
    /\ IsInjective(s.todo) /\ ToSet(s.todo) \subseteq ToSet(listed)
    /\ \A r1, r2 \in s.staged : r1[2] = r2[2] => r1 = r2
    /\ ~s.aborted => {r[2] : r \in s.staged}
                       = (ToSet(listed) \ ToSet(s.todo)) \ Unsendable

JobInv == session["job"].open => at = "insert" /\ PartOf(session["job"], Batches[batch])

\* The job has committed its rows of batch b, or lost them.
Finished(b) == b < batch \/ (b = batch /\ at = "checkpoint")

\* A finished batch is stored if PostgreSQL answers; one batch is stored at most once
\* if the job does not die.
JobRowsInv ==
    /\ WholeBatches
    /\ dbFaults = 0 =>
          \A b \in DOMAIN Batches : Finished(b) => \A a \in Sendable(b) : rows["job"][a] >= 1
    /\ starts = 1 =>
          \A b \in DOMAIN Batches : \A a \in ToSet(Batches[b]) :
             /\ rows["job"][a] <= 1
             /\ ~Finished(b) => rows["job"][a] = 0

OtherRowsInv ==
    /\ \A a \in Timed : rows["gateway"][a] = 0
    /\ imports = 0 => /\ ~session["import"].open
                      /\ \A a \in Anomaly : rows["import"][a] = 0
    /\ dbFaults = 0 => said = stored

IInv == TypeInv /\ SessionInv /\ JobInv /\ JobRowsInv /\ OtherRowsInv

-----------------------------------------------------------------------------
(* Sequences, and the rows of a transaction.                               *)

LEMMA BatchFacts ==
    ASSUME NEW b \in DOMAIN Batches
    PROVE  /\ Batches[b] \in Seq(Anomaly) /\ ToSet(Batches[b]) \subseteq Anomaly
           /\ IsInjective(Batches[b]) /\ b \in Nat \ {0} /\ b <= Len(Batches)
<1>1. Batches \in Seq(Seq(Anomaly)) /\ IsInjective(Batches[b])
  BY BatchesAssumption
<1>2. Batches[b] \in Seq(Anomaly) /\ b \in Nat \ {0} /\ b <= Len(Batches)
  BY <1>1
<1>3. ToSet(Batches[b]) \subseteq Anomaly
  BY DEF Anomaly
<1>4. QED
  BY <1>1, <1>2, <1>3

LEMMA HeadAndTail ==
    ASSUME NEW S, NEW s \in Seq(S), s # <<>>
    PROVE  /\ Head(s) \in S /\ Tail(s) \in Seq(S)
           /\ ToSet(s) = ToSet(Tail(s)) \cup {Head(s)}
           /\ IsInjective(s) => IsInjective(Tail(s)) /\ Head(s) \notin ToSet(Tail(s))
<1>1. Len(s) >= 1 /\ Head(s) = s[1] /\ Head(s) \in S /\ Tail(s) \in Seq(S)
  OBVIOUS
<1>2. Len(Tail(s)) = Len(s) - 1 /\ \A i \in 1..Len(s) - 1 : Tail(s)[i] = s[i + 1]
  BY <1>1
<1>3. DOMAIN s = 1..Len(s) /\ DOMAIN Tail(s) = 1..Len(s) - 1
  BY <1>1, <1>2
<1> DEFINE t == Tail(s)
<1> DEFINE h == Head(s)
<1>4. h = s[1] /\ DOMAIN t = 1..Len(s) - 1 /\ \A i \in 1..Len(s) - 1 : t[i] = s[i + 1]
  BY <1>1, <1>2, <1>3
<1> HIDE DEF t, h
<1>5. \A i \in DOMAIN s : i = 1 \/ (i - 1 \in DOMAIN t /\ t[i - 1] = s[i])
  BY <1>3, <1>4
<1>6. \A i \in DOMAIN t : i + 1 \in DOMAIN s /\ i + 1 # 1 /\ t[i] = s[i + 1]
  BY <1>3, <1>4
<1>7. 1 \in DOMAIN s
  BY <1>1, <1>3
<1>8. ToSet(s) = ToSet(t) \cup {h}
  BY <1>4, <1>5, <1>6, <1>7 DEF ToSet
<1>9. ASSUME IsInjective(s) PROVE IsInjective(t) /\ h \notin ToSet(t)
  <2>1. \A i, j \in DOMAIN t : t[i] = t[j] => i = j
    BY <1>6, <1>9, <1>4 DEF IsInjective
  <2>2. \A i \in DOMAIN t : t[i] # s[1]
    BY <1>6, <1>7, <1>9 DEF IsInjective
  <2>3. QED
    BY <2>1, <2>2, <1>4 DEF ToSet, IsInjective
<1>10. QED
  BY <1>1, <1>8, <1>9 DEF t, h

\* The rows of one anomaly in a transaction.
RowsOf(s, a) == {r \in s.staged : r[2] = a}

LEMMA RowsOfFinite ==
    ASSUME NEW s, IsFiniteSet(s.staged), NEW a
    PROVE  IsFiniteSet(RowsOf(s, a)) /\ Cardinality(RowsOf(s, a)) \in Nat
<1>1. RowsOf(s, a) \in SUBSET s.staged
  BY DEF RowsOf
<1>2. IsFiniteSet(RowsOf(s, a))
  BY <1>1, FS_Subset
<1>3. QED
  BY <1>2, FS_CardinalityType

\* A finished and sound transaction holds each sendable anomaly of the batch once, and
\* nothing else.
LEMMA FinishedTransaction ==
    ASSUME NEW s \in SessionType, IsFiniteSet(s.staged), s.todo = <<>>, ~s.aborted,
           NEW listed, PartOf(s, listed), NEW a
    PROVE  Cardinality(RowsOf(s, a)) = IF a \in ToSet(listed) \ Unsendable THEN 1 ELSE 0
<1>1. {r[2] : r \in s.staged} = ToSet(listed) \ Unsendable
  BY DEF PartOf, ToSet
<1>2. CASE a \in ToSet(listed) \ Unsendable
  <2>1. PICK r \in s.staged : r[2] = a
    BY <1>1, <1>2
  <2>2. RowsOf(s, a) = {r}
    BY <2>1 DEF RowsOf, PartOf
  <2>3. QED
    BY <2>2, <1>2, FS_Singleton
<1>3. CASE a \notin ToSet(listed) \ Unsendable
  <2>1. RowsOf(s, a) = {}
    BY <1>1, <1>3 DEF RowsOf
  <2>2. QED
    BY <2>1, <1>3, FS_EmptySet
<1>4. QED
  BY <1>2, <1>3

\* What a commit stores.
LEMMA CommittedRows ==
    ASSUME TypeInv, SessionInv, NEW w \in Session, CommitRows(w)
    PROVE  /\ rows' \in [Writer -> [Anomaly -> Nat]]
           /\ \A v \in Writer : v # w => rows'[v] = rows[v]
           /\ session[w].aborted => rows' = rows
           /\ ~session[w].aborted => \A a \in Anomaly :
                 rows'[w][a] = rows[w][a] + Cardinality(RowsOf(session[w], a))
<1>1. rows \in [Writer -> [Anomaly -> Nat]] /\ w \in Writer
  BY DEF TypeInv, Writer
<1>2. \A a \in Anomaly : Cardinality(RowsOf(session[w], a)) \in Nat
  BY RowsOfFinite DEF SessionInv, Consistent
<1>3. CASE session[w].aborted
  BY <1>1, <1>3 DEF CommitRows
<1>4. CASE ~session[w].aborted
  <2> DEFINE new == [a \in Anomaly |-> rows[w][a] + Cardinality(RowsOf(session[w], a))]
  <2>1. rows' = [rows EXCEPT ![w] = new]
    BY <1>4 DEF CommitRows, RowsOf
  <2>2. rows[w] \in [Anomaly -> Nat]
    BY <1>1
  <2>3. new \in [Anomaly -> Nat]
    BY <2>2, <1>2
  <2> HIDE DEF new
  <2>4. /\ rows' \in [Writer -> [Anomaly -> Nat]] /\ rows'[w] = new
        /\ \A v \in Writer : v # w => rows'[v] = rows[v]
    BY <2>1, <2>3, <1>1
  <2>5. QED
    BY <2>4, <1>4 DEF new
<1>5. QED
  BY <1>3, <1>4

-----------------------------------------------------------------------------
(* Types.                                                                  *)

LEMMA EmptySession == NoSession \in SessionType
BY DEF NoSession, SessionType

LEMMA NewSession ==
    ASSUME NEW todo \in Seq(Anomaly)
    PROVE  LET s == Begin(todo)
           IN /\ s \in SessionType /\ s.open /\ s.todo = todo
              /\ s.staged = {} /\ ~s.aborted /\ s.count = 0
<1>1. NoSession \in SessionType
  BY EmptySession
<1>2. [NoSession EXCEPT !.open = TRUE, !.todo = todo] \in SessionType
  BY <1>1 DEF SessionType
<1>3. QED
  BY <1>2 DEF Begin, NoSession

\* execute() takes one row off the list, and either leaves the transaction as it is, or
\* adds the row to it, or aborts it.
LEMMA ExecuteSteps ==
    ASSUME TypeInv, NEW w \in Session, Execute(w)
    PROVE  LET s == session[w]
               t == session'[w]
           IN /\ s.open /\ s.todo \in Seq(Anomaly) /\ s.todo # <<>>
              /\ t \in SessionType /\ session' = [session EXCEPT ![w] = t]
              /\ t.open /\ t.todo = Tail(s.todo)
              /\ \/ /\ t.staged = s.staged /\ t.count = s.count /\ t.aborted = s.aborted
                    /\ Head(s.todo) \in Unsendable \/ s.aborted
                    /\ dbFaults' = dbFaults
                 \/ /\ t.staged = s.staged \cup {<<s.count + 1, Head(s.todo)>>}
                    /\ t.count = s.count + 1 /\ ~t.aborted /\ ~s.aborted
                    /\ Head(s.todo) \notin Unsendable
                    /\ dbFaults' = dbFaults
                 \/ /\ t.staged = s.staged /\ t.count = s.count /\ t.aborted
                    /\ dbFaults' = dbFaults + 1
              /\ rows' = rows
<1> DEFINE s == session[w]
<1>1. s \in SessionType /\ s.open /\ s.todo # <<>> /\ session \in [Session -> SessionType]
  BY DEF TypeInv, Execute
<1>2. s.todo \in Seq(Anomaly) /\ s.staged \in SUBSET (Nat \X Anomaly) /\ s.count \in Nat
  BY <1>1 DEF SessionType
<1>3. Head(s.todo) \in Anomaly /\ Tail(s.todo) \in Seq(Anomaly)
  BY <1>1, <1>2, HeadAndTail
<1>4. rows' = rows
  BY DEF Execute, Stage
<1> DEFINE a == Head(s.todo)
<1> DEFINE rest == Tail(s.todo)
<1>5. CASE /\ a \in Unsendable \/ s.aborted
           /\ session' = [session EXCEPT ![w].todo = rest]
           /\ dbFaults' = dbFaults
  <2>1. [s EXCEPT !.todo = rest] \in SessionType
    BY <1>1, <1>3 DEF SessionType
  <2>2. session'[w] = [s EXCEPT !.todo = rest] /\ session' = [session EXCEPT ![w] = session'[w]]
    BY <1>1, <1>5
  <2>3. QED
    BY <1>1, <1>2, <1>4, <1>5, <2>1, <2>2 DEF SessionType
<1>6. CASE /\ a \notin Unsendable /\ ~s.aborted /\ dbFaults' = dbFaults
           /\ session' = [session EXCEPT ![w] =
                [s EXCEPT !.todo = rest, !.count = s.count + 1,
                          !.staged = @ \cup {<<s.count + 1, a>>}]]
  <2> DEFINE t == [s EXCEPT !.todo = rest, !.count = s.count + 1,
                            !.staged = @ \cup {<<s.count + 1, a>>}]
  <2> DEFINE more == s.staged \cup {<<s.count + 1, a>>}
  <2>1. more \in SUBSET (Nat \X Anomaly) /\ s.count + 1 \in Nat
    BY <1>2, <1>3
  <2> HIDE DEF more
  <2>2. /\ t \in SessionType /\ t.open /\ t.todo = rest /\ t.count = s.count + 1
        /\ t.staged = more /\ t.aborted = s.aborted
    BY <1>1, <1>3, <2>1 DEF SessionType, more
  <2> HIDE DEF t
  <2>3. session'[w] = t /\ session' = [session EXCEPT ![w] = t]
    BY <1>1, <1>6 DEF t
  <2>4. QED
    BY <1>1, <1>2, <1>4, <1>6, <2>2, <2>3 DEF more
<1>7. CASE /\ dbFaults' = dbFaults + 1
           /\ session' = [session EXCEPT ![w] = [s EXCEPT !.todo = rest, !.aborted = TRUE]]
  <2> DEFINE t == [s EXCEPT !.todo = rest, !.aborted = TRUE]
  <2>1. /\ t \in SessionType /\ t.open /\ t.todo = rest /\ t.count = s.count
        /\ t.staged = s.staged /\ t.aborted
    BY <1>1, <1>2, <1>3 DEF SessionType
  <2> HIDE DEF t
  <2>2. session'[w] = t /\ session' = [session EXCEPT ![w] = t]
    BY <1>1, <1>7 DEF t
  <2>3. QED
    BY <1>1, <1>2, <1>4, <1>7, <2>1, <2>2
<1>8. <1>5!1 \/ <1>6!1 \/ <1>7!1
  <2>1. CASE a \in Unsendable /\ session' = [session EXCEPT ![w] = Refuse(s)]
                             /\ dbFaults' = dbFaults
    BY <2>1, <1>1 DEF Refuse, SessionType
  <2>2. CASE s.aborted /\ session' = [session EXCEPT ![w].todo = Tail(s.todo)]
                       /\ dbFaults' = dbFaults
    BY <2>2
  <2>3. QED
    BY <2>1, <2>2 DEF Execute, DbFault
<1>9. QED
  BY <1>5, <1>6, <1>7, <1>8

\* The types of what most actions leave alone.
LEMMA TopicGrows ==
    ASSUME TypeInv, Publish
    PROVE  topic' \in Seq(Anomaly) /\ Len(topic') >= Len(topic)
<1>1. batch \in DOMAIN Batches
  <2>1. batch \in Nat \ {0} /\ batch <= Len(Batches) /\ Batches \in Seq(Seq(Anomaly))
    BY BatchesAssumption DEF TypeInv, Publish
  <2>2. QED
    BY <2>1
<1>2. PICK more \in Seq(Anomaly) : topic' = topic \o more
  <2> DEFINE listed == Batches[batch]
  <2>1. listed \in Seq(Anomaly)
    BY <1>1, BatchFacts
  <2> HIDE DEF listed
  <2>2. \A n \in 0..Len(listed) - 1 : SubSeq(listed, 1, n) \in Seq(Anomaly)
    BY <2>1
  <2>3. QED
    BY <2>1, <2>2 DEF Publish, listed
<1>3. topic \in Seq(Anomaly)
  BY DEF TypeInv
<1>4. QED
  BY <1>2, <1>3

LEMMA TypesKept ==
    ASSUME TypeInv, SessionInv, JobInv, [Next]_vars
    PROVE  TypeInv'
<1>1. \A w \in Session : session[w] \in SessionType
  BY DEF TypeInv
<1>2. "job" \in Session /\ "import" \in Session
  BY DEF Session
<1>3. CASE Publish
  <2>1. topic' \in Seq(Anomaly) /\ Len(topic') >= Len(topic) /\ Len(topic') \in Nat
    BY <1>3, TopicGrows
  <2>2. position' \in 0..Len(topic')
    BY <1>3, <2>1 DEF TypeInv, Publish
  <2>3. nfaults' \in Nat
    BY <1>3 DEF TypeInv, Publish
  <2>4. at' = "insert" /\ batch' = batch /\ batch \in DOMAIN Batches
    <3>1. batch \in Nat \ {0} /\ batch <= Len(Batches) /\ Batches \in Seq(Seq(Anomaly))
      BY <1>3, BatchesAssumption DEF TypeInv, Publish
    <3>2. QED
      BY <3>1, <1>3 DEF Publish
  <2>5. QED
    BY <1>3, <2>1, <2>2, <2>3, <2>4 DEF TypeInv, Publish, importVars
<1>4. CASE JobConnect
  <2>1. batch \in DOMAIN Batches
    BY <1>4 DEF TypeInv, JobConnect
  <2>2. Begin(Batches[batch]) \in SessionType
    BY <2>1, BatchFacts, NewSession
  <2>3. session' \in [Session -> SessionType]
    BY <1>2, <1>4, <2>2 DEF TypeInv, JobConnect
  <2>4. dbFaults' \in Nat
    BY <1>4 DEF TypeInv, JobConnect, DbFault
  <2>5. QED
    BY <1>4, <2>1, <2>3, <2>4 DEF TypeInv, JobConnect, importVars
<1>5. CASE JobCommit
  <2>1. session' \in [Session -> SessionType]
    BY <1>2, <1>5, EmptySession DEF TypeInv, JobCommit
  <2>2. rows' \in [Writer -> [Anomaly -> Nat]]
    BY <1>2, <1>5, CommittedRows DEF TypeInv, JobCommit
  <2>3. dbFaults' \in Nat
    BY <1>5 DEF TypeInv, JobCommit, DbFault
  <2>4. at' = "checkpoint" /\ batch' = batch /\ batch \in DOMAIN Batches
    BY <1>5 DEF JobCommit, JobInv, TypeInv
  <2>5. QED
    BY <1>5, <2>1, <2>2, <2>3, <2>4 DEF TypeInv, JobCommit, importVars
<1>6. CASE Checkpoint
  <2>1. batch \in DOMAIN Batches
    BY <1>6 DEF TypeInv, Checkpoint
  <2>2. batch \in Nat \ {0} /\ batch <= Len(Batches)
    BY <2>1, BatchFacts
  <2>3. Len(Batches) \in Nat
    BY BatchesAssumption
  <2>4. batch' \in Nat \ {0} /\ batch' <= Len(Batches) + 1
    BY <1>6, <2>2, <2>3 DEF Checkpoint
  <2>5. QED
    BY <1>6, <2>4 DEF TypeInv, Checkpoint, importVars
<1>7. CASE Restart
  <2>1. session' \in [Session -> SessionType]
    BY <1>2, <1>7, EmptySession DEF TypeInv, Restart
  <2>2. QED
    BY <1>7, <2>1 DEF TypeInv, Restart, importVars
<1>8. CASE Consume
  <2>1. position' \in 0..Len(topic')
    BY <1>8 DEF TypeInv, Consume
  <2>2. topic[position + 1] \in Anomaly
    BY <1>8 DEF TypeInv, Consume
  <2>3. rows' \in [Writer -> [Anomaly -> Nat]]
    <3>1. "gateway" \in Writer /\ rows \in [Writer -> [Anomaly -> Nat]]
      BY DEF Writer, TypeInv
    <3>2. rows' = rows \/ rows' = [rows EXCEPT !["gateway"][topic[position + 1]] = @ + 1]
      BY <1>8 DEF Consume
    <3>3. QED
      BY <2>2, <3>1, <3>2
  <2>4. dbFaults' \in Nat
    BY <1>8 DEF TypeInv, Consume, DbFault
  <2>5. QED
    BY <1>8, <2>1, <2>3, <2>4 DEF TypeInv, Consume, jobVars, importVars
<1>9. CASE Import
  <2>1. file' \in Seq(Anomaly)
    BY <1>9 DEF TypeInv, Import
  <2>2. session' \in [Session -> SessionType]
    BY <1>2, <1>9, <2>1, NewSession DEF TypeInv, Import
  <2>3. QED
    BY <1>9, <2>1, <2>2 DEF TypeInv, Import, jobVars
<1>10. CASE ImportCommit
  <2>1. session' \in [Session -> SessionType]
    BY <1>2, <1>10, EmptySession DEF TypeInv, ImportCommit
  <2>2. rows' \in [Writer -> [Anomaly -> Nat]]
    BY <1>2, <1>10, CommittedRows DEF TypeInv, ImportCommit
  <2>3. said' \in Nat
    BY <1>1, <1>2, <1>10 DEF TypeInv, ImportCommit, Printed, SessionType
  <2>4. stored' \in Nat
    BY <1>2, <1>10, FS_CardinalityType DEF TypeInv, SessionInv, Consistent, ImportCommit
  <2>5. dbFaults' \in Nat
    BY <1>10 DEF TypeInv, ImportCommit, DbFault
  <2>6. QED
    BY <1>10, <2>1, <2>2, <2>3, <2>4, <2>5 DEF TypeInv, ImportCommit, jobVars
<1>11. CASE \E w \in Session : Execute(w)
  <2>1. PICK w \in Session : Execute(w)
    BY <1>11
  <2>2. session' \in [Session -> SessionType] /\ rows' = rows
    BY <2>1, ExecuteSteps DEF TypeInv
  <2>3. dbFaults' \in Nat
    BY <2>1 DEF TypeInv, Execute, DbFault
  <2>4. QED
    BY <2>1, <2>2, <2>3 DEF TypeInv, Execute, jobVars, importVars
<1>12. CASE UNCHANGED vars
  BY <1>12 DEF TypeInv, vars, jobVars, importVars
<1>13. QED
  BY <1>3, <1>4, <1>5, <1>6, <1>7, <1>8, <1>9, <1>10, <1>11, <1>12 DEF Next

-----------------------------------------------------------------------------
(* The transactions.                                                       *)

LEMMA ConsistentKept ==
    ASSUME TypeInv, SessionInv, [Next]_vars
    PROVE  SessionInv'
<1>1. session \in [Session -> SessionType] /\ dbFaults \in Nat
  BY DEF TypeInv
<1>2. dbFaults' = dbFaults \/ dbFaults' = dbFaults + 1
  BY DEF Next, Publish, JobConnect, JobCommit, Checkpoint, Restart, Consume, Import,
         ImportCommit, Execute, DbFault, vars
<1>3. dbFaults' = 0 => dbFaults = 0
  BY <1>1, <1>2
<1>4. ASSUME NEW w \in Session, session'[w] = session[w]
      PROVE  Consistent(session[w])'
  BY <1>3, <1>4 DEF SessionInv, Consistent
<1>5. ASSUME NEW w \in Session, session'[w].staged = {}, session'[w].count = 0,
             ~session'[w].aborted
      PROVE  Consistent(session[w])'
  BY <1>5, FS_EmptySet DEF Consistent
<1>6. ASSUME NEW w \in Session, session'[w] = NoSession
      PROVE  Consistent(session[w])'
  BY <1>5, <1>6 DEF NoSession
<1>7. CASE JobConnect
  <2>1. batch \in DOMAIN Batches
    BY <1>7 DEF TypeInv, JobConnect
  <2>2. Batches[batch] \in Seq(Anomaly)
    BY <2>1, BatchFacts
  <2>3. \A w \in Session : session'[w] = session[w] \/ session'[w] = Begin(Batches[batch])
    BY <1>1, <1>7 DEF JobConnect
  <2>4. QED
    BY <1>4, <1>5, <2>2, <2>3, NewSession DEF SessionInv
<1>8. CASE Import
  <2>1. file' \in Seq(Anomaly)
    BY <1>8 DEF TypeInv, Import
  <2>2. \A w \in Session : session'[w] = session[w] \/ session'[w] = Begin(file')
    BY <1>1, <1>8 DEF Import
  <2>3. QED
    BY <1>4, <1>5, <2>1, <2>2, NewSession DEF SessionInv
<1>9. CASE JobCommit \/ ImportCommit \/ Restart
  <2>1. \A w \in Session : session'[w] = session[w] \/ session'[w] = NoSession
    BY <1>1, <1>9 DEF JobCommit, ImportCommit, Restart
  <2>2. QED
    BY <1>4, <1>6, <2>1 DEF SessionInv
<1>10. CASE \E w \in Session : Execute(w)
  <2>1. PICK w \in Session : Execute(w)
    BY <1>10
  <2>2. PICK s : s = session[w]
    OBVIOUS
  <2>3. PICK t : t = session'[w]
    OBVIOUS
  <2>4. session' = [session EXCEPT ![w] = t] /\ s.todo \in Seq(Anomaly) /\ s.todo # <<>>
    BY <2>1, <2>2, <2>3, ExecuteSteps
  <2>5. /\ s.aborted \in BOOLEAN /\ t.aborted \in BOOLEAN /\ t.count \in Nat
        /\ s.staged \in SUBSET (Nat \X Anomaly) /\ t.staged \in SUBSET (Nat \X Anomaly)
    BY <1>1, <2>1, <2>2, <2>3, ExecuteSteps DEF SessionType
  <2>6. IsFiniteSet(s.staged) /\ Cardinality(s.staged) = s.count /\ s.count \in Nat
    BY <1>1, <2>2 DEF SessionInv, Consistent, SessionType
  <2>7. (\A r \in s.staged : r[1] <= s.count) /\ (dbFaults = 0 => s.aborted = FALSE)
    BY <1>1, <2>2 DEF SessionInv, Consistent, SessionType
  <2>8. ASSUME t.staged = s.staged, t.count = s.count,
               t.aborted = s.aborted \/ dbFaults' = dbFaults + 1
        PROVE  Consistent(session[w])'
    <3>1. dbFaults' = 0 => t.aborted = FALSE
      BY <1>1, <1>3, <2>7, <2>8
    <3>2. QED
      BY <2>3, <2>5, <2>6, <2>7, <2>8, <3>1 DEF Consistent
  <2>9. ASSUME t.staged = s.staged \cup {<<s.count + 1, Head(s.todo)>>},
               t.count = s.count + 1, ~t.aborted
        PROVE  Consistent(session[w])'
    <3> DEFINE row == <<s.count + 1, Head(s.todo)>>
    <3>1. row \notin s.staged
      <4>1. row[1] = s.count + 1
        OBVIOUS
      <4> HIDE DEF row
      <4>2. QED
        BY <2>6, <2>7, <4>1
    <3>2. IsFiniteSet(t.staged) /\ Cardinality(t.staged) = t.count
      <4> HIDE DEF row
      <4>1. /\ IsFiniteSet(s.staged \cup {row})
            /\ Cardinality(s.staged \cup {row}) = s.count + 1
        BY <2>6, <3>1, FS_AddElement
      <4>2. QED
        BY <2>9, <4>1 DEF row
    <3>3. \A r \in t.staged : r[1] <= t.count
      BY <2>5, <2>6, <2>7, <2>9
    <3>4. QED
      BY <2>3, <2>5, <2>9, <3>2, <3>3 DEF Consistent
  <2>10. Consistent(session[w])'
    BY <2>1, <2>2, <2>3, <2>5, <2>8, <2>9, ExecuteSteps
  <2>11. \A v \in Session : v # w => session'[v] = session[v]
    BY <2>4, <1>1
  <2>12. QED
    BY <2>10, <2>11, <1>4 DEF SessionInv
<1>11. CASE Publish \/ Checkpoint \/ Consume \/ UNCHANGED vars
  <2>1. session' = session
    BY <1>11 DEF Publish, Checkpoint, Consume, vars
  <2>2. QED
    BY <2>1, <1>4 DEF SessionInv
<1>12. QED
  BY <1>7, <1>8, <1>9, <1>10, <1>11 DEF Next

LEMMA JobSessionKept ==
    ASSUME TypeInv, SessionInv, JobInv, [Next]_vars
    PROVE  JobInv'
<1>1. session \in [Session -> SessionType] /\ "job" \in Session /\ "import" \in Session
  BY DEF TypeInv, Session
<1>2. CASE JobConnect
  <2>1. batch \in DOMAIN Batches /\ batch' = batch /\ at = "insert" /\ ~session["job"].open
    BY <1>2 DEF TypeInv, JobConnect
  <2>2. Batches[batch] \in Seq(Anomaly) /\ IsInjective(Batches[batch])
    BY <2>1, BatchFacts
  <2>3. CASE session' = [session EXCEPT !["job"] = Begin(Batches[batch])] /\ at' = at
    <3> DEFINE s == session'["job"]
    <3>1. s.todo = Batches[batch] /\ s.staged = {}
      BY <1>1, <2>2, <2>3, NewSession
    <3>2. PartOf(s, Batches[batch])
      BY <2>2, <3>1 DEF PartOf
    <3>3. QED
      BY <2>1, <2>3, <3>2 DEF JobInv
  <2>4. CASE session' = session
    BY <2>1, <2>4 DEF JobInv
  <2>5. QED
    BY <1>2, <2>3, <2>4 DEF JobConnect
<1>3. CASE JobCommit \/ Restart
  <2>1. session'["job"] = NoSession
    BY <1>1, <1>3 DEF JobCommit, Restart
  <2>2. QED
    BY <2>1 DEF JobInv, NoSession
<1>4. ASSUME session'["job"] = session["job"], at' = at, batch' = batch
      PROVE  JobInv'
  BY <1>4 DEF JobInv, PartOf
<1>5. CASE Import \/ ImportCommit
  BY <1>1, <1>4, <1>5 DEF Import, ImportCommit, jobVars
<1>6. CASE Consume \/ UNCHANGED vars
  BY <1>4, <1>6 DEF Consume, vars, jobVars
<1>7. CASE Publish \/ Checkpoint
  BY <1>7 DEF Publish, Checkpoint, JobInv
<1>8. CASE \E w \in Session : Execute(w)
  <2>1. PICK w \in Session : Execute(w)
    BY <1>8
  <2>2. at' = at /\ batch' = batch
    BY <2>1 DEF Execute, jobVars
  <2>3. CASE w # "job"
    BY <1>1, <1>4, <2>1, <2>2, <2>3, ExecuteSteps
  <2>4. CASE w = "job"
    <3>1. PICK s : s = session["job"]
      OBVIOUS
    <3>2. PICK t : t = session'["job"]
      OBVIOUS
    <3>3. PICK listed : listed = Batches[batch]
      OBVIOUS
    <3>4. s.aborted \in BOOLEAN /\ t.aborted \in BOOLEAN
      BY <1>1, <2>1, <2>4, <3>1, <3>2, ExecuteSteps DEF SessionType
    <3>5. s.open /\ s.todo \in Seq(Anomaly) /\ s.todo # <<>> /\ t.todo = Tail(s.todo)
      BY <2>1, <2>4, <3>1, <3>2, ExecuteSteps
    <3>6. at = "insert" /\ PartOf(s, listed)
      BY <3>1, <3>3, <3>5 DEF JobInv
    <3>7. /\ ToSet(s.todo) = ToSet(t.todo) \cup {Head(s.todo)}
          /\ IsInjective(t.todo) /\ Head(s.todo) \notin ToSet(t.todo)
      BY <3>5, <3>6, HeadAndTail DEF PartOf
    <3>8. /\ IsInjective(t.todo) /\ ToSet(t.todo) \subseteq ToSet(listed)
      BY <3>6, <3>7 DEF PartOf
    <3>9. Head(s.todo) \in ToSet(listed)
      BY <3>6, <3>7 DEF PartOf
    <3>10. ASSUME t.staged = s.staged,
                 \/ t.aborted
                 \/ t.aborted = s.aborted /\ (Head(s.todo) \in Unsendable \/ s.aborted)
          PROVE  PartOf(t, listed)
      BY <3>4, <3>6, <3>7, <3>8, <3>10 DEF PartOf
    <3>11. ASSUME t.staged = s.staged \cup {<<s.count + 1, Head(s.todo)>>},
                 ~s.aborted, Head(s.todo) \notin Unsendable
          PROVE  PartOf(t, listed)
      <4> DEFINE a == Head(s.todo)
      <4> DEFINE row == <<s.count + 1, a>>
      <4>1. row[2] = a
        OBVIOUS
      <4>2. {r[2] : r \in s.staged} = (ToSet(listed) \ ToSet(s.todo)) \ Unsendable
        BY <3>6, <3>11 DEF PartOf
      <4>3. \A r \in s.staged : r[2] # a
        BY <3>7, <4>2
      <4> HIDE DEF row, a
      <4>4. t.staged = s.staged \cup {row} /\ a \notin Unsendable /\ a \in ToSet(listed)
        BY <3>9, <3>11 DEF row, a
      <4>5. ToSet(s.todo) = ToSet(t.todo) \cup {a} /\ a \notin ToSet(t.todo)
        BY <3>7 DEF a
      <4>6. \A r1, r2 \in t.staged : r1[2] = r2[2] => r1 = r2
        BY <3>6, <4>1, <4>3, <4>4 DEF PartOf
      <4>7. {r[2] : r \in t.staged} = {r[2] : r \in s.staged} \cup {a}
        BY <4>1, <4>4
      <4>8. {r[2] : r \in t.staged} = (ToSet(listed) \ ToSet(t.todo)) \ Unsendable
        BY <4>2, <4>4, <4>5, <4>7
      <4>9. QED
        BY <3>4, <3>8, <4>6, <4>8 DEF PartOf
    <3>12. PartOf(t, listed)
      BY <2>1, <2>4, <3>1, <3>2, <3>4, <3>10, <3>11, ExecuteSteps
    <3>13. QED
      BY <2>2, <3>2, <3>3, <3>6, <3>12 DEF JobInv
  <2>5. QED
    BY <2>3, <2>4
<1>9. QED
  BY <1>2, <1>3, <1>5, <1>6, <1>7, <1>8 DEF Next

-----------------------------------------------------------------------------
(* The rows.                                                               *)

LEMMA AlertsOfBatches ==
    ASSUME NEW b \in DOMAIN Batches, NEW a \in ToSet(Batches[b])
    PROVE  /\ a \in Anomaly
           /\ \A c \in DOMAIN Batches : a \in ToSet(Batches[c]) => c = b
BY BatchFacts, BatchesAssumption

\* Steps that store nothing for the job, and finish a batch only where that shows.
QuietForJob ==
    /\ rows'["job"] = rows["job"]
    /\ dbFaults' = 0 => /\ dbFaults = 0
                        /\ \A b \in DOMAIN Batches : Finished(b)' => Finished(b)
    /\ starts' = 1 => /\ starts = 1
                      /\ \A b \in DOMAIN Batches : Finished(b) => Finished(b)'

LEMMA QuietKeepsJobRows ==
    ASSUME JobRowsInv, QuietForJob
    PROVE  JobRowsInv'
<1>1. WholeBatches'
  BY DEF JobRowsInv, QuietForJob, WholeBatches
<1>2. (dbFaults = 0 => \A b \in DOMAIN Batches :
         Finished(b) => \A a \in Sendable(b) : rows["job"][a] >= 1)'
  BY DEF JobRowsInv, QuietForJob
<1>3. (starts = 1 => \A b \in DOMAIN Batches : \A a \in ToSet(Batches[b]) :
         /\ rows["job"][a] <= 1
         /\ ~Finished(b) => rows["job"][a] = 0)'
  BY DEF JobRowsInv, QuietForJob
<1>4. QED
  BY <1>1, <1>2, <1>3 DEF JobRowsInv

LEMMA CommitKeepsJobRows ==
    ASSUME TypeInv, SessionInv, JobInv, JobRowsInv, JobCommit, CommitRows("job"),
           ~session["job"].aborted, UNCHANGED <<batch, starts, dbFaults>>
    PROVE  JobRowsInv'
<1> DEFINE s == session["job"]
<1>1. "job" \in Session /\ "job" \in Writer
  BY DEF Session, Writer
<1>2. /\ s \in SessionType /\ s.open /\ s.todo = <<>> /\ ~s.aborted
      /\ at = "insert" /\ at' = "checkpoint" /\ PartOf(s, Batches[batch])
      /\ batch \in DOMAIN Batches /\ IsFiniteSet(s.staged)
  BY <1>1 DEF TypeInv, SessionInv, JobInv, JobCommit, Consistent
<1>3. \A a \in Anomaly : rows'["job"][a] = rows["job"][a] + Cardinality(RowsOf(s, a))
  BY <1>1, CommittedRows
<1>4. \A a \in Anomaly : Cardinality(RowsOf(s, a))
                          = IF a \in ToSet(Batches[batch]) \ Unsendable THEN 1 ELSE 0
  BY <1>2, FinishedTransaction
<1>5. \A a \in Anomaly : rows["job"][a] \in Nat
  BY <1>1 DEF TypeInv
<1>6. ASSUME NEW b \in DOMAIN Batches, b # batch, NEW a \in ToSet(Batches[b])
      PROVE  rows'["job"][a] = rows["job"][a] /\ rows["job"][a] \in Nat
  <2>1. a \in Anomaly /\ a \notin ToSet(Batches[batch])
    BY <1>2, <1>6, AlertsOfBatches
  <2>2. QED
    BY <2>1, <1>3, <1>4, <1>5
<1>7. ASSUME NEW a \in ToSet(Batches[batch])
      PROVE  /\ rows["job"][a] \in Nat
             /\ a \notin Unsendable => rows'["job"][a] = rows["job"][a] + 1
             /\ a \in Unsendable => rows'["job"][a] = rows["job"][a]
  <2>1. a \in Anomaly
    BY <1>2, AlertsOfBatches
  <2>2. QED
    BY <2>1, <1>3, <1>4, <1>5
<1>8. WholeBatches'
  <2>1. ASSUME NEW b \in DOMAIN Batches, NEW a1 \in Sendable(b), NEW a2 \in Sendable(b)
        PROVE  rows'["job"][a1] = rows'["job"][a2]
    <3>1. rows["job"][a1] = rows["job"][a2]
      BY <2>1 DEF JobRowsInv, WholeBatches
    <3>2. QED
      BY <2>1, <3>1, <1>6, <1>7 DEF Sendable
  <2>2. QED
    BY <2>1 DEF WholeBatches
<1>9. ASSUME dbFaults = 0, NEW b \in DOMAIN Batches, Finished(b)', NEW a \in Sendable(b)
      PROVE  rows'["job"][a] >= 1
  <2>1. CASE b = batch
    BY <2>1, <1>7, <1>9 DEF Sendable
  <2>2. CASE b # batch
    <3>1. Finished(b)
      BY <2>2, <1>9 DEF Finished
    <3>2. rows["job"][a] >= 1
      BY <3>1, <1>9 DEF JobRowsInv
    <3>3. QED
      BY <2>2, <3>2, <1>6, <1>9 DEF Sendable
  <2>3. QED
    BY <2>1, <2>2
<1>10. ASSUME starts = 1, NEW b \in DOMAIN Batches, NEW a \in ToSet(Batches[b])
       PROVE  rows'["job"][a] <= 1 /\ (~Finished(b)' => rows'["job"][a] = 0)
  <2>1. rows["job"][a] <= 1 /\ (~Finished(b) => rows["job"][a] = 0)
    BY <1>10 DEF JobRowsInv
  <2>2. CASE b = batch
    <3>1. batch \in Nat
      BY DEF TypeInv
    <3>2. ~Finished(b) /\ Finished(b)'
      BY <2>2, <3>1, <1>2 DEF Finished
    <3>3. QED
      BY <2>1, <2>2, <3>2, <1>7
  <2>3. CASE b # batch
    <3>1. Finished(b) <=> Finished(b)'
      BY <2>3 DEF Finished
    <3>2. QED
      BY <2>1, <2>3, <3>1, <1>6
  <2>4. QED
    BY <2>2, <2>3
<1>11. QED
  BY <1>8, <1>9, <1>10 DEF JobRowsInv

LEMMA JobRowsKept ==
    ASSUME TypeInv, SessionInv, JobInv, JobRowsInv, [Next]_vars
    PROVE  JobRowsInv'
<1>1. /\ rows \in [Writer -> [Anomaly -> Nat]] /\ "job" \in Writer /\ "import" \in Writer
      /\ "job" \in Session /\ "import" \in Session
      /\ batch \in Nat /\ starts \in Nat \ {0} /\ dbFaults \in Nat
  BY DEF TypeInv, Writer, Session
<1>2. dbFaults' = dbFaults \/ dbFaults' = dbFaults + 1
  BY DEF Next, Publish, JobConnect, JobCommit, Checkpoint, Restart, Consume, Import,
         ImportCommit, Execute, DbFault, vars
<1>3. dbFaults' = 0 => dbFaults = 0
  BY <1>1, <1>2
<1>4. ASSUME rows'["job"] = rows["job"], batch' = batch, starts' = starts,
             at' = at \/ (at # "checkpoint" /\ at' # "checkpoint")
      PROVE  JobRowsInv'
  <2>1. \A b \in DOMAIN Batches : Finished(b)' <=> Finished(b)
    BY <1>4 DEF Finished
  <2>2. QED
    BY <2>1, <1>3, <1>4, QuietKeepsJobRows DEF QuietForJob
<1>5. ASSUME rows'["job"] = rows["job"], batch' = batch, starts' = starts,
             at' = "checkpoint", dbFaults' # 0
      PROVE  JobRowsInv'
  <2>1. \A b \in DOMAIN Batches : Finished(b) => Finished(b)'
    BY <1>5 DEF Finished
  <2>2. QED
    BY <2>1, <1>5, QuietKeepsJobRows DEF QuietForJob
<1>6. CASE Publish
  BY <1>4, <1>6 DEF Publish
<1>7. CASE JobConnect
  <2>1. CASE at' = at
    BY <2>1, <1>4, <1>7 DEF JobConnect
  <2>2. CASE DbFault /\ at' = "checkpoint"
    <3>1. dbFaults' # 0
      BY <2>2, <1>1 DEF DbFault
    <3>2. QED
      BY <2>2, <3>1, <1>5, <1>7 DEF JobConnect
  <2>3. QED
    BY <2>1, <2>2, <1>7 DEF JobConnect
<1>8. CASE JobCommit
  <2>1. batch' = batch /\ starts' = starts /\ at' = "checkpoint"
    BY <1>8 DEF JobCommit
  <2>2. CASE DbFault /\ UNCHANGED rows
    <3>1. dbFaults' # 0
      BY <2>2, <1>1 DEF DbFault
    <3>2. QED
      BY <2>1, <2>2, <3>1, <1>5
  <2>3. CASE CommitRows("job") /\ dbFaults' = dbFaults /\ session["job"].aborted
    <3>1. dbFaults' # 0
      BY <2>3, <1>1 DEF SessionInv, Consistent
    <3>2. rows' = rows
      BY <2>3, <1>1, CommittedRows
    <3>3. QED
      BY <2>1, <3>1, <3>2, <1>5
  <2>4. CASE CommitRows("job") /\ dbFaults' = dbFaults /\ ~session["job"].aborted
    BY <2>1, <2>4, <1>8, CommitKeepsJobRows
  <2>5. QED
    BY <2>2, <2>3, <2>4, <1>8 DEF JobCommit
<1>9. CASE Checkpoint
  <2>1. \A b \in DOMAIN Batches : b \in Nat
    BY BatchFacts
  <2>2. \A b \in DOMAIN Batches : Finished(b)' <=> Finished(b)
    <3>1. \A b \in DOMAIN Batches : b < batch + 1 <=> b < batch \/ b = batch
      BY <2>1, <1>1
    <3>2. batch' = batch + 1 /\ at = "checkpoint" /\ at' # "checkpoint"
      BY <1>9 DEF Checkpoint
    <3>3. QED
      BY <3>1, <3>2 DEF Finished
  <2>3. QED
    BY <2>2, <1>3, <1>9, QuietKeepsJobRows DEF QuietForJob, Checkpoint
<1>10. CASE Restart
  <2>1. \A b \in DOMAIN Batches : Finished(b)' => Finished(b)
    BY <1>10 DEF Restart, Finished
  <2>2. starts' # 1
    BY <1>1, <1>10 DEF Restart
  <2>3. QED
    BY <2>1, <2>2, <1>3, <1>10, QuietKeepsJobRows DEF QuietForJob, Restart
<1>11. CASE Consume
  <2>1. rows'["job"] = rows["job"]
    BY <1>1, <1>11 DEF Consume
  <2>2. QED
    BY <2>1, <1>4, <1>11 DEF Consume, jobVars
<1>12. CASE Import
  BY <1>4, <1>12 DEF Import, jobVars
<1>13. CASE ImportCommit
  <2>1. rows'["job"] = rows["job"]
    BY <1>1, <1>13, CommittedRows DEF ImportCommit
  <2>2. QED
    BY <2>1, <1>4, <1>13 DEF ImportCommit, jobVars
<1>14. CASE \E w \in Session : Execute(w)
  <2>1. rows' = rows
    BY <1>14, ExecuteSteps
  <2>2. QED
    BY <2>1, <1>4, <1>14 DEF Execute, jobVars
<1>15. CASE UNCHANGED vars
  BY <1>4, <1>15 DEF vars, jobVars
<1>16. QED
  BY <1>6, <1>7, <1>8, <1>9, <1>10, <1>11, <1>12, <1>13, <1>14, <1>15 DEF Next

LEMMA OtherRowsKept ==
    ASSUME TypeInv, SessionInv, OtherRowsInv, [Next]_vars
    PROVE  OtherRowsInv'
<1>1. /\ rows \in [Writer -> [Anomaly -> Nat]] /\ session \in [Session -> SessionType]
      /\ Writer = {"job", "import", "gateway"} /\ Session = {"job", "import"}
      /\ imports \in Nat /\ dbFaults \in Nat
  BY DEF TypeInv, Writer, Session
<1>2. dbFaults' = dbFaults \/ dbFaults' = dbFaults + 1
  BY DEF Next, Publish, JobConnect, JobCommit, Checkpoint, Restart, Consume, Import,
         ImportCommit, Execute, DbFault, vars
<1>3. dbFaults' = 0 => dbFaults = 0
  BY <1>1, <1>2
<1>4. ASSUME rows'["gateway"] = rows["gateway"], rows'["import"] = rows["import"],
             session'["import"].open => session["import"].open, imports' = imports,
             said' = said, stored' = stored
      PROVE  OtherRowsInv'
  BY <1>3, <1>4 DEF OtherRowsInv
<1>5. CASE Publish \/ Checkpoint \/ UNCHANGED vars
  BY <1>4, <1>5 DEF Publish, Checkpoint, importVars, vars
<1>6. CASE JobConnect \/ Restart
  <2>1. session'["import"] = session["import"]
    BY <1>1, <1>6 DEF JobConnect, Restart
  <2>2. QED
    BY <2>1, <1>4, <1>6 DEF JobConnect, Restart, importVars
<1>7. CASE JobCommit
  <2>1. session'["import"] = session["import"]
    BY <1>1, <1>7 DEF JobCommit
  <2>2. rows'["gateway"] = rows["gateway"] /\ rows'["import"] = rows["import"]
    BY <1>1, <1>7, CommittedRows DEF JobCommit
  <2>3. QED
    BY <2>1, <2>2, <1>4, <1>7 DEF JobCommit, importVars
<1>8. CASE Consume
  <2>1. topic[position + 1] \in Anomaly
    BY <1>8 DEF TypeInv, Consume
  <2>2. /\ rows'["import"] = rows["import"]
        /\ \A a \in Timed : rows'["gateway"][a] = rows["gateway"][a]
    <3>1. CASE rows' = rows
      BY <3>1
    <3>2. CASE /\ rows' = [rows EXCEPT !["gateway"][topic[position + 1]] = @ + 1]
               /\ topic[position + 1] \notin Timed
      BY <3>2, <2>1, <1>1, TimedAssumption
    <3>3. QED
      BY <3>1, <3>2, <1>8 DEF Consume, Insertable
  <2>3. QED
    BY <2>2, <1>3, <1>8 DEF Consume, importVars, OtherRowsInv
<1>9. CASE Import
  <2>1. imports' # 0
    BY <1>1, <1>9 DEF Import
  <2>2. QED
    BY <2>1, <1>3, <1>9 DEF Import, OtherRowsInv
<1>10. CASE ImportCommit
  <2>1. session["import"].open /\ imports' = imports
    BY <1>10 DEF ImportCommit
  <2>2. imports # 0
    BY <2>1 DEF OtherRowsInv
  <2>3. rows'["gateway"] = rows["gateway"]
    BY <1>1, <1>10, CommittedRows DEF ImportCommit
  <2>4. dbFaults' = 0 => said' = stored'
    <3>1. CASE DbFault
      BY <3>1, <1>1 DEF DbFault
    <3>2. CASE /\ said' = Printed(session["import"]) /\ dbFaults' = dbFaults
               /\ stored' = IF session["import"].aborted THEN 0
                            ELSE Cardinality(session["import"].staged)
      BY <3>2, <1>1 DEF SessionInv, Consistent, Printed
    <3>3. QED
      BY <3>1, <3>2, <1>10 DEF ImportCommit
  <2>5. QED
    BY <2>1, <2>2, <2>3, <2>4 DEF OtherRowsInv
<1>11. CASE \E w \in Session : Execute(w)
  <2>1. PICK w \in Session : Execute(w)
    BY <1>11
  <2>2. rows' = rows /\ (session'["import"].open => session["import"].open)
    <3>1. w = "import" => session["import"].open
      BY <2>1, ExecuteSteps
    <3>2. w # "import" => session'["import"] = session["import"]
      BY <2>1, <1>1, ExecuteSteps
    <3>3. QED
      BY <2>1, <3>1, <3>2, ExecuteSteps
  <2>3. QED
    BY <2>1, <2>2, <1>4 DEF Execute, importVars
<1>12. QED
  BY <1>5, <1>6, <1>7, <1>8, <1>9, <1>10, <1>11 DEF Next

-----------------------------------------------------------------------------
(* The theorems.                                                           *)

\* The invariant: types, what the two transactions hold, and what the rows of each
\* writer are.
THEOREM Invariance == Spec => []IInv
<1>1. Init => IInv
  <2> SUFFICES ASSUME Init PROVE IInv
    OBVIOUS
  <2>1. TypeInv
    <3>1. Batches \in Seq(Seq(Anomaly))
      BY BatchesAssumption
    <3>2. 1 <= Len(Batches) + 1
      BY <3>1
    <3>3. <<>> \in Seq(Anomaly) /\ Len(<<>>) = 0
      OBVIOUS
    <3>4. session \in [Session -> SessionType] /\ rows \in [Writer -> [Anomaly -> Nat]]
      BY EmptySession DEF Init
    <3>5. QED
      BY <3>2, <3>3, <3>4 DEF Init, TypeInv
  <2>2. SessionInv
    BY FS_EmptySet DEF Init, SessionInv, Consistent, NoSession
  <2>3. JobInv
    BY DEF Init, JobInv, NoSession, Session
  <2>4. \A w \in Writer, a \in Anomaly : rows[w][a] = 0
    BY DEF Init
  <2>5. "job" \in Writer /\ "gateway" \in Writer /\ "import" \in Writer
    BY DEF Writer, Session
  <2>6. \A b \in DOMAIN Batches : \A a \in ToSet(Batches[b]) : rows["job"][a] = 0 /\ ~Finished(b)
    <3>1. ASSUME NEW b \in DOMAIN Batches, NEW a \in ToSet(Batches[b])
          PROVE  rows["job"][a] = 0 /\ ~Finished(b)
      <4>1. a \in Anomaly /\ b \in Nat \ {0}
        BY BatchFacts
      <4>2. QED
        BY <4>1, <2>4, <2>5 DEF Init, Finished
    <3>2. QED
      BY <3>1
  <2>7. JobRowsInv
    BY <2>6 DEF JobRowsInv, WholeBatches, Sendable
  <2>8. OtherRowsInv
    BY <2>4, <2>5, TimedAssumption DEF Init, OtherRowsInv, NoSession, Session
  <2>9. QED
    BY <2>1, <2>2, <2>3, <2>7, <2>8 DEF IInv
<1>2. IInv /\ [Next]_vars => IInv'
  BY TypesKept, ConsistentKept, JobSessionKept, JobRowsKept, OtherRowsKept DEF IInv
<1>3. QED
  BY <1>1, <1>2, PTL DEF Spec

\* The rows of a micro-batch are stored together or not at all, and as long as PostgreSQL
\* answers no anomaly of a finished batch is missing, whatever Kafka does
\* (stream_processor.py:359 to 383).
THEOREM BatchesAreStored == Spec => []BatchesStored
<1>1. IInv => BatchesStored
  <2> SUFFICES ASSUME IInv, dbFaults = 0, NEW b \in 1..batch - 1, NEW a \in Sendable(b)
               PROVE  rows["job"][a] >= 1
    BY DEF IInv, JobRowsInv, BatchesStored, StoredWithoutKafka
  <2>1. batch \in Nat \ {0} /\ batch <= Len(Batches) + 1 /\ Len(Batches) \in Nat
    BY BatchesAssumption DEF IInv, TypeInv
  <2>2. b \in 1..Len(Batches) /\ b < batch
    BY <2>1
  <2>3. b \in DOMAIN Batches
    BY <2>2, BatchesAssumption
  <2>4. QED
    BY <2>2, <2>3 DEF IInv, JobRowsInv, Finished
<1>2. QED
  BY <1>1, Invariance, PTL

\* Without a restart of the job and without an import, an anomaly with an event time has
\* one row, although two programs insert it under ids that never conflict.
THEOREM TimedStoredOnce == Spec => []TimedOnce
<1>1. IInv => TimedOnce
  <2> SUFFICES ASSUME IInv, starts = 1, imports = 0, NEW a \in Timed
               PROVE  rows["job"][a] + rows["gateway"][a] + rows["import"][a] <= 1
    BY DEF TimedOnce
  <2>1. a \in Anomaly
    BY TimedAssumption
  <2>2. PICK b \in DOMAIN Batches : a \in ToSet(Batches[b])
    BY <2>1 DEF Anomaly
  <2>3. rows["job"][a] <= 1
    BY <2>2 DEF IInv, JobRowsInv
  <2>4. rows["gateway"][a] = 0 /\ rows["import"][a] = 0
    BY <2>1 DEF IInv, OtherRowsInv
  <2>5. rows["job"][a] \in Nat
    BY <2>1 DEF IInv, TypeInv, Writer, Session
  <2>6. QED
    BY <2>3, <2>4, <2>5
<1>2. QED
  BY <1>1, Invariance, PTL

\* insert_alerts.py prints the number of rows it stored, as long as PostgreSQL answers.
THEOREM ImportReports == Spec => []ImportReportsStored
<1>1. IInv => ImportReportsStored
  BY DEF IInv, OtherRowsInv, ImportReportsStored
<1>2. QED
  BY <1>1, Invariance, PTL

-----------------------------------------------------------------------------
(* The page of /demo.                                                      *)

Socket == [page : {"connecting", "open", "closed"}, server : {"none", "open", "closed"},
           link : BOOLEAN, inbox : Seq({"connected", "fatal", "other"}), ping : BOOLEAN,
           beat : Nat, idle : Nat]

\* The sockets the page has not closed.
Live == {i \in DOMAIN sockets : sockets[i].page # "closed"}

\* On a sound connection the handler has been waiting no longer than the page, and no
\* longer than a ping takes; before it opens nobody waits.
Timely(k) ==
    /\ k.page = "connecting" => k.server = "none" /\ ~k.ping /\ k.beat = 0 /\ k.idle = 0
    /\ k.beat <= Heartbeat
    /\ k.page = "open" /\ k.server = "open" /\ k.link =>
          /\ k.idle <= Heartbeat
          /\ ~k.ping => k.idle <= k.beat

SocketsInv ==
    /\ IsFiniteSet(DOMAIN sockets) /\ reconnect \in Nat
    /\ \A i \in DOMAIN sockets : sockets[i] \in Socket /\ Timely(sockets[i])

DemoInv == SocketsInv /\ OneSocket

\* What Put and Held make of the sockets: one socket changes, and those both sides are
\* done with are forgotten.
LEMMA PutSockets ==
    ASSUME NEW i \in DOMAIN sockets, NEW k, Put(i, k)
    PROVE  /\ DOMAIN sockets' \subseteq DOMAIN sockets
           /\ \A j \in DOMAIN sockets' : sockets'[j] = IF j = i THEN k ELSE sockets[j]
           /\ Live' = (Live \ {i}) \cup (IF k.page = "closed" THEN {} ELSE {i})
<1> DEFINE t == [sockets EXCEPT ![i] = k]
<1>1. sockets' = Held(t)
  BY DEF Put
<1>2. DOMAIN t = DOMAIN sockets /\ \A j \in DOMAIN t : t[j] = IF j = i THEN k ELSE sockets[j]
  OBVIOUS
<1> HIDE DEF t
<1>3. /\ DOMAIN sockets' = {j \in DOMAIN t : t[j].page # "closed" \/ t[j].server = "open"}
      /\ \A j \in DOMAIN sockets' : sockets'[j] = t[j]
  BY <1>1 DEF Held, Restrict
<1>4. Live' = {j \in DOMAIN t : t[j].page # "closed"}
  BY <1>3 DEF Live
<1>5. QED
  BY <1>2, <1>3, <1>4 DEF Live

\* A step of one socket that neither opens nor closes the page's end.
LEMMA OneSocketChanges ==
    ASSUME SocketsInv, NEW i \in DOMAIN sockets, NEW k \in Socket, Timely(k), Put(i, k),
           reconnect' \in Nat
    PROVE  /\ SocketsInv'
           /\ (k.page = "closed" <=> sockets[i].page = "closed") => Live' = Live
<1>1. IsFiniteSet(DOMAIN sockets')
  BY PutSockets, FS_Subset DEF SocketsInv
<1>2. QED
  BY <1>1, PutSockets DEF SocketsInv, Live, Timely

LEMMA OneSocketSame ==
    ASSUME OneSocket, Live' = Live, reconnect' = reconnect
    PROVE  OneSocket'
BY DEF OneSocket, Live

\* onclose: the page lets go of one socket and sets one timer.
LEMMA CloseKeepsOne ==
    ASSUME DemoInv, NEW i \in DOMAIN sockets, Close(i)
    PROVE  DemoInv'
<1> DEFINE k == [sockets[i] EXCEPT !.page = "closed", !.inbox = <<>>, !.ping = FALSE]
<1>1. sockets[i] \in Socket /\ Timely(sockets[i]) /\ sockets[i].page # "closed"
  BY DEF DemoInv, SocketsInv, Close
<1>2. k \in Socket /\ Timely(k) /\ k.page = "closed"
  <2>1. <<>> \in Seq({"connected", "fatal", "other"})
    OBVIOUS
  <2>2. QED
    BY <1>1, <2>1 DEF Socket, Timely
<1>3. Put(i, k) /\ reconnect' = reconnect + 1 /\ reconnect \in Nat
  BY DEF Close, CloseOn, Retry, DemoInv, SocketsInv
<1> HIDE DEF k
<1>4. SocketsInv'
  BY <1>2, <1>3, OneSocketChanges DEF DemoInv
<1>5. Live' = Live \ {i} /\ i \in Live
  BY <1>1, <1>2, <1>3, PutSockets DEF Live
<1>6. IsFiniteSet(Live)
  <2>1. Live \subseteq DOMAIN sockets
    BY DEF Live
  <2>2. QED
    BY <2>1, FS_Subset DEF DemoInv, SocketsInv
<1>7. Cardinality(Live') = Cardinality(Live) - 1 /\ Cardinality(Live) \in Nat
  BY <1>5, <1>6, FS_RemoveElement, FS_CardinalityType
<1>8. QED
  BY <1>3, <1>4, <1>7 DEF DemoInv, OneSocket, Live

\* connect(): one timer less, one socket more, whose number is new.
LEMMA ConnectKeepsOne ==
    ASSUME DemoInv, Connect
    PROVE  DemoInv'
<1> DEFINE D == DOMAIN sockets
           R == 1..Cardinality(D) + 1
<1>1. IsFiniteSet(D) /\ Cardinality(D) \in Nat /\ reconnect \in Nat
  BY FS_CardinalityType DEF DemoInv, SocketsInv
<1>2. \E n \in R : n \notin D
  <2>1. SUFFICES ASSUME R \subseteq D PROVE FALSE
    OBVIOUS
  <2>2. Cardinality(R) = Cardinality(D) + 1
    <3>1. 1 \in Int /\ Cardinality(D) + 1 \in Int
      BY <1>1
    <3> DEFINE c == Cardinality(D) + 1
    <3>2. R = 1..c /\ c \in Nat /\ c >= 1
      BY <1>1
    <3> HIDE DEF c, R
    <3>3. Cardinality(1..c) = c
      BY <3>2, FS_Interval
    <3>4. QED
      BY <3>2, <3>3 DEF c
  <2>3. Cardinality(R) <= Cardinality(D)
    <3> HIDE DEF D, R
    <3>1. QED
      BY <1>1, <2>1, FS_Subset
  <2>4. QED
    BY <1>1, <2>2, <2>3
<1>3. NewNumber \notin D
  BY <1>2 DEF NewNumber
<1>4. /\ DOMAIN sockets' = D \cup {NewNumber}
      /\ \A i \in DOMAIN sockets' : sockets'[i] = IF i = NewNumber THEN NewSocket ELSE sockets[i]
      /\ reconnect' = reconnect - 1 /\ reconnect > 0
  BY DEF Connect
<1>5. NewSocket \in Socket /\ Timely(NewSocket) /\ NewSocket.page # "closed"
  <2>1. <<>> \in Seq({"connected", "fatal", "other"})
    OBVIOUS
  <2>2. QED
    BY <2>1, TimerAssumption DEF NewSocket, Socket, Timely
<1>6. SocketsInv'
  <2>1. IsFiniteSet(DOMAIN sockets')
    BY <1>1, <1>4, FS_AddElement
  <2>2. QED
    BY <1>1, <1>4, <1>5, <2>1 DEF DemoInv, SocketsInv, Timely
<1>7. Live' = Live \cup {NewNumber} /\ NewNumber \notin Live
  BY <1>3, <1>4, <1>5 DEF Live
<1>8. IsFiniteSet(Live)
  <2>1. Live \subseteq D
    BY DEF Live
  <2>2. QED
    BY <1>1, <2>1, FS_Subset
<1>9. Cardinality(Live') = Cardinality(Live) + 1 /\ Cardinality(Live) \in Nat
  BY <1>7, <1>8, FS_AddElement, FS_CardinalityType
<1>10. QED
  BY <1>1, <1>4, <1>6, <1>9 DEF DemoInv, OneSocket, Live

\* The other steps of one socket.
LEMMA SocketKeepsOne ==
    ASSUME DemoInv, NEW i \in DOMAIN sockets,
           Open(i) \/ Message(i) \/ Ping(i) \/ Receive(i) \/ HandlerEnds(i) \/ LoseLink(i)
    PROVE  DemoInv'
<1>1. sockets[i] \in Socket /\ Timely(sockets[i])
  BY DEF DemoInv, SocketsInv
<1>2. reconnect' = reconnect
  BY DEF Open, Message, Ping, Receive, HandlerEnds, LoseLink, page
<1>3. \E k \in Socket : Timely(k) /\ Put(i, k) /\ (k.page = "closed" <=> sockets[i].page = "closed")
  <2>1. <<>> \in Seq({"connected", "fatal", "other"})
        /\ <<"connected">> \in Seq({"connected", "fatal", "other"})
    OBVIOUS
  <2>2. CASE Open(i)
    <3> DEFINE k == [sockets[i] EXCEPT !.page = "open", !.server = "open",
                                       !.inbox = <<"connected">>]
    <3>1. k \in Socket
      BY <1>1, <2>1 DEF Socket
    <3>2. /\ k.page = "open" /\ k.server = "open" /\ k.inbox = <<"connected">>
          /\ k.link = sockets[i].link
          /\ k.ping = sockets[i].ping /\ k.beat = sockets[i].beat /\ k.idle = sockets[i].idle
      BY <1>1 DEF Socket
    <3>3. Put(i, k)
      BY <2>2 DEF Open
    <3> HIDE DEF k
    <3>4. Timely(k)
      BY <1>1, <2>2, <3>1, <3>2, TimerAssumption DEF Open, Timely, Socket
    <3>5. QED
      BY <1>1, <2>2, <3>1, <3>2, <3>3, <3>4 DEF Open, Socket
  <2>3. CASE Message(i)
    <3> DEFINE k == [sockets[i] EXCEPT !.inbox = Tail(@)]
    <3>1. k \in Socket
      <4>1. sockets[i].inbox \in Seq({"connected", "fatal", "other"}) /\ sockets[i].inbox # <<>>
        BY <1>1, <2>3 DEF Message, Socket
      <4>2. Tail(sockets[i].inbox) \in Seq({"connected", "fatal", "other"})
        BY <4>1
      <4>3. QED
        BY <1>1, <4>2 DEF Socket
    <3>2. /\ k.inbox = Tail(sockets[i].inbox)
          /\ k.page = sockets[i].page /\ k.server = sockets[i].server /\ k.link = sockets[i].link
          /\ k.ping = sockets[i].ping /\ k.beat = sockets[i].beat /\ k.idle = sockets[i].idle
      BY <1>1 DEF Socket
    <3>3. Put(i, k)
      BY <2>3 DEF Message
    <3> HIDE DEF k
    <3>4. Timely(k)
      BY <1>1, <2>3, <3>1, <3>2, TimerAssumption DEF Message, Timely, Socket
    <3>5. QED
      BY <1>1, <2>3, <3>1, <3>2, <3>3, <3>4 DEF Message, Socket
  <2>4. CASE Ping(i)
    <3> DEFINE k == [sockets[i] EXCEPT !.beat = 0, !.ping = sockets[i].link]
    <3>1. k \in Socket
      BY <1>1, <2>1 DEF Socket
    <3>2. /\ k.beat = 0 /\ k.ping = sockets[i].link
          /\ k.page = sockets[i].page /\ k.server = sockets[i].server /\ k.link = sockets[i].link
          /\ k.inbox = sockets[i].inbox /\ k.idle = sockets[i].idle
      BY <1>1 DEF Socket
    <3>3. Put(i, k)
      BY <2>4 DEF Ping
    <3> HIDE DEF k
    <3>4. Timely(k)
      BY <1>1, <2>4, <3>1, <3>2, TimerAssumption DEF Ping, Timely, Socket, PingAfter
    <3>5. QED
      BY <1>1, <2>4, <3>1, <3>2, <3>3, <3>4 DEF Ping, Socket
  <2>5. CASE Receive(i)
    <3> DEFINE k == [sockets[i] EXCEPT !.ping = FALSE, !.idle = 0]
    <3>1. k \in Socket
      BY <1>1, <2>1 DEF Socket
    <3>2. /\ k.ping = FALSE /\ k.idle = 0
          /\ k.page = sockets[i].page /\ k.server = sockets[i].server /\ k.link = sockets[i].link
          /\ k.inbox = sockets[i].inbox /\ k.beat = sockets[i].beat
      BY <1>1 DEF Socket
    <3>3. Put(i, k)
      BY <2>5 DEF Receive
    <3> HIDE DEF k
    <3>4. Timely(k)
      BY <1>1, <2>5, <3>1, <3>2, TimerAssumption DEF Receive, Timely, Socket
    <3>5. QED
      BY <1>1, <2>5, <3>1, <3>2, <3>3, <3>4 DEF Receive, Socket
  <2>6. CASE HandlerEnds(i)
    <3> DEFINE k == [sockets[i] EXCEPT !.server = "closed"]
    <3>1. k \in Socket /\ Timely(k)
      BY <1>1, <2>6 DEF HandlerEnds, Socket, Timely
    <3>2. QED
      BY <2>6, <3>1 DEF HandlerEnds, Socket
  <2>7. CASE LoseLink(i)
    <3> DEFINE k == [sockets[i] EXCEPT !.link = FALSE, !.inbox = <<>>, !.ping = FALSE]
    <3>1. k \in Socket /\ Timely(k)
      BY <1>1, <2>1, <2>7 DEF LoseLink, Socket, Timely
    <3>2. QED
      BY <2>7, <3>1 DEF LoseLink, Socket
  <2>8. QED
    BY <2>2, <2>3, <2>4, <2>5, <2>6, <2>7
<1>4. QED
  BY <1>2, <1>3, OneSocketChanges, OneSocketSame DEF DemoInv, SocketsInv

\* The steps that touch all sockets leave the page's ends as they are.
LEMMA AllSocketsKeepOne ==
    ASSUME DemoInv, Broadcast \/ GatewayStops \/ Tick
    PROVE  DemoInv'
<1>1. /\ IsFiniteSet(DOMAIN sockets) /\ reconnect \in Nat
      /\ \A i \in DOMAIN sockets : sockets[i] \in Socket /\ Timely(sockets[i])
  BY DEF DemoInv, SocketsInv
<1>2. reconnect' = reconnect
  BY DEF Broadcast, GatewayStops, Tick, page
<1>3. /\ DOMAIN sockets' \subseteq DOMAIN sockets /\ Live \subseteq DOMAIN sockets'
      /\ \A i \in DOMAIN sockets' : /\ sockets'[i] \in Socket /\ Timely(sockets'[i])
                                    /\ sockets'[i].page = sockets[i].page
  <2>1. CASE Broadcast
    <3>1. PICK m \in {"fatal", "other"} :
             sockets' = [i \in DOMAIN sockets |->
               IF sockets[i].server = "open" /\ sockets[i].link /\ sockets[i].page = "open"
               THEN [sockets[i] EXCEPT !.inbox = Append(@, m)] ELSE sockets[i]]
      BY <2>1 DEF Broadcast
    <3>2. ASSUME NEW i \in DOMAIN sockets
          PROVE  /\ sockets'[i] \in Socket /\ Timely(sockets'[i])
                 /\ sockets'[i].page = sockets[i].page
      <4>1. sockets[i] \in Socket /\ Timely(sockets[i])
        BY <1>1
      <4> DEFINE k == [sockets[i] EXCEPT !.inbox = Append(@, m)]
      <4>2. k \in Socket /\ k.page = sockets[i].page
        <5>1. Append(sockets[i].inbox, m) \in Seq({"connected", "fatal", "other"})
          BY <4>1 DEF Socket
        <5>2. QED
          BY <4>1, <5>1 DEF Socket
      <4>3. /\ k.server = sockets[i].server /\ k.link = sockets[i].link
            /\ k.ping = sockets[i].ping /\ k.beat = sockets[i].beat /\ k.idle = sockets[i].idle
        BY <4>1 DEF Socket
      <4>4. sockets'[i] = k \/ sockets'[i] = sockets[i]
        BY <3>1
      <4> HIDE DEF k
      <4>5. Timely(k)
        BY <4>1, <4>2, <4>3 DEF Timely
      <4>6. QED
        BY <4>1, <4>2, <4>4, <4>5
    <3>3. QED
      BY <3>1, <3>2 DEF Live
  <2>2. CASE GatewayStops
    <3> DEFINE t == [i \in DOMAIN sockets |->
          IF sockets[i].server = "open" THEN [sockets[i] EXCEPT !.server = "closed"]
          ELSE sockets[i]]
    <3>1. sockets' = Held(t)
      BY <2>2 DEF GatewayStops
    <3>2. \A i \in DOMAIN sockets : /\ t[i] \in Socket /\ Timely(t[i])
                                    /\ t[i].page = sockets[i].page
      BY <1>1 DEF Socket, Timely
    <3>3. DOMAIN t = DOMAIN sockets
      OBVIOUS
    <3> HIDE DEF t
    <3>4. QED
      BY <3>1, <3>2, <3>3 DEF Held, Restrict, Live
  <2>3. CASE Tick
    <3>1. \A i \in DOMAIN sockets : ~Due(sockets[i])
      BY <2>3 DEF Tick
    <3>2. sockets' = [i \in DOMAIN sockets |->
              [sockets[i] EXCEPT !.beat = @ + (IF sockets[i].page = "open" THEN 1 ELSE 0),
                                 !.idle = @ + (IF sockets[i].server = "open" THEN 1 ELSE 0)]]
      BY <2>3 DEF Tick
    <3>3. ASSUME NEW i \in DOMAIN sockets
          PROVE  /\ sockets'[i] \in Socket /\ Timely(sockets'[i])
                 /\ sockets'[i].page = sockets[i].page
      <4>1. sockets[i] \in Socket /\ Timely(sockets[i]) /\ ~Due(sockets[i])
        BY <1>1, <3>1
      <4> DEFINE k == sockets'[i]
      <4>2. k \in Socket
        <5> DEFINE b == sockets[i].beat + (IF sockets[i].page = "open" THEN 1 ELSE 0)
                   d == sockets[i].idle + (IF sockets[i].server = "open" THEN 1 ELSE 0)
        <5>1. b \in Nat /\ d \in Nat
          BY <4>1 DEF Socket
        <5>2. k = [sockets[i] EXCEPT !.beat = b, !.idle = d]
          BY <3>2
        <5> HIDE DEF b, d, k
        <5>3. QED
          BY <4>1, <5>1, <5>2 DEF Socket
      <4>3. /\ k.page = sockets[i].page /\ k.server = sockets[i].server
            /\ k.link = sockets[i].link /\ k.ping = sockets[i].ping
            /\ k.beat = sockets[i].beat + (IF sockets[i].page = "open" THEN 1 ELSE 0)
            /\ k.idle = sockets[i].idle + (IF sockets[i].server = "open" THEN 1 ELSE 0)
        BY <3>2, <4>1 DEF Socket
      <4>4. sockets[i].beat \in Nat /\ sockets[i].idle \in Nat
        BY <4>1 DEF Socket
      <4> HIDE DEF k
      <4>5. Timely(k)
        BY <4>1, <4>3, <4>4, TimerAssumption DEF Timely, Due, PingAfter
      <4>6. QED
        BY <4>2, <4>3, <4>5 DEF k
    <3>4. QED
      BY <3>2, <3>3 DEF Live
  <2>4. QED
    BY <2>1, <2>2, <2>3
<1>4. Live' = Live
  BY <1>3 DEF Live
<1>5. IsFiniteSet(DOMAIN sockets')
  BY <1>1, <1>3, FS_Subset
<1>6. QED
  BY <1>1, <1>2, <1>3, <1>4, <1>5, OneSocketSame DEF DemoInv, SocketsInv

\* The page has one live socket or one timer; on a sound connection the handler waits
\* no longer than a ping takes.
THEOREM DemoInvariance == DemoSpec => []DemoInv
<1>1. DemoInit => DemoInv
  <2> SUFFICES ASSUME DemoInit PROVE DemoInv
    OBVIOUS
  <2>1. DOMAIN sockets = {1} /\ sockets[1] = NewSocket /\ reconnect = 0
    BY DEF DemoInit
  <2>2. NewSocket \in Socket /\ Timely(NewSocket) /\ NewSocket.page # "closed"
    <3>1. <<>> \in Seq({"connected", "fatal", "other"})
      OBVIOUS
    <3>2. QED
      BY <3>1, TimerAssumption DEF NewSocket, Socket, Timely
  <2>3. Live = {1}
    BY <2>1, <2>2 DEF Live
  <2>4. IsFiniteSet({1}) /\ Cardinality({1}) = 1
    BY FS_Singleton
  <2>5. QED
    BY <2>1, <2>2, <2>3, <2>4 DEF DemoInv, SocketsInv, OneSocket, Live, Timely
<1>2. DemoInv /\ [DemoNext]_demoVars => DemoInv'
  <2> SUFFICES ASSUME DemoInv, [DemoNext]_demoVars PROVE DemoInv'
    OBVIOUS
  <2>1. CASE ClearFeed \/ GatewayStarts \/ UNCHANGED demoVars
    <3>1. UNCHANGED <<sockets, reconnect>>
      BY <2>1 DEF ClearFeed, GatewayStarts, demoVars, page
    <3>2. QED
      BY <3>1 DEF DemoInv, SocketsInv, OneSocket, Timely
  <2>2. CASE Connect \/ Broadcast \/ GatewayStops \/ Tick
    BY <2>2, ConnectKeepsOne, AllSocketsKeepOne
  <2>3. ASSUME NEW i \in DOMAIN sockets, OfSocket(i) \/ LoseLink(i)
        PROVE  DemoInv'
    BY <2>3, CloseKeepsOne, SocketKeepsOne DEF OfSocket
  <2>4. QED
    BY <2>1, <2>2, <2>3 DEF DemoNext
<1>3. QED
  BY <1>1, <1>2, PTL DEF DemoSpec

\* For any timers of which the page's is the shorter, and any number of losses, stops and
\* restarts: the page always has one connection that it uses or one timer, never two nor
\* neither, and the handler gives up only on a connection that is lost or closed.
THEOREM SocketIsSound == DemoSpec => []OneSoundSocket
<1>1. ASSUME DemoInv PROVE SilentOnlyIfLost
  <2>1. ASSUME NEW i \in DOMAIN sockets, sockets[i].server = "open", sockets[i].idle = Patience,
               sockets[i].link, sockets[i].page # "closed"
        PROVE  FALSE
    <3>1. sockets[i] \in Socket /\ Timely(sockets[i])
      BY <1>1 DEF DemoInv, SocketsInv
    <3>2. sockets[i].page = "open"
      BY <2>1, <3>1 DEF Socket, Timely
    <3>3. QED
      BY <2>1, <3>1, <3>2, TimerAssumption DEF Socket, Timely
  <2>2. ASSUME NEW i \in DOMAIN sockets PROVE sockets[i].link \in BOOLEAN
    BY <1>1 DEF DemoInv, SocketsInv, Socket
  <2>3. QED
    BY <2>1, <2>2 DEF SilentOnlyIfLost
<1>2. DemoInv => OneSoundSocket
  BY <1>1 DEF DemoInv, OneSoundSocket
<1>3. QED
  BY <1>2, DemoInvariance, PTL

-----------------------------------------------------------------------------
(* The newest alerts.                                                      *)

\* The alerts a request asks for.
Asked(component, severity) ==
    {i \in DOMAIN alerts : /\ Passes(component, alerts[i].component)
                           /\ Passes(AskedSeverity(severity), alerts[i].severity)}

\* s lists the set I, each element once and newer alerts first.
Lists(s, I) ==
    /\ s \in Seq(I) /\ Len(s) = Cardinality(I) /\ IsInjective(s)
    /\ \A i \in I : \E p \in DOMAIN s : s[p] = i
    /\ \A p, q \in DOMAIN s : alerts[s[p]].time > alerts[s[q]].time => p < q

\* The first elements of such a list, at most limit of them.
FirstOf(r, limit, I) ==
    \E s : Lists(s, I) /\ r = SubSeq(s, 1, IF limit < Len(s) THEN limit ELSE Len(s))

RecentInv ==
    /\ alerts \in Seq(AlertRow)
    /\ answer.to = "recent" =>
          /\ answer.limit \in Nat
          /\ FirstOf(answer.rows, answer.limit, Asked(answer.component, answer.severity))

\* An ORDER BY returns each row of its set once.
LEMMA OrderedOnce ==
    ASSUME NEW I, IsFiniteSet(I), NEW s \in SetToSeqs(I)
    PROVE  /\ s \in Seq(I) /\ Len(s) = Cardinality(I) /\ IsInjective(s)
           /\ \A i \in I : \E p \in DOMAIN s : s[p] = i
<1> DEFINE c == Cardinality(I)
           D == 1..c
<1>1. c \in Nat
  BY FS_CardinalityType
<1>2. s \in [D -> I] /\ \A i, j \in D : i # j => s[i] # s[j]
  BY DEF SetToSeqs
<1>3. s \in Seq(I) /\ Len(s) = c /\ DOMAIN s = D
  BY <1>1, <1>2
<1>4. s \in Injection(D, I) /\ IsInjective(s)
  BY <1>2, <1>3 DEF Injection, IsInjective
<1>5. IsFiniteSet(D) /\ Cardinality(D) = c
  <2>1. 1 \in Int /\ c \in Int
    BY <1>1
  <2> HIDE DEF c
  <2>2. QED
    BY <1>1, <2>1, FS_Interval
<1>6. s \in Surjection(D, I)
  <2> HIDE DEF D
  <2>1. QED
    BY <1>4, <1>5, FS_Injection
<1>7. QED
  BY <1>3, <1>4, <1>6 DEF Surjection

LEMMA RecentLists ==
    ASSUME alerts \in Seq(AlertRow), NEW limit, NEW c, NEW sev,
           NEW r \in Recent(limit, c, sev)
    PROVE  FirstOf(r, limit, Asked(c, sev))
<1> DEFINE I == Asked(c, sev)
<1>1. PICK s \in SetToSeqs(I) :
         /\ \A i, j \in DOMAIN s : Newer(alerts[s[i]], alerts[s[j]]) => i < j
         /\ r = SubSeq(s, 1, IF limit < Len(s) THEN limit ELSE Len(s))
  BY DEF Recent, OrderedBy, Asked
<1>2. IsFiniteSet(I)
  <2>1. Len(alerts) \in Nat /\ DOMAIN alerts = 1..Len(alerts)
    OBVIOUS
  <2>2. IsFiniteSet(DOMAIN alerts) /\ I \subseteq DOMAIN alerts
    BY <2>1, FS_Interval DEF Asked
  <2>3. QED
    BY <2>2, FS_Subset
<1> HIDE DEF I
<1>3. QED
  BY <1>1, <1>2, OrderedOnce DEF FirstOf, Lists, Newer, I

\* The lower-case form of a severity, the severity itself, or none select what they say.
LEMMA SeverityAsked ==
    ASSUME NEW s \in Severity, NEW sev \in {"all", s, Lower[s]}
    PROVE  Passes(AskedSeverity(sev), s)
<1>1. CASE sev = Lower[s]
  <2>1. \A t \in Severity : sev = Lower[t] => t = s
    BY <1>1, SeverityAssumption
  <2>2. AskedSeverity(sev) = s
    BY <1>1, <2>1 DEF AskedSeverity
  <2>3. QED
    BY <2>2 DEF Passes
<1>2. CASE sev # Lower[s]
  <2>1. \A t \in Severity : sev # Lower[t]
    BY <1>2, SeverityAssumption
  <2>2. AskedSeverity(sev) = sev
    BY <2>1 DEF AskedSeverity
  <2>3. QED
    BY <1>2, <2>2 DEF Passes
<1>3. QED
  BY <1>1, <1>2

\* What is left out of a prefix is not newer than what is in it, and nothing is left out
\* of a prefix that is shorter than the limit.
LEMMA PrefixIsNewest ==
    ASSUME NEW I, I \subseteq DOMAIN alerts, alerts \in Seq(AlertRow), NEW s, Lists(s, I),
           NEW limit \in Nat, NEW r,
           r = SubSeq(s, 1, IF limit < Len(s) THEN limit ELSE Len(s)),
           NEW i \in I, i \notin ToSet(r)
    PROVE  /\ Cardinality(ToSet(r)) = limit
           /\ \A j \in ToSet(r) : alerts[j].time >= alerts[i].time
<1> DEFINE k == IF limit < Len(s) THEN limit ELSE Len(s)
<1>1. s \in Seq(I) /\ Len(s) \in Nat /\ DOMAIN s = 1..Len(s)
  BY DEF Lists
<1>2. k \in Nat /\ k <= Len(s) /\ k <= limit
  BY <1>1
<1>3. ToSet(r) = {s[p] : p \in 1..k}
  <2>1. DOMAIN r = 1..k /\ \A p \in 1..k : r[p] = s[p]
    BY <1>1, <1>2
  <2>2. QED
    BY <2>1 DEF ToSet
<1>4. PICK q \in DOMAIN s : s[q] = i
  BY DEF Lists
<1>5. q \notin 1..k
  BY <1>3, <1>4
<1>6. k = limit /\ q > k
  <2>1. q \in Nat /\ 1 <= q /\ q <= Len(s)
    BY <1>1, <1>4
  <2>2. q > k
    <3> HIDE DEF k
    <3>1. QED
      BY <1>2, <1>5, <2>1
  <2>3. CASE limit < Len(s)
    BY <2>2, <2>3
  <2>4. CASE ~(limit < Len(s))
    <3>1. k = Len(s)
      BY <2>4
    <3> HIDE DEF k
    <3>2. FALSE
      BY <1>1, <2>1, <2>2, <3>1
    <3>3. QED
      BY <3>2
  <2>5. QED
    BY <2>3, <2>4
<1>7. Cardinality(ToSet(r)) = k
  <2> DEFINE f == [p \in 1..k |-> s[p]]
             T == ToSet(r)
  <2>1. f \in Bijection(1..k, T)
    <3>1. \A p, p2 \in 1..k : s[p] = s[p2] => p = p2
      <4>1. \A p \in 1..k : p \in DOMAIN s
        <5> HIDE DEF k
        <5>1. QED
          BY <1>1, <1>2
      <4>2. QED
        BY <4>1 DEF Lists, IsInjective
    <3>2. \A p \in 1..k : f[p] \in T
      BY <1>3
    <3>3. \A t \in T : \E p \in 1..k : f[p] = t
      BY <1>3
    <3> HIDE DEF T, k
    <3>4. f \in [1..k -> T]
      BY <3>2
    <3>5. QED
      BY <3>1, <3>3, <3>4 DEF Bijection, Injection, Surjection, IsInjective
  <2>2. ExistsBijection(1..k, T)
    BY <2>1 DEF ExistsBijection
  <2>3. IsFiniteSet(1..k) /\ Cardinality(1..k) = k
    <3> HIDE DEF k
    <3>1. 1 \in Int /\ k \in Int
      BY <1>2
    <3>2. QED
      BY <1>2, <3>1, FS_Interval
  <2>4. QED
    <3> HIDE DEF T, k
    <3>1. Cardinality(T) = k
      BY <2>2, <2>3, FS_Bijection
    <3>2. QED
      BY <3>1 DEF T
<1>8. ASSUME NEW j \in ToSet(r) PROVE alerts[j].time >= alerts[i].time
  <2>1. PICK p \in 1..k : s[p] = j
    BY <1>3
  <2>2. p \in DOMAIN s /\ p < q /\ ~(q < p)
    <3>1. q \in Nat
      BY <1>1, <1>4
    <3> HIDE DEF k
    <3>2. QED
      BY <1>1, <1>2, <1>6, <2>1, <3>1
  <2>3. ~(alerts[i].time > alerts[j].time)
    <3>1. \A u, v \in DOMAIN s : alerts[s[u]].time > alerts[s[v]].time => u < v
      BY DEF Lists
    <3>2. alerts[s[q]].time > alerts[s[p]].time => q < p
      BY <1>4, <2>2, <3>1
    <3>3. QED
      BY <1>4, <2>1, <2>2, <3>2
  <2>4. i \in DOMAIN alerts /\ j \in DOMAIN alerts
    BY <1>1, <2>1, <2>2
  <2>5. alerts[i].time \in Int /\ alerts[j].time \in Int
    <3>1. alerts[i] \in AlertRow /\ alerts[j] \in AlertRow
      BY <2>4
    <3>2. \A d \in Day \cup {Null} : d \in Int
      BY DEF Day, Null
    <3>3. QED
      BY <3>1, <3>2 DEF AlertRow
  <2>6. QED
    BY <2>3, <2>5
<1>9. QED
  BY <1>6, <1>7, <1>8

\* The answer and the table it is about fit together until the table changes.
LEMMA RecentKept ==
    ASSUME RecentInv, [ApiNext]_apiVars
    PROVE  RecentInv'
<1>1. CASE UNCHANGED <<alerts, answer>>
  BY <1>1 DEF RecentInv, FirstOf, Lists, Asked
<1>2. CASE answer'.to # "recent" /\ UNCHANGED alerts
  BY <1>2 DEF RecentInv
<1>3. CASE AppendMetrics \/ UpsertHealth
  BY <1>2, <1>3 DEF AppendMetrics, UpsertHealth, NoAnswer
<1>4. CASE InsertAlert
  <2>1. PICK r \in AlertRow : alerts' = Append(alerts, r)
    BY <1>4 DEF InsertAlert
  <2>2. answer'.to # "recent"
    BY <1>4 DEF InsertAlert, NoAnswer
  <2>3. QED
    BY <2>1, <2>2 DEF RecentInv
<1>5. CASE GetMetricsSummary \/ GetComponentHealth \/ GetAlertSummary
  BY <1>2, <1>5 DEF GetMetricsSummary, GetComponentHealth, GetAlertSummary, Respond, tables,
                    OrderedBy
<1>6. CASE GetRecentAlerts
  <2>1. PICK limit \in 1..MaxAlerts, c \in Component \cup {"all"},
             s \in Severity \cup {Lower[t] : t \in Severity} \cup {"all"} :
          Respond({[to |-> "recent", limit |-> limit, component |-> c, severity |-> s,
                    rows |-> r] : r \in Recent(limit, c, s)})
    BY <1>6 DEF GetRecentAlerts
  <2>2. CASE answer' = [to |-> "unavailable"]
    BY <1>2, <2>1, <2>2 DEF Respond, tables
  <2>3. ASSUME NEW r \in Recent(limit, c, s),
               answer' = [to |-> "recent", limit |-> limit, component |-> c, severity |-> s,
                          rows |-> r]
        PROVE  RecentInv'
    <3>1. alerts' = alerts
      BY <2>1 DEF Respond, tables
    <3>2. FirstOf(r, limit, Asked(c, s))
      BY <2>3, RecentLists DEF RecentInv
    <3>3. /\ answer'.rows = r /\ answer'.limit = limit /\ answer'.component = c
          /\ answer'.severity = s
      BY <2>3
    <3>4. limit \in Nat
      OBVIOUS
    <3>5. QED
      BY <3>1, <3>2, <3>3, <3>4 DEF RecentInv, FirstOf, Lists, Asked
  <2>4. QED
    BY <2>1, <2>2, <2>3 DEF Respond
<1>7. QED
  BY <1>1, <1>3, <1>4, <1>5, <1>6 DEF ApiNext, AlertsNext, MetricsNext, apiVars, tables

\* The last answer lists alerts of the table as it is, in an order ORDER BY allows.
THEOREM RecentInvariance == ApiSpec => []RecentInv
<1>1. ApiInit => RecentInv
  BY DEF ApiInit, RecentInv, NoAnswer
<1>2. RecentInv /\ [ApiNext]_apiVars => RecentInv'
  BY RecentKept
<1>3. QED
  BY <1>1, <1>2, PTL DEF ApiSpec

\* For any limit, filters, spelling of the severity and order of ties, on a table of any
\* length: /alerts/recent leaves out no alert that is newer than one it returns, and
\* answers with fewer rows than asked for only when there are no more.
THEOREM NewestAreAnswered == ApiSpec => []RecentIsNewest
<1>1. ASSUME RecentInv, answer.to = "recent",
             NEW i \in DOMAIN alerts, i \notin ToSet(answer.rows),
             Passes(answer.component, alerts[i].component),
             answer.severity \in {"all", alerts[i].severity, Lower[alerts[i].severity]}
      PROVE  /\ Cardinality(ToSet(answer.rows)) = answer.limit
             /\ \A j \in ToSet(answer.rows) : alerts[j].time >= alerts[i].time
  <2>1. /\ alerts \in Seq(AlertRow) /\ answer.limit \in Nat
        /\ FirstOf(answer.rows, answer.limit, Asked(answer.component, answer.severity))
    BY <1>1 DEF RecentInv
  <2> DEFINE I == Asked(answer.component, answer.severity)
  <2>2. PICK s : /\ Lists(s, I)
                 /\ answer.rows = SubSeq(s, 1, IF answer.limit < Len(s) THEN answer.limit
                                                                        ELSE Len(s))
    BY <2>1 DEF FirstOf
  <2>3. alerts[i].severity \in Severity
    <3>1. alerts[i] \in AlertRow
      BY <1>1, <2>1
    <3>2. QED
      BY <3>1 DEF AlertRow
  <2>4. i \in I
    BY <1>1, <2>3, SeverityAsked DEF Asked
  <2>5. I \subseteq DOMAIN alerts
    BY DEF Asked
  <2> HIDE DEF I
  <2>6. QED
    BY <1>1, <2>1, <2>2, <2>4, <2>5, PrefixIsNewest
<1>2. RecentInv => RecentIsNewest
  BY <1>1 DEF RecentIsNewest
<1>3. QED
  BY <1>2, RecentInvariance, PTL

-----------------------------------------------------------------------------
(* Sums over finite sets: what a fold adds up, whichever order it takes.   *)

\* g gives each part of S the sum of f over it.
Sums(g, f, S) ==
    /\ g \in [SUBSET S -> Nat]
    /\ g[{}] = 0
    /\ \A T \in SUBSET S : \A x \in T : g[T] = f[x] + g[T \ {x}]

\* h adds f up over the parts of S, taking the elements of each in some order.
AddsUp(h, f, S) ==
    /\ h[{}] = 0
    /\ \A T \in SUBSET S : T # {} => \E x \in T : h[T] = f[x] + h[T \ {x}]

\* The sum of f over S.
Total(f, S) == (CHOOSE g : Sums(g, f, S))[S]

\* A set of subsets of a finite set has a minimal one.
LEMMA MinimalSubset ==
    ASSUME NEW S, IsFiniteSet(S), NEW T \in SUBSET (SUBSET S), T # {}
    PROVE  \E D \in T : \A E \in T : E \subseteq D => E = D
<1>1. IsWellFoundedOn(StrictSubsetOrdering(S), FiniteSubsetsOf(S))
  BY FS_StrictSubsetOrderingWellFounded
<1>2. T \subseteq FiniteSubsetsOf(S)
  BY FS_FiniteSubsetsOfFinite
<1>3. \E D \in T : \A E \in T : ~(<<E, D>> \in StrictSubsetOrdering(S))
  BY <1>1, <1>2, WFMin
<1>4. QED
  BY <1>3 DEF StrictSubsetOrdering

\* A sum over T \ {x} is extended to T.
LEMMA SumExtends ==
    ASSUME NEW T, NEW x \in T, NEW f, \A y \in T : f[y] \in Nat,
           NEW g, Sums(g, f, T \ {x})
    PROVE  \E h : Sums(h, f, T)
<1> DEFINE h == [U \in SUBSET T |-> IF x \in U THEN f[x] + g[U \ {x}] ELSE g[U]]
<1>1. \A U \in SUBSET T : U \ {x} \in SUBSET (T \ {x})
  OBVIOUS
<1>2. h \in [SUBSET T -> Nat]
  <2>1. ASSUME NEW U \in SUBSET T PROVE h[U] \in Nat
    <3>1. CASE x \in U
      BY <1>1, <3>1 DEF Sums
    <3>2. CASE x \notin U
      BY <3>2 DEF Sums
    <3>3. QED
      BY <3>1, <3>2
  <2>2. QED
    BY <2>1
<1>3. h[{}] = 0
  BY DEF Sums
<1>4. ASSUME NEW U \in SUBSET T, NEW y \in U PROVE h[U] = f[y] + h[U \ {y}]
  <2>1. CASE x \notin U
    <3>1. U \in SUBSET (T \ {x}) /\ x \notin U \ {y} /\ U \ {y} \in SUBSET T
      BY <2>1
    <3>2. g[U] = f[y] + g[U \ {y}]
      BY <3>1 DEF Sums
    <3>3. QED
      BY <2>1, <3>1, <3>2
  <2>2. CASE y = x
    <3>1. x \notin U \ {y} /\ U \ {y} \in SUBSET T
      BY <2>2
    <3>2. QED
      BY <2>2, <3>1
  <2>3. CASE x \in U /\ y # x
    <3>1. /\ x \in U \ {y} /\ U \ {y} \in SUBSET T /\ y \in U \ {x}
          /\ U \ {x} \in SUBSET (T \ {x}) /\ (U \ {y}) \ {x} \in SUBSET (T \ {x})
          /\ (U \ {x}) \ {y} = (U \ {y}) \ {x}
      BY <2>3
    <3>2. g[U \ {x}] = f[y] + g[(U \ {y}) \ {x}]
      BY <3>1 DEF Sums
    <3>3. h[U] = f[x] + g[U \ {x}] /\ h[U \ {y}] = f[x] + g[(U \ {y}) \ {x}]
      BY <2>3, <3>1
    <3>4. f[x] \in Nat /\ f[y] \in Nat /\ g[(U \ {y}) \ {x}] \in Nat
      BY <3>1 DEF Sums
    <3> HIDE DEF h
    <3>5. QED
      BY <3>2, <3>3, <3>4
  <2>4. QED
    BY <2>1, <2>2, <2>3
<1>5. Sums(h, f, T)
  <2> HIDE DEF h
  <2>1. QED
    BY <1>2, <1>3, <1>4 DEF Sums
<1>6. QED
  BY <1>5

\* A finite set has a sum.
LEMMA SumExists ==
    ASSUME NEW S, IsFiniteSet(S), NEW f, \A x \in S : f[x] \in Nat
    PROVE  \E g : Sums(g, f, S)
<1> DEFINE Bad == {T \in SUBSET S : ~ \E g : Sums(g, f, T)}
<1>1. SUFFICES ASSUME Bad # {} PROVE FALSE
  OBVIOUS
<1>2. PICK T \in Bad : \A E \in Bad : E \subseteq T => E = T
  <2>1. Bad \in SUBSET (SUBSET S)
    OBVIOUS
  <2> HIDE DEF Bad
  <2>2. QED
    BY <1>1, <2>1, MinimalSubset
<1>3. CASE T = {}
  <2>1. Sums([U \in SUBSET {} |-> 0], f, {})
    BY DEF Sums
  <2>2. QED
    BY <1>3, <2>1
<1>4. CASE T # {}
  <2>1. PICK x : x \in T
    BY <1>4
  <2>2. T \ {x} \notin Bad /\ T \ {x} \in SUBSET S
    BY <1>2, <2>1
  <2>3. PICK g : Sums(g, f, T \ {x})
    BY <2>2
  <2>4. \A y \in T : f[y] \in Nat
    OBVIOUS
  <2>5. \E h : Sums(h, f, T)
    BY <2>1, <2>3, <2>4, SumExtends
  <2>6. QED
    BY <2>5
<1>5. QED
  BY <1>3, <1>4

\* Whatever takes the elements one by one, in any order, adds up to the sum.
LEMMA FoldIsSum ==
    ASSUME NEW S, IsFiniteSet(S), NEW f, NEW g, Sums(g, f, S), NEW h, AddsUp(h, f, S)
    PROVE  \A T \in SUBSET S : h[T] = g[T]
<1> DEFINE Bad == {T \in SUBSET S : h[T] # g[T]}
<1>1. SUFFICES ASSUME Bad # {} PROVE FALSE
  OBVIOUS
<1>2. PICK T \in Bad : \A E \in Bad : E \subseteq T => E = T
  <2>1. Bad \in SUBSET (SUBSET S)
    OBVIOUS
  <2> HIDE DEF Bad
  <2>2. QED
    BY <1>1, <2>1, MinimalSubset
<1>3. T # {}
  BY DEF Sums, AddsUp
<1>4. PICK x \in T : h[T] = f[x] + h[T \ {x}]
  BY <1>3 DEF AddsUp
<1>5. T \ {x} \in SUBSET S /\ T \ {x} \notin Bad
  BY <1>2
<1>6. g[T] = f[x] + g[T \ {x}]
  BY DEF Sums
<1>7. QED
  BY <1>4, <1>5, <1>6

\* The sum is that of any g, on S and on its parts, and of any f that agrees.
LEMMA SumsAgree ==
    ASSUME NEW S, IsFiniteSet(S), NEW T \in SUBSET S, NEW f, NEW e, NEW g, Sums(g, f, S),
           NEW h, Sums(h, e, T), \A x \in T : e[x] = f[x]
    PROVE  h[T] = g[T]
<1>1. IsFiniteSet(T)
  BY FS_Subset
<1> DEFINE k == [U \in SUBSET T |-> g[U]]
<1>2. k[{}] = 0 /\ k[T] = g[T]
  BY DEF Sums
<1>3. ASSUME NEW U \in SUBSET T, U # {} PROVE \E x \in U : k[U] = e[x] + k[U \ {x}]
  <2>1. PICK x : x \in U
    BY <1>3
  <2>2. U \in SUBSET S /\ U \ {x} \in SUBSET T /\ e[x] = f[x]
    BY <2>1
  <2>3. g[U] = f[x] + g[U \ {x}]
    BY <2>1, <2>2 DEF Sums
  <2>4. QED
    BY <2>1, <2>2, <2>3
<1> HIDE DEF k
<1>4. \A U \in SUBSET T : k[U] = h[U]
  <2>1. AddsUp(k, e, T)
    BY <1>2, <1>3 DEF AddsUp
  <2>2. QED
    BY <1>1, <2>1, FoldIsSum
<1>5. QED
  BY <1>2, <1>4

\* The sum is a number, that of nothing is 0, and any element can be taken out of it.
LEMMA TotalFacts ==
    ASSUME NEW S, IsFiniteSet(S), NEW f, \A x \in S : f[x] \in Nat
    PROVE  /\ Total(f, {}) = 0
           /\ Total(f, S) \in Nat
           /\ \A x \in S : Total(f, S) = f[x] + Total(f, S \ {x})
<1>1. ASSUME NEW T \in SUBSET S
      PROVE  Sums(CHOOSE g : Sums(g, f, T), f, T)
  <2>1. IsFiniteSet(T) /\ \A x \in T : f[x] \in Nat
    BY FS_Subset
  <2>2. \E g : Sums(g, f, T)
    BY <2>1, SumExists
  <2>3. QED
    BY <2>2
<1>2. PICK g : Sums(g, f, S) /\ Total(f, S) = g[S]
  BY <1>1 DEF Total
<1>3. ASSUME NEW T \in SUBSET S PROVE Total(f, T) = g[T]
  <2>1. Sums(CHOOSE h : Sums(h, f, T), f, T)
    BY <1>1
  <2>2. QED
    BY <1>2, <2>1, SumsAgree DEF Total
<1>4. {} \in SUBSET S /\ g[{}] = 0 /\ g[S] \in Nat
  BY <1>2 DEF Sums
<1>5. ASSUME NEW x \in S PROVE Total(f, S) = f[x] + Total(f, S \ {x})
  <2>1. g[S] = f[x] + g[S \ {x}]
    BY <1>2 DEF Sums
  <2>2. QED
    BY <1>2, <1>3, <2>1
<1>6. QED
  BY <1>2, <1>3, <1>4, <1>5

\* Equal terms have equal sums, smaller terms a smaller one, and zeros add up to 0.
LEMMA TotalCompared ==
    ASSUME NEW S, IsFiniteSet(S), NEW f, \A x \in S : f[x] \in Nat,
           NEW e, \A x \in S : e[x] \in Nat /\ e[x] <= f[x]
    PROVE  Total(e, S) <= Total(f, S)
<1> DEFINE Bad == {T \in SUBSET S : ~(Total(e, T) <= Total(f, T))}
<1>1. SUFFICES ASSUME Bad # {} PROVE FALSE
  OBVIOUS
<1>2. PICK T \in Bad : \A E \in Bad : E \subseteq T => E = T
  <2>1. Bad \in SUBSET (SUBSET S)
    OBVIOUS
  <2> HIDE DEF Bad
  <2>2. QED
    BY <1>1, <2>1, MinimalSubset
<1>3. IsFiniteSet(T) /\ \A x \in T : f[x] \in Nat /\ e[x] \in Nat /\ e[x] <= f[x]
  BY FS_Subset
<1>4. T # {}
  <2>1. IsFiniteSet({}) /\ Total(e, {}) = 0 /\ Total(f, {}) = 0
    BY FS_EmptySet, TotalFacts
  <2>2. QED
    BY <2>1
<1>5. PICK x : x \in T
  BY <1>4
<1>6. T \ {x} \in SUBSET S /\ T \ {x} \notin Bad /\ IsFiniteSet(T \ {x})
  BY <1>2, <1>3, <1>5, FS_Subset
<1>7. Total(e, T) = e[x] + Total(e, T \ {x}) /\ Total(f, T) = f[x] + Total(f, T \ {x})
  BY <1>3, <1>5, TotalFacts
<1>8. Total(e, T \ {x}) \in Nat /\ Total(f, T \ {x}) \in Nat
  BY <1>3, <1>6, TotalFacts
<1>9. QED
  BY <1>3, <1>5, <1>6, <1>7, <1>8

LEMMA TotalEqual ==
    ASSUME NEW S, IsFiniteSet(S), NEW f, \A x \in S : f[x] \in Nat,
           NEW e, \A x \in S : e[x] = f[x]
    PROVE  Total(e, S) = Total(f, S)
<1>1. \A x \in S : e[x] \in Nat /\ e[x] <= f[x] /\ f[x] <= e[x]
  OBVIOUS
<1>2. Total(e, S) <= Total(f, S) /\ Total(f, S) <= Total(e, S)
  BY <1>1, TotalCompared
<1>3. Total(e, S) \in Nat /\ Total(f, S) \in Nat
  BY <1>1, TotalFacts
<1>4. QED
  BY <1>2, <1>3

\* The sum over two disjoint sets.
LEMMA TotalSplits ==
    ASSUME NEW S, IsFiniteSet(S), NEW f, \A x \in S : f[x] \in Nat,
           NEW A \in SUBSET S, NEW B \in SUBSET S, A \cap B = {}
    PROVE  Total(f, A \cup B) = Total(f, A) + Total(f, B)
<1> DEFINE Bad == {T \in SUBSET B : Total(f, A \cup T) # Total(f, A) + Total(f, T)}
<1>0. IsFiniteSet(B)
  BY FS_Subset
<1>1. SUFFICES ASSUME Bad # {} PROVE FALSE
  OBVIOUS
<1>2. PICK T \in Bad : \A E \in Bad : E \subseteq T => E = T
  <2>1. Bad \in SUBSET (SUBSET B)
    OBVIOUS
  <2> HIDE DEF Bad
  <2>2. QED
    BY <1>0, <1>1, <2>1, MinimalSubset
<1>3. ASSUME NEW U \in SUBSET S
      PROVE  IsFiniteSet(U) /\ \A x \in U : f[x] \in Nat
  BY FS_Subset
<1>4. T # {}
  <2>1. Total(f, A) \in Nat /\ Total(f, {}) = 0
    BY <1>3, TotalFacts
  <2>2. QED
    BY <2>1
<1>5. PICK x : x \in T
  BY <1>4
<1>6. T \ {x} \in SUBSET B /\ T \ {x} \notin Bad
  BY <1>2, <1>5
<1>7. Total(f, T) = f[x] + Total(f, T \ {x})
  BY <1>3, <1>5, TotalFacts
<1>8. Total(f, A \cup T) = f[x] + Total(f, A \cup (T \ {x}))
  <2> DEFINE U == A \cup T
  <2>1. U \in SUBSET S /\ x \in U /\ U \ {x} = A \cup (T \ {x})
    BY <1>5
  <2>2. Total(f, U) = f[x] + Total(f, U \ {x})
    <3> HIDE DEF U
    <3>1. IsFiniteSet(U) /\ \A y \in U : f[y] \in Nat
      BY <1>3, <2>1
    <3>2. QED
      BY <2>1, <3>1, TotalFacts
  <2>3. QED
    BY <2>1, <2>2
<1>9. f[x] \in Nat /\ Total(f, A) \in Nat /\ Total(f, T \ {x}) \in Nat
  <2>1. T \ {x} \in SUBSET S /\ x \in S
    BY <1>5
  <2>2. QED
    BY <1>3, <2>1, TotalFacts
<1>10. QED
  BY <1>6, <1>7, <1>8, <1>9

\* What is 0 need not be summed.
LEMMA TotalOfPart ==
    ASSUME NEW S, IsFiniteSet(S), NEW f, \A x \in S : f[x] \in Nat,
           NEW A \in SUBSET S, \A x \in S \ A : f[x] = 0
    PROVE  Total(f, S) = Total(f, A)
<1> DEFINE Bad == {T \in SUBSET (S \ A) : Total(f, T) # 0}
<1>0. IsFiniteSet(S \ A) /\ IsFiniteSet(A)
  BY FS_Subset
<1>1. Bad = {}
  <2>1. SUFFICES ASSUME Bad # {} PROVE FALSE
    OBVIOUS
  <2>2. PICK T \in Bad : \A E \in Bad : E \subseteq T => E = T
    <3>1. Bad \in SUBSET (SUBSET (S \ A))
      OBVIOUS
    <3> HIDE DEF Bad
    <3>2. QED
      BY <1>0, <2>1, <3>1, MinimalSubset
  <2>3. IsFiniteSet(T) /\ \A x \in T : f[x] \in Nat /\ f[x] = 0
    BY FS_Subset
  <2>4. T # {}
    BY <2>3, TotalFacts
  <2>5. PICK x : x \in T
    BY <2>4
  <2>6. T \ {x} \in SUBSET (S \ A) /\ T \ {x} \notin Bad
    BY <2>2, <2>5
  <2>7. Total(f, T) = f[x] + Total(f, T \ {x})
    BY <2>3, <2>5, TotalFacts
  <2>8. QED
    BY <2>3, <2>5, <2>6, <2>7
<1>2. Total(f, S \ A) = 0
  BY <1>1
<1>3. Total(f, A) \in Nat
  BY <1>0, TotalFacts
<1> DEFINE B == S \ A
<1>4. S = A \cup B /\ A \cap B = {} /\ B \in SUBSET S /\ Total(f, B) = 0
  BY <1>2
<1> HIDE DEF B
<1>5. Total(f, A \cup B) = Total(f, A) + Total(f, B)
  BY <1>4, TotalSplits
<1>6. QED
  BY <1>3, <1>4, <1>5

\* The elements of I in one cell of a partition.
CellOf(I, cell, k) == {i \in I : cell[i] = k}

\* Every element of I is in one of the cells that J stands for, each in its own.
Partitions(J, key, I, cell) ==
    /\ \A i \in I : \E j \in J : cell[i] = key[j]
    /\ \A j, k \in J : key[j] = key[k] => j = k

\* A sum over the elements is the sum, over the cells of a partition, of the sums
\* over the cells.
LEMMA TotalOfCells ==
    ASSUME NEW I, IsFiniteSet(I), NEW f, \A i \in I : f[i] \in Nat,
           NEW J, IsFiniteSet(J), NEW cell, NEW key,
           Partitions(J, key, I, cell), NEW h, \A j \in J : h[j] = Total(f, CellOf(I, cell, key[j]))
    PROVE  Total(h, J) = Total(f, I)
<1> DEFINE In(K) == {i \in I : \E j \in K : cell[i] = key[j]}
           Bad == {K \in SUBSET J : Total(h, K) # Total(f, In(K))}
<1>1. Bad = {}
  <2>1. SUFFICES ASSUME Bad # {} PROVE FALSE
    OBVIOUS
  <2>2. PICK K \in Bad : \A E \in Bad : E \subseteq K => E = K
    <3>1. Bad \in SUBSET (SUBSET J)
      OBVIOUS
    <3> HIDE DEF Bad
    <3>2. QED
      BY <2>1, <3>1, MinimalSubset
  <2>3. ASSUME NEW A \in SUBSET I PROVE IsFiniteSet(A) /\ Total(f, A) \in Nat
    <3>1. IsFiniteSet(A) /\ \A i \in A : f[i] \in Nat
      BY FS_Subset
    <3>2. QED
      BY <3>1, TotalFacts
  <2>4. IsFiniteSet(K) /\ \A j \in K : h[j] \in Nat
    <3>1. \A j \in K : CellOf(I, cell, key[j]) \in SUBSET I /\ j \in J
      BY DEF CellOf
    <3>2. QED
      BY <2>3, <3>1, FS_Subset
  <2>5. K # {}
    <3>1. In({}) = {} /\ Total(f, {}) = 0 /\ Total(h, {}) = 0
      BY TotalFacts, <2>4
    <3>2. QED
      BY <3>1
  <2>6. PICK j : j \in K
    BY <2>5
  <2> DEFINE C == CellOf(I, cell, key[j])
  <2>7. K \ {j} \in SUBSET J /\ K \ {j} \notin Bad
    BY <2>2, <2>6
  <2>8. Total(h, K) = Total(f, C) + Total(h, K \ {j})
    <3>1. Total(h, K) = h[j] + Total(h, K \ {j})
      <4> HIDE DEF Bad, C
      <4>1. QED
        BY <2>4, <2>6, TotalFacts
    <3>2. h[j] = Total(f, C)
      BY <2>6
    <3>3. QED
      BY <3>1, <3>2
  <2>9. In(K) = C \cup In(K \ {j}) /\ C \cap In(K \ {j}) = {}
    BY <2>6 DEF CellOf, Partitions
  <2>10. C \in SUBSET I /\ In(K \ {j}) \in SUBSET I
    BY DEF CellOf
  <2> DEFINE D == In(K \ {j})
  <2>11. Total(f, In(K)) = Total(f, C) + Total(f, In(K \ {j}))
    <3>1. In(K) = C \cup D /\ C \cap D = {} /\ C \in SUBSET I /\ D \in SUBSET I
      BY <2>9, <2>10
    <3> HIDE DEF C, D, In
    <3>2. Total(f, C \cup D) = Total(f, C) + Total(f, D)
      BY <3>1, TotalSplits
    <3>3. QED
      BY <3>1, <3>2 DEF D
  <2> HIDE DEF C, D, In
  <2>12. QED
    BY <2>7, <2>8, <2>11
<1>2. In(J) = I
  BY DEF Partitions
<1>3. QED
  BY <1>1, <1>2

-----------------------------------------------------------------------------
(* The summary of batch_metrics.                                           *)

\* What a summary sums is the sum, whichever row of a set it takes first.
LEMMA SumOfIsTotal ==
    ASSUME NEW t, NEW I, IsFiniteSet(I), NEW field, NEW f,
           \A i \in I : f[i] \in Nat /\ t[i][field] = f[i]
    PROVE  SumOf(t, I, field) = Total(f, I)
<1> DEFINE pick(T) == CHOOSE x \in T : TRUE
           IsIter(g) == g = [T \in SUBSET I |-> IF T = {} THEN 0
                               ELSE t[pick(T)][field] + g[T \ {pick(T)}]]
           iter == CHOOSE g : IsIter(g)
<1>1. SumOf(t, I, field) = iter[I]
  BY DEF SumOf, MapThenSumSet, MapThenFoldSet
<1>2. PICK g : Sums(g, f, I)
  BY SumExists
<1>3. IsIter(g)
  <2>1. ASSUME NEW T \in SUBSET I
        PROVE  g[T] = IF T = {} THEN 0 ELSE t[pick(T)][field] + g[T \ {pick(T)}]
    <3>1. CASE T # {}
      <4>1. pick(T) \in T
        BY <3>1
      <4> HIDE DEF pick
      <4>2. QED
        BY <1>2, <3>1, <4>1 DEF Sums
    <3>2. QED
      BY <1>2, <3>1 DEF Sums
  <2> HIDE DEF pick
  <2>2. g = [T \in SUBSET I |-> g[T]]
    BY <1>2 DEF Sums
  <2>3. QED
    BY <2>1, <2>2
<1>4. IsIter(iter)
  <2> HIDE DEF IsIter
  <2>1. QED
    BY <1>3
<1>5. AddsUp(iter, f, I)
  <2>1. ASSUME NEW T \in SUBSET I
        PROVE  iter[T] = IF T = {} THEN 0 ELSE t[pick(T)][field] + iter[T \ {pick(T)}]
    <3> HIDE DEF iter, pick
    <3>1. QED
      BY <1>4
  <2>2. ASSUME NEW T \in SUBSET I, T # {} PROVE pick(T) \in T
    BY <2>2
  <2> HIDE DEF iter, pick, IsIter
  <2>3. QED
    BY <2>1, <2>2 DEF AddsUp
<1> HIDE DEF iter
<1>6. iter[I] = g[I]
  BY <1>2, <1>5, FoldIsSum
<1>7. \A x \in I : f[x] \in Nat
  OBVIOUS
<1>8. Sums(CHOOSE h : Sums(h, f, I), f, I)
  BY <1>2
<1>9. Total(f, I) = g[I]
  BY <1>2, <1>8, SumsAgree DEF Total
<1>10. QED
  BY <1>1, <1>6, <1>9

\* A finite set of numbers has a largest one.
LEMMA MaxExists ==
    ASSUME NEW T, IsFiniteSet(T), T # {}, \A x \in T : x \in Int
    PROVE  Max(T) \in T
<1> DEFINE NotBelow(x) == {y \in T : y >= x}
           Upper == {NotBelow(x) : x \in T}
<1>1. PICK D \in Upper : \A E \in Upper : E \subseteq D => E = D
  <2>1. Upper \in SUBSET (SUBSET T)
    OBVIOUS
  <2>2. Upper # {}
    OBVIOUS
  <2> HIDE DEF Upper, NotBelow
  <2>3. QED
    BY <2>1, <2>2, MinimalSubset
<1>2. PICK x \in T : D = NotBelow(x)
  OBVIOUS
<1>3. \A y \in T : x >= y
  <2>1. SUFFICES ASSUME NEW y \in T, y > x PROVE FALSE
    OBVIOUS
  <2>2. NotBelow(y) \subseteq NotBelow(x) /\ x \notin NotBelow(y) /\ x \in NotBelow(x)
    <3>1. \A z \in T : z >= y => z >= x
      BY <2>1
    <3>2. ~(x >= y) /\ x >= x
      BY <2>1
    <3>3. QED
      BY <3>1, <3>2
  <2>3. QED
    BY <1>1, <1>2, <2>2
<1>4. QED
  BY <1>3 DEF Max

\* The positions of a sequence.
LEMMA SequenceDomain ==
    ASSUME NEW X, NEW s \in Seq(X)
    PROVE  IsFiniteSet(DOMAIN s) /\ \A i \in DOMAIN s : i \in Int
<1>1. Len(s) \in Nat /\ DOMAIN s = 1..Len(s)
  OBVIOUS
<1>2. IsFiniteSet(1..Len(s))
  BY <1>1, FS_Interval
<1>3. QED
  BY <1>1, <1>2

\* Counting a table row by row gives the sum over the rows of the component.
LEMMA CountedIsTotal ==
    ASSUME NEW t, IsFiniteSet(DOMAIN t), \A i \in DOMAIN t : i \in Int,
           NEW c, NEW field, NEW f,
           \A i \in DOMAIN t :
              f[i] \in Nat /\ f[i] = IF Passes(c, t[i].component) THEN t[i][field] ELSE 0
    PROVE  Counted(t, c, field) = Total(f, DOMAIN t)
<1> DEFINE I == DOMAIN t
           add(x, m) == IF Passes(c, t[x].component) THEN m + t[x][field] ELSE m
           IsIter(g) == g = [T \in SUBSET I |-> IF T = {} THEN 0
                               ELSE add(Max(T), g[T \ {Max(T)}])]
           iter == CHOOSE g : IsIter(g)
<1>0. IsFiniteSet(I)
  OBVIOUS
<1>1. Counted(t, c, field) = iter[I]
  BY DEF Counted, FoldLeft, MapThenFoldSet
<1>2. PICK g : Sums(g, f, I)
  BY <1>0, SumExists
<1>3. ASSUME NEW T \in SUBSET I, T # {}
      PROVE  Max(T) \in T /\ T \ {Max(T)} \in SUBSET I
  <2>1. \A x \in T : x \in Int
    OBVIOUS
  <2>2. IsFiniteSet(T)
    BY <1>0, FS_Subset
  <2>3. Max(T) \in T
    BY <1>3, <2>1, <2>2, MaxExists
  <2>4. QED
    BY <2>3
<1>4. \A x \in I : \A m \in Nat : add(x, m) = f[x] + m
  OBVIOUS
<1> HIDE DEF add
<1>5. IsIter(g)
  <2>1. ASSUME NEW T \in SUBSET I
        PROVE  g[T] = IF T = {} THEN 0 ELSE add(Max(T), g[T \ {Max(T)}])
    <3>1. CASE T # {}
      <4>1. Max(T) \in T /\ T \ {Max(T)} \in SUBSET I
        BY <1>3, <3>1
      <4>2. g[T \ {Max(T)}] \in Nat /\ g[T] = f[Max(T)] + g[T \ {Max(T)}]
        BY <1>2, <4>1 DEF Sums
      <4>3. QED
        BY <1>4, <3>1, <4>1, <4>2
    <3>2. QED
      BY <1>2, <3>1 DEF Sums
  <2>2. g = [T \in SUBSET I |-> g[T]]
    BY <1>2 DEF Sums
  <2>3. QED
    BY <2>1, <2>2
<1>6. IsIter(iter)
  <2> HIDE DEF IsIter
  <2>1. QED
    BY <1>5
<1>7. iter[I] = g[I]
  <2>1. ASSUME NEW T \in SUBSET I
        PROVE  iter[T] = IF T = {} THEN 0 ELSE add(Max(T), iter[T \ {Max(T)}])
    <3> HIDE DEF iter
    <3>1. QED
      BY <1>6
  <2> HIDE DEF iter, I
  <2> DEFINE Bad == {T \in SUBSET I : iter[T] # g[T]}
  <2>2. SUFFICES ASSUME Bad # {} PROVE FALSE
    OBVIOUS
  <2>3. PICK T \in Bad : \A E \in Bad : E \subseteq T => E = T
    <3>1. Bad \in SUBSET (SUBSET I)
      OBVIOUS
    <3> HIDE DEF Bad
    <3>2. QED
      BY <1>0, <2>2, <3>1, MinimalSubset
  <2>4. T # {}
    BY <2>1, <1>2 DEF Sums
  <2>5. Max(T) \in T /\ T \ {Max(T)} \in SUBSET I
    BY <2>4, <1>3
  <2>6. T \ {Max(T)} \notin Bad
    BY <2>3, <2>5
  <2>7. iter[T] = add(Max(T), iter[T \ {Max(T)}])
    BY <2>1, <2>4
  <2>8. g[T] = f[Max(T)] + g[T \ {Max(T)}] /\ g[T \ {Max(T)}] \in Nat
    BY <1>2, <2>5 DEF Sums
  <2>9. add(Max(T), iter[T \ {Max(T)}]) = g[T]
    BY <1>4, <2>5, <2>6, <2>8
  <2>10. QED
    BY <2>7, <2>9
<1>8. Sums(CHOOSE h : Sums(h, f, I), f, I)
  BY <1>2
<1> HIDE DEF I, iter
<1>9. Total(f, I) = g[I]
  BY <1>0, <1>2, <1>8, SumsAgree DEF Total
<1>10. QED
  BY <1>1, <1>7, <1>9 DEF I
\* A quotient is at least k exactly if k divisors fit.
LEMMA DivAtLeast ==
    ASSUME NEW x \in Nat, NEW m \in Nat, m > 0, NEW k \in Nat
    PROVE  x \div m >= k <=> x >= m * k
<1> DEFINE q == x \div m
           r == x % m
<1>1. x = m * q + r /\ r \in 0..m-1 /\ q \in Nat
  OBVIOUS
<1> HIDE DEF q, r
<1>2. CASE q >= k
  <2>1. m * q >= m * k
    BY <1>1, <1>2
  <2>2. QED
    BY <1>1, <1>2, <2>1
<1>3. CASE q < k
  <2>1. q + 1 <= k
    BY <1>1, <1>3
  <2>2. m * (q + 1) <= m * k
    BY <1>1, <2>1
  <2>3. m * (q + 1) = m * q + m
    BY <1>1
  <2>4. QED
    BY <1>1, <1>3, <2>2, <2>3
<1>4. QED
  BY <1>1, <1>2, <1>3 DEF q

\* The rate is a percentage; below 20000 events rounding reaches neither end too early.
LEMMA RateFacts ==
    ASSUME NEW t \in Nat, t > 0, NEW a \in Nat, a <= t
    PROVE  /\ Rate(a, t) \in Percentage
           /\ t < 20000 => /\ Rate(a, t) = 0 <=> a = 0
                           /\ Rate(a, t) = 10000 <=> a = t
<1> DEFINE x == 20000 * a + t
           q == x \div (2 * t)
<1>1. x \in Nat /\ 2 * t \in Nat /\ 2 * t > 0
  OBVIOUS
<1>2. q \in Nat
  BY <1>1
<1>3. ASSUME NEW k \in Nat PROVE q >= k <=> x >= (2 * t) * k
  BY <1>1, DivAtLeast
<1>4. q >= 1 <=> 20000 * a >= t
  BY <1>3
<1>5. q >= 10000 <=> 20000 * a + t >= 20000 * t
  BY <1>3
<1>6. q >= 10001 <=> 20000 * a + t >= 20002 * t
  BY <1>3
<1> HIDE DEF q
<1>7. q <= 10000
  BY <1>2, <1>6
<1>8. t < 20000 => (q = 0 <=> a = 0) /\ (q = 10000 <=> a = t)
  BY <1>2, <1>4, <1>5, <1>7
<1>9. QED
  BY <1>2, <1>7, <1>8 DEF Rate, Percentage, q

\* The anomalies of a row are among its events, and what the last answer about metrics
\* counts the table still holds.
SummaryInv ==
    /\ metrics \in Seq(MetricRow)
    /\ \A i \in DOMAIN metrics : metrics[i].anomalies <= metrics[i].total
    /\ SummaryCountsEveryRow

\* The rows of a summary stand for the cells of a partition of the rows it is asked for.
LEMMA SummaryIsRight ==
    ASSUME metrics \in Seq(MetricRow),
           \A i \in DOMAIN metrics : metrics[i].anomalies <= metrics[i].total,
           NEW c, NEW r \in Summary(c)
    PROVE  Summarises(r, metrics, c)
<1> DEFINE D == DOMAIN metrics
           I == {i \in D : Passes(c, metrics[i].component)}
           Of(x, d) == {i \in I : metrics[i].component = x /\ metrics[i].day = d}
           Sum(x, d, field) == SumOf(metrics, Of(x, d), field)
           Row(x, d) == [component |-> x, day |-> d, total |-> Sum(x, d, "total"),
                         anomalies |-> Sum(x, d, "anomalies"),
                         rate |-> Rate(Sum(x, d, "anomalies"), Sum(x, d, "total"))]
           R == {Row(metrics[i].component, metrics[i].day) : i \in I}
           f(field) == [i \in I |-> metrics[i][field]]
<1>1. /\ IsFiniteSet(D) /\ I \in SUBSET D /\ \A i \in D : i \in Int
      /\ \A i \in D : /\ metrics[i].day \in Int /\ metrics[i].total \in Nat
                       /\ metrics[i].anomalies \in Nat /\ metrics[i].total > 0
                       /\ metrics[i].anomalies <= metrics[i].total
  <2>1. \A i \in DOMAIN metrics : metrics[i] \in MetricRow
    OBVIOUS
  <2>2. IsFiniteSet(D) /\ \A i \in D : i \in Int
    BY SequenceDomain
  <2>3. QED
    BY <2>1, <2>2 DEF MetricRow, Day
<1>2. /\ r \in SetToSeqs(R)
      /\ \A i, j \in DOMAIN r :
            \/ r[i].day > r[j].day
            \/ r[i].day = r[j].day /\ r[i].anomalies > r[j].anomalies
            => i < j
  BY DEF Summary, OrderedBy
<1>3. IsFiniteSet(I)
  <2> HIDE DEF I, D
  <2>1. QED
    BY <1>1, FS_Subset
<1>4. IsFiniteSet(R)
  <2> DEFINE row == [i \in I |-> Row(metrics[i].component, metrics[i].day)]
  <2>1. row \in Surjection(I, R)
    <3> HIDE DEF Row, I
    <3>1. QED
      BY DEF Surjection
  <2> HIDE DEF I, R, row
  <2>2. QED
    BY <1>3, <2>1, FS_Surjection
<1> HIDE DEF D
<1>5. /\ r \in Seq(R) /\ IsInjective(r)
  <2> HIDE DEF R
  <2>1. QED
    BY <1>2, <1>4, OrderedOnce
<1>6. \A p \in DOMAIN r : \E i \in I : r[p] = Row(metrics[i].component, metrics[i].day)
  <2>1. \A p \in DOMAIN r : r[p] \in R
    <3> HIDE DEF R
    <3>1. QED
      BY <1>5
  <2> HIDE DEF Row, I
  <2>2. QED
    BY <2>1
<1>7. \A i \in I : \E p \in DOMAIN r : r[p] = Row(metrics[i].component, metrics[i].day)
  <2>1. \A q \in R : \E p \in DOMAIN r : r[p] = q
    <3> HIDE DEF R
    <3>1. QED
      BY <1>2, <1>4, OrderedOnce
  <2>2. ASSUME NEW i \in I PROVE Row(metrics[i].component, metrics[i].day) \in R
    OBVIOUS
  <2> HIDE DEF R, Row, I
  <2>3. QED
    BY <2>1, <2>2
<1> HIDE DEF R
<1>8. ASSUME NEW field \in {"total", "anomalies"}, NEW A \in SUBSET I
      PROVE  /\ IsFiniteSet(A) /\ \A i \in A : f(field)[i] \in Nat
             /\ SumOf(metrics, A, field) = Total(f(field), A)
  <2>1. IsFiniteSet(A)
    BY <1>3, FS_Subset
  <2>2. \A i \in A : f(field)[i] \in Nat /\ metrics[i][field] = f(field)[i]
    BY <1>1
  <2> HIDE DEF f, I
  <2>3. QED
    BY <2>1, <2>2, SumOfIsTotal
<1>9. ASSUME NEW p \in DOMAIN r
      PROVE  /\ \A field \in {"total", "anomalies"} :
                    r[p][field] = Total(f(field), Of(r[p].component, r[p].day))
             /\ r[p] = Row(r[p].component, r[p].day)
             /\ \E i \in Of(r[p].component, r[p].day) : TRUE
             /\ r[p].day \in Int
  <2>1. PICK i \in I : r[p] = Row(metrics[i].component, metrics[i].day)
    BY <1>6
  <2>2. r[p].component = metrics[i].component /\ r[p].day = metrics[i].day
    BY <2>1
  <2>3. i \in Of(r[p].component, r[p].day) /\ Of(r[p].component, r[p].day) \in SUBSET I
    BY <2>2
  <2>4. r[p] = Row(r[p].component, r[p].day)
    BY <2>1, <2>2
  <2>5. ASSUME NEW field \in {"total", "anomalies"}
        PROVE  r[p][field] = Sum(r[p].component, r[p].day, field)
    <3> HIDE DEF Sum, I
    <3>1. /\ r[p].total = Sum(metrics[i].component, metrics[i].day, "total")
          /\ r[p].anomalies = Sum(metrics[i].component, metrics[i].day, "anomalies")
      BY <2>1
    <3>2. QED
      BY <2>2, <3>1
  <2> HIDE DEF Of, I, Row, f
  <2>6. QED
    BY <1>1, <1>8, <2>2, <2>3, <2>4, <2>5 DEF I
<1> DEFINE Key(p) == <<r[p].component, r[p].day>>
<1>10. \A p, q \in DOMAIN r : Key(p) = Key(q) => p = q
  <2>1. ASSUME NEW p \in DOMAIN r, NEW q \in DOMAIN r, Key(p) = Key(q) PROVE r[p] = r[q]
    <3>1. r[p].component = r[q].component /\ r[p].day = r[q].day
      BY <2>1
    <3> HIDE DEF Row
    <3>2. QED
      BY <1>9, <3>1
  <2>2. QED
    BY <1>5, <2>1 DEF IsInjective
<1>11. ASSUME NEW field \in {"total", "anomalies"}
       PROVE  Counted(r, "all", field) = Counted(metrics, c, field)
  <2> DEFINE m == DOMAIN r
             e == [i \in D |-> IF Passes(c, metrics[i].component) THEN metrics[i][field]
                                                                      ELSE 0]
             h == [p \in m |-> r[p][field]]
             cell == [i \in I |-> <<metrics[i].component, metrics[i].day>>]
             key == [p \in m |-> Key(p)]
  <2>1. IsFiniteSet(m) /\ \A p \in m : p \in Int
    BY <1>5, SequenceDomain
  <2>2. Counted(metrics, c, field) = Total(e, D)
    <3>1. \A i \in D : e[i] \in Nat
              /\ e[i] = IF Passes(c, metrics[i].component) THEN metrics[i][field] ELSE 0
      BY <1>1
    <3> HIDE DEF e
    <3>2. QED
      BY <1>1, <3>1, CountedIsTotal DEF D
  <2>3. Total(e, D) = Total(f(field), I)
    <3>1. /\ \A i \in D : e[i] \in Nat
          /\ \A i \in D \ I : e[i] = 0
          /\ \A i \in I : e[i] = f(field)[i] /\ f(field)[i] \in Nat
      BY <1>1
    <3> HIDE DEF e, f, I
    <3>2. Total(e, D) = Total(e, I)
      BY <1>1, <1>3, <3>1, TotalOfPart
    <3>3. QED
      BY <1>3, <3>1, <3>2, TotalEqual
  <2>4. \A p \in m : h[p] = Total(f(field), CellOf(I, cell, key[p]))
    <3>1. ASSUME NEW p \in m
          PROVE  CellOf(I, cell, key[p]) = Of(r[p].component, r[p].day)
      BY DEF CellOf
    <3> HIDE DEF Of, f, cell, key
    <3>2. QED
      BY <1>9, <2>1, <3>1
  <2>5. Total(h, m) = Total(f(field), I)
    <3>1. ASSUME NEW i \in I PROVE \E p \in m : cell[i] = key[p]
      <4>1. PICK p \in m : r[p] = Row(metrics[i].component, metrics[i].day)
        BY <1>7
      <4>2. r[p].component = metrics[i].component /\ r[p].day = metrics[i].day
        <5> HIDE DEF Sum
        <5>1. QED
          BY <4>1
      <4>3. QED
        BY <4>2
    <3>2. \A p, q \in m : key[p] = key[q] => p = q
      BY <1>10, <2>1
    <3>3. \A i \in I : f(field)[i] \in Nat
      BY <1>8
    <3>4. Partitions(m, key, I, cell)
      BY <3>1, <3>2 DEF Partitions
    <3> HIDE DEF I, f, h, cell, key, m
    <3>5. QED
      BY <1>3, <2>1, <2>4, <3>3, <3>4, TotalOfCells
  <2>6. Counted(r, "all", field) = Total(h, m)
    <3>1. \A p \in m : r[p][field] \in Nat
      <4>1. \A p \in m : Of(r[p].component, r[p].day) \in SUBSET I
        OBVIOUS
      <4> HIDE DEF Of, I, f
      <4>2. QED
        BY <1>8, <1>9, <2>1, <4>1, TotalFacts
    <3>2. \A p \in m : h[p] \in Nat
              /\ h[p] = IF Passes("all", r[p].component) THEN r[p][field] ELSE 0
      BY <3>1 DEF Passes
    <3> HIDE DEF h, m
    <3>3. QED
      BY <2>1, <3>2, CountedIsTotal DEF m
  <2>7. QED
    BY <2>2, <2>3, <2>5, <2>6
<1>12. ASSUME NEW p \in DOMAIN r, NEW q \in DOMAIN r, p < q
       PROVE  Key(p) # Key(q) /\ r[p].day >= r[q].day
  <2>1. p # q /\ ~(q < p)
    BY <1>5, <1>12
  <2>2. Key(p) # Key(q)
    BY <1>10, <2>1
  <2>3. ~(r[q].day > r[p].day)
    BY <1>2, <2>1
  <2>4. r[p].day \in Int /\ r[q].day \in Int
    BY <1>9
  <2>5. QED
    BY <2>2, <2>3, <2>4
<1>13. ASSUME NEW p \in DOMAIN r
       PROVE  /\ r[p].rate \in Percentage
              /\ r[p].total < 20000 =>
                    /\ r[p].rate = 0 <=> r[p].anomalies = 0
                    /\ r[p].rate = 10000 <=> r[p].anomalies = r[p].total
  <2> DEFINE A == Of(r[p].component, r[p].day)
  <2>1. /\ r[p].total = Total(f("total"), A) /\ r[p].anomalies = Total(f("anomalies"), A)
        /\ \E i \in A : TRUE
    BY <1>9
  <2>2. A \in SUBSET I
    OBVIOUS
  <2>3. r[p].rate = Rate(r[p].anomalies, r[p].total)
    <3>1. r[p] = Row(r[p].component, r[p].day)
      BY <1>9
    <3> HIDE DEF Sum
    <3>2. QED
      BY <3>1
  <2>4. \A i \in A : f("total")[i] > 0 /\ f("anomalies")[i] <= f("total")[i]
    BY <1>1
  <2> HIDE DEF A
  <2>5. IsFiniteSet(A) /\ \A i \in A : f("total")[i] \in Nat /\ f("anomalies")[i] \in Nat
    BY <1>8, <2>2
  <2> HIDE DEF f
  <2>6. r[p].anomalies <= r[p].total
    BY <2>1, <2>4, <2>5, TotalCompared
  <2>7. r[p].anomalies \in Nat /\ r[p].total \in Nat /\ r[p].total > 0
    <3>1. PICK i \in A : TRUE
      BY <2>1
    <3>2. IsFiniteSet(A \ {i}) /\ A \ {i} \in SUBSET A
      BY <2>5, FS_Subset
    <3>3. /\ Total(f("total"), A) = f("total")[i] + Total(f("total"), A \ {i})
          /\ Total(f("total"), A) \in Nat /\ Total(f("anomalies"), A) \in Nat
          /\ Total(f("total"), A \ {i}) \in Nat
      BY <2>5, <3>2, TotalFacts
    <3>4. QED
      BY <2>1, <2>4, <2>5, <3>3
  <2> DEFINE a == r[p].anomalies
             t == r[p].total
  <2>8. /\ Rate(a, t) \in Percentage
        /\ t < 20000 => (Rate(a, t) = 0 <=> a = 0) /\ (Rate(a, t) = 10000 <=> a = t)
    <3>1. a \in Nat /\ t \in Nat /\ t > 0 /\ a <= t
      BY <2>6, <2>7
    <3> HIDE DEF a, t
    <3>2. QED
      BY <3>1, RateFacts
  <2>9. QED
    BY <2>3, <2>8
<1>14. QED
  BY <1>11, <1>12, <1>13 DEF Summarises

LEMMA SummaryKept ==
    ASSUME SummaryInv, [ApiNext]_apiVars
    PROVE  SummaryInv'
<1>1. CASE UNCHANGED <<metrics, answer>>
  BY <1>1 DEF SummaryInv, SummaryCountsEveryRow
<1>2. CASE answer'.to # "metrics" /\ UNCHANGED metrics
  BY <1>2 DEF SummaryInv, SummaryCountsEveryRow
<1>3. CASE InsertAlert \/ UpsertHealth
  BY <1>2, <1>3 DEF InsertAlert, UpsertHealth, NoAnswer
<1>4. CASE AppendMetrics
  <2>1. PICK r \in MetricRow : r.anomalies <= r.total /\ metrics' = Append(metrics, r)
    BY <1>4 DEF AppendMetrics
  <2>2. /\ metrics \in Seq(MetricRow)
        /\ \A i \in DOMAIN metrics : metrics[i].anomalies <= metrics[i].total
    BY DEF SummaryInv
  <2>3. metrics' \in Seq(MetricRow) /\ Len(metrics') = Len(metrics) + 1
    BY <2>1, <2>2
  <2>4. \A i \in DOMAIN metrics' : metrics'[i] = IF i = Len(metrics) + 1 THEN r ELSE metrics[i]
    BY <2>1, <2>2
  <2>5. \A i \in DOMAIN metrics' : metrics'[i].anomalies <= metrics'[i].total
    BY <2>1, <2>2, <2>3, <2>4
  <2>6. answer'.to # "metrics"
    BY <1>4 DEF AppendMetrics, NoAnswer
  <2>7. QED
    BY <2>3, <2>5, <2>6 DEF SummaryInv, SummaryCountsEveryRow
<1>5. CASE GetRecentAlerts \/ GetComponentHealth \/ GetAlertSummary
  BY <1>2, <1>5 DEF GetRecentAlerts, GetComponentHealth, GetAlertSummary, Respond, tables,
                    OrderedBy
<1>6. CASE GetMetricsSummary
  <2>1. PICK c \in Component \cup {"all"} :
          Respond({[to |-> "metrics", component |-> c, rows |-> r] : r \in Summary(c)})
    BY <1>6 DEF GetMetricsSummary
  <2>2. CASE answer' = [to |-> "unavailable"]
    BY <1>2, <2>1, <2>2 DEF Respond, tables
  <2>3. ASSUME NEW r \in Summary(c), answer' = [to |-> "metrics", component |-> c, rows |-> r]
        PROVE  SummaryInv'
    <3>1. metrics' = metrics
      BY <2>1 DEF Respond, tables
    <3>2. answer'.rows = r /\ answer'.component = c
      BY <2>3
    <3>3. Summarises(r, metrics, c)
      BY <2>3, SummaryIsRight DEF SummaryInv
    <3>4. QED
      BY <3>1, <3>2, <3>3 DEF SummaryInv, SummaryCountsEveryRow
  <2>4. QED
    BY <2>1, <2>2, <2>3 DEF Respond
<1>7. QED
  BY <1>1, <1>3, <1>4, <1>5, <1>6 DEF ApiNext, AlertsNext, MetricsNext, apiVars, tables

\* What the last summary says of batch_metrics stays true until the table changes.
THEOREM SummaryInvariance == ApiSpec => []SummaryInv
<1>1. ApiInit => SummaryInv
  BY DEF ApiInit, SummaryInv, SummaryCountsEveryRow, NoAnswer
<1>2. SummaryInv /\ [ApiNext]_apiVars => SummaryInv'
  BY SummaryKept
<1>3. QED
  BY <1>1, <1>2, PTL DEF ApiSpec

\* For a table of any length, alike rows, any filter and order of ties: the summary counts
\* every event and every anomaly of batch_metrics in exactly one row, newest days first,
\* with a rate that is a percentage and, below 20000 events, exact at both ends.
THEOREM SummaryIsComplete == ApiSpec => []SummaryCountsEveryRow
<1>1. SummaryInv => SummaryCountsEveryRow
  BY DEF SummaryInv
<1>2. QED
  BY <1>1, SummaryInvariance, PTL

=============================================================================
