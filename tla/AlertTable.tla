----------------------------- MODULE AlertTable ------------------------------
(***************************************************************************)
(* The table anomaly_alerts_pg and the three programs that insert into it: *)
(* the streaming job (_write_anomaly_alerts_pg), the gateway (for what it  *)
(* reads from critical-alerts) and insert_alerts.py (for what an operator  *)
(* saved of that topic in alerts.json).  Each makes a fresh alert_id for a *)
(* row, so the only unique column never conflicts.                         *)
(***************************************************************************)
EXTENDS Integers, Sequences, FiniteSets, SequencesExt

CONSTANTS Batches,    \* the anomalies of each micro-batch, in order, all different
          Timed,      \* those with an event_time
          Unsendable, \* those no client can send: a NUL in the message
          MaxStarts,  \* bound: how many times the job is started
          MaxImports, \* bound: how many times insert_alerts.py is run
          MaxFaults   \* bound: how many calls fail

Anomaly == UNION {ToSet(Batches[b]) : b \in DOMAIN Batches}

ASSUME BatchesAssumption ==
    /\ Batches \in Seq(Seq(Anomaly))
    /\ \A b \in DOMAIN Batches : IsInjective(Batches[b])
    /\ \A b, c \in DOMAIN Batches : b # c => ToSet(Batches[b]) \cap ToSet(Batches[c]) = {}

ASSUME TimedAssumption == Timed \subseteq Anomaly

Session == {"job", "import"}        \* the two clients that use psycopg2
Writer  == Session \cup {"gateway"}

VARIABLES
    batch,    \* the micro-batch the job is at
    at,       \* where process() is: "publish", "insert" or "checkpoint"
    topic,    \* critical-alerts
    position, \* how much of it the gateway has consumed
    file,     \* alerts.json
    session,  \* the transaction of each psycopg2 client, if it has one
    rows,     \* the rows of each anomaly, by the program that wrote them
    said,     \* the row count the last finished insert_alerts.py printed
    stored,   \* how many rows it did store
    starts,   \* how many times the job was started
    imports,  \* how many times insert_alerts.py was run
    nfaults,  \* how many calls to Kafka failed
    dbFaults  \* how many calls to PostgreSQL failed

jobVars    == <<batch, at, starts>>
importVars == <<file, said, stored, imports>>
vars == <<jobVars, topic, position, session, rows, importVars, nfaults, dbFaults>>

CanFault == nfaults + dbFaults < MaxFaults
DbFault  == CanFault /\ dbFaults' = dbFaults + 1

NoSession == [open |-> FALSE, todo |-> <<>>, staged |-> {}, aborted |-> FALSE, count |-> 0]
Begin(todo) == [NoSession EXCEPT !.open = TRUE, !.todo = todo]

-----------------------------------------------------------------------------
(* The two clients of psycopg2: a transaction, a row at a time.            *)

\* Mutant of Stage: the connection is in autocommit mode.
StageAutocommit(w, i, a) == rows' = [rows EXCEPT ![w][a] = @ + 1]

\* A row sent becomes part of the transaction.
Stage(w, i, a) == UNCHANGED rows

\* Mutant of Refuse: the row is counted before it is sent.
RefuseCounted(s) == [s EXCEPT !.todo = Tail(@), !.count = @ + 1]

\* The driver refuses a row before it sends it: the loop goes on.
Refuse(s) == [s EXCEPT !.todo = Tail(@)]

\* execute() of the next row.  Once a statement failed the transaction is
\* aborted: each later one fails, is printed, and the loop goes on.
Execute(w) ==
    LET s == session[w]
        a == Head(s.todo)
        i == s.count + 1
    IN /\ s.open /\ s.todo # <<>>
       /\ \/ /\ a \in Unsendable
             /\ session' = [session EXCEPT ![w] = Refuse(s)]
             /\ UNCHANGED <<rows, dbFaults>>
          \/ /\ a \notin Unsendable /\ s.aborted
             /\ session' = [session EXCEPT ![w].todo = Tail(s.todo)]
             /\ UNCHANGED <<rows, dbFaults>>
          \/ /\ a \notin Unsendable /\ ~s.aborted
             /\ session' = [session EXCEPT ![w] = [s EXCEPT !.todo = Tail(@), !.count = i,
                                                            !.staged = @ \cup {<<i, a>>}]]
             /\ Stage(w, i, a)
             /\ UNCHANGED dbFaults
          \/ /\ a \notin Unsendable /\ ~s.aborted
             /\ session' = [session EXCEPT ![w] = [s EXCEPT !.todo = Tail(@), !.aborted = TRUE]]
             /\ DbFault
             /\ UNCHANGED rows
       /\ UNCHANGED <<jobVars, topic, position, importVars, nfaults>>

\* commit(): of an aborted transaction, PostgreSQL makes it a rollback and
\* reports no error.
CommitRows(w) ==
    LET s == session[w]
        n(a) == Cardinality({r \in s.staged : r[2] = a})
    IN rows' = IF s.aborted THEN rows
               ELSE [rows EXCEPT ![w] = [a \in Anomaly |-> @[a] + n(a)]]

-----------------------------------------------------------------------------
(* The streaming job.                                                      *)

\* _publish_alerts: a failed write may have sent some of the records.
Publish ==
    /\ at = "publish" /\ batch <= Len(Batches)
    /\ \/ /\ topic' = topic \o Batches[batch]
          /\ UNCHANGED nfaults
       \/ /\ CanFault /\ nfaults' = nfaults + 1
          /\ \E n \in 0..Len(Batches[batch]) - 1 :
                topic' = topic \o SubSeq(Batches[batch], 1, n)
    /\ at' = "insert"
    /\ UNCHANGED <<batch, starts, position, session, rows, importVars, dbFaults>>

\* _write_anomaly_alerts_pg connects; without a connection the rows are lost.
JobConnect ==
    /\ at = "insert" /\ ~session["job"].open
    /\ \/ /\ session' = [session EXCEPT !["job"] = Begin(Batches[batch])]
          /\ UNCHANGED <<at, dbFaults>>
       \/ DbFault /\ at' = "checkpoint" /\ UNCHANGED session
    /\ UNCHANGED <<batch, starts, topic, position, rows, importVars, nfaults>>

\* A failed commit is logged like any other failure: the batch goes on.
JobCommit ==
    /\ session["job"].open /\ session["job"].todo = <<>>
    /\ \/ CommitRows("job") /\ UNCHANGED dbFaults
       \/ DbFault /\ UNCHANGED rows
    /\ session' = [session EXCEPT !["job"] = NoSession]
    /\ at' = "checkpoint"
    /\ UNCHANGED <<batch, starts, topic, position, importVars, nfaults>>

Checkpoint ==
    /\ at = "checkpoint"
    /\ batch' = batch + 1 /\ at' = "publish"
    /\ UNCHANGED <<starts, topic, position, session, rows, importVars, nfaults, dbFaults>>

\* The driver dies and is started again: the batch that has no checkpoint is
\* processed once more, and a transaction that was open is rolled back.
Restart ==
    /\ starts < MaxStarts /\ starts' = starts + 1
    /\ at' = "publish" /\ session' = [session EXCEPT !["job"] = NoSession]
    /\ UNCHANGED <<batch, topic, position, rows, importVars, nfaults, dbFaults>>

-----------------------------------------------------------------------------
(* The gateway.                                                            *)

\* Mutant of Insertable: the timestamp is parsed before it is bound.
InsertableParsed(a) == a \notin Unsendable

\* asyncpg binds a value cast to a timestamp as a datetime and raises for the
\* string of the alert: only an alert without a timestamp can be inserted.
Insertable(a) == a \notin Unsendable /\ a \notin Timed

Consume ==
    /\ position < Len(topic) /\ position' = position + 1
    /\ LET a == topic[position + 1]
       IN \/ /\ rows' = IF Insertable(a) THEN [rows EXCEPT !["gateway"][a] = @ + 1] ELSE rows
             /\ UNCHANGED dbFaults
          \/ Insertable(a) /\ DbFault /\ UNCHANGED rows
    /\ UNCHANGED <<jobVars, topic, session, importVars, nfaults>>

-----------------------------------------------------------------------------
(* insert_alerts.py.                                                       *)

\* An operator saves what the topic holds; main() inserts every line of it.
Import ==
    /\ imports < MaxImports /\ imports' = imports + 1 /\ ~session["import"].open
    /\ file' \in {file, topic}
    /\ session' = [session EXCEPT !["import"] = Begin(file')]
    /\ UNCHANGED <<jobVars, topic, position, rows, said, stored, nfaults, dbFaults>>

\* "Successfully inserted {count} alerts into anomaly_alerts_pg."
Printed(s) == s.count

ImportCommit ==
    LET s == session["import"]
    IN /\ s.open /\ s.todo = <<>>
       /\ \/ /\ CommitRows("import")
             /\ said' = Printed(s)
             /\ stored' = IF s.aborted THEN 0 ELSE Cardinality(s.staged)
             /\ UNCHANGED dbFaults
          \/ DbFault /\ UNCHANGED <<rows, said, stored>>
       /\ session' = [session EXCEPT !["import"] = NoSession]
       /\ UNCHANGED <<jobVars, topic, position, file, imports, nfaults>>

-----------------------------------------------------------------------------
Init == /\ batch = 1 /\ at = "publish" /\ topic = <<>> /\ position = 0 /\ file = <<>>
        /\ session = [w \in Session |-> NoSession]
        /\ rows = [w \in Writer |-> [a \in Anomaly |-> 0]]
        /\ said = 0 /\ stored = 0
        /\ starts = 1 /\ imports = 0 /\ nfaults = 0 /\ dbFaults = 0

Next == \/ Publish \/ JobConnect \/ JobCommit \/ Checkpoint \/ Restart
        \/ Consume \/ Import \/ ImportCommit
        \/ \E w \in Session : Execute(w)

Spec == Init /\ [][Next]_vars

-----------------------------------------------------------------------------
(* Properties.                                                             *)

Sendable(b) == ToSet(Batches[b]) \ Unsendable

\* The rows of a micro-batch go into the table together: whatever statement of
\* it fails and whenever the job dies, no reader sees a part of a batch
\* (stream_processor.py:359 to 383, one commit after the loop).
WholeBatches == \A b \in DOMAIN Batches : \A a1, a2 \in Sendable(b) :
                   rows["job"][a1] = rows["job"][a2]

\* "No dependency on FastAPI's Kafka consumer": as long as PostgreSQL answers,
\* every anomaly of a finished batch is in the table, also one whose alert was
\* never published, and a row that cannot be sent takes no other row with it.
StoredWithoutKafka == dbFaults = 0 =>
    \A b \in 1..batch - 1 : \A a \in Sendable(b) : rows["job"][a] >= 1

\* What the job stores of its batches, and how.
BatchesStored == WholeBatches /\ StoredWithoutKafka

\* The job and the gateway both insert an alert, under ids that never conflict.
\* An anomaly with an event time still has one row, as long as the job was not
\* restarted and no file was imported: the gateway's own insert of it fails.
TimedOnce == starts = 1 /\ imports = 0 =>
    \A a \in Timed : rows["job"][a] + rows["gateway"][a] + rows["import"][a] <= 1

\* "Successfully inserted {count} alerts" (insert_alerts.py:51) is the number of
\* rows stored as long as PostgreSQL answers, although main() counts in a loop that
\* swallows the error of each row; once a statement failed it need not be, for the
\* commit of the aborted transaction stores nothing and raises nothing.
ImportReportsStored == dbFaults = 0 => said = stored

=============================================================================
