# Verification of the AIOps log pipeline

TLA+ models of the AIOps distributed-log pipeline, the TLC runs that check them on
small instances, and TLAPS proofs about them. `PROJECT.json` lists every component,
run, mutant, finding, hazard and theorem, and maps each definition to the source
lines it stands for.

    tlc -workers 2 -config MCStreamProcessor.cfg MCStreamProcessor
    tlc -workers 2 -config MCChaos.cfg MCChaos
    for m in *_proofs.tla; do tlapm $m; done

## 1. The system

    log_replay -> system.log -> Fluentd -> Kafka system-logs -> Spark job
    Spark job -> Delta processed_logs, Kafka critical-alerts, PostgreSQL (4 tables),
                 MinIO model artefacts
    Kafka critical-alerts -> FastAPI gateway -> WebSocket clients (the page of /demo)
                                     `--------> PostgreSQL anomaly_alerts_pg

| component | state it keeps | operations | interacts with |
|---|---|---|---|
| Stream processor (`src/processing/stream_processor.py`) | checkpoint (offset log, commit log), model of this process, saved artefacts | trigger, plan a batch, `process` (read, train or reuse, infer, six sinks), commit, restart | reads `system-logs`; writes Delta, `critical-alerts`, four tables, `MODEL_BUCKET` |
| Alert gateway (`src/api/main.py`) | connection list and gauge, pool, consumer, consumer task | lifespan start and shutdown, consumer loop, broadcast, WebSocket handlers, `/health`, four analytics queries, the page of `/demo` | consumes `critical-alerts`; inserts into `anomaly_alerts_pg`; sends to browsers |
| Alert import (`insert_alerts.py`) | one transaction | inserts what an operator saved of `critical-alerts` | a third writer of `anomaly_alerts_pg` |
| PostgreSQL schema (`docker/postgres/init.sql`) | tables, NOT NULL and UNIQUE constraints | inserts, upserts, queries | all of the above, Grafana |
| Offline trainer (`src/ml/train_model.py`) | the artefact paths it shares | load, train, choose the anomaly cluster, evaluate, save | overwrites what the job saves |
| Fluentd (`config/fluentd/fluent.conf`) | tail position file, file buffer | tail, buffer, flush with retry, block on overflow | `system.log` to `system-logs` |
| Log replay (`docker/log-generator/log_replay.py`) | position in its dataset, in memory only | append batches of lines, start over | writes the file Fluentd tails |
| Chaos scenarios (`chaos/`) | verdicts, a report | kill and restart containers, probe, judge; the runner chains them | all of the above |
| Lakehouse initialisation (`scripts/init_lakehouse.py`) | the Delta tables | check, create, verify each table | races the job's appends |
| Kafka cluster and stack startup (`docker-compose.yml`, `scripts/setup_kafka_topics.py`, `scripts/health_check.py`) | container states, topics, controller, ISR | start in order of dependencies, create topics, elect, fence, ask every service | everything else waits for it |
| Network audit (`scripts/network_isolation_audit.py`) | the list of verdicts | probe each rule from inside a container | the composed networks |
| Data tools, dashboards, CI | none | one-shot tools, configuration | - |

### What is hard

* **Crash and replay.** The driver can die between any two of the nine writes of a
  batch. The engine then re-runs the batch over the same offsets, but the new driver
  has no model: it trains on the first batch it sees, so a replay may flag other rows
  than the first attempt. No sink deduplicates.
* **Swallowed failures.** Every sink, the saves of the model, training and scoring are
  wrapped in `except Exception: log`. `process` always returns, so the engine commits.
  `insert_alerts.py` and the gateway swallow row by row.
* **Partial writes.** Kafka records go out one at a time; a JDBC append may leave some
  groups; an aborted PostgreSQL transaction rolls back at `commit()` without an error;
  `overwrite()` deletes before it writes.
* **Interleaving in the gateway.** One event loop, but the lifespan, the consumer task
  and a handler per WebSocket interleave at every `await`; `broadcast` iterates over a
  copy of the list and writes the list back afterwards.
* **Auto-commit.** The consumer's position is past an alert as soon as it is handed
  out; the timer, `stop()` and a kill decide what the group offset becomes. An eviction
  from the group sends the same consumer back to that offset.
* **Cancellation.** `CancelledError` passes every `except Exception`, interrupts an
  insert, a broadcast, the back-off sleep, or the `stop()` inside `finally`, which a
  second `stop()` does not make up for.
* **At-least-once ingestion.** The tail position is saved after the emit, the chunk is
  purged after the acknowledgement, and the agent may die in either gap; a full buffer
  blocks the tail.
* **Check, then act.** `init_lakehouse.py` writes with `overwrite` after it looked;
  the chaos scenarios judge a system that goes on between two looks; `health_check.py`
  adds up answers of different moments; job and trainer overwrite the same paths.
* **Timers.** The page of `/demo` pings, reconnects and is dropped by timeouts that
  belong to two programs.

### What makes each component correct

* *Stream processor*: a committed record is accounted for; a sink sees a record twice
  only after a crash; a committed batch is closed for good; the order of the sinks
  holds within an attempt; the derived tables agree with the rows they summarise; the
  two artefacts match; with the driver up, every record is committed in the end.
* *Gateway*: the registry holds exactly the live handlers' connections; each connection
  gets every alert of its lifetime, in order, once; no assignment skips an offset, and one
  is repeated only if its commit was missed; one process loses at most the alert in its hands; the pool outlives the
  task; a shutdown ends; the loop survives its own crashes.
* *The table of alerts and who reads it*: a batch goes in as a whole and does not need
  Kafka; an answer leaves out no row it should have; the page has one sound connection
  and comes back after every loss.
* *Trainer and job together*: a reader loads artefacts of two different fits only if a
  save was disturbed; the evaluation counts the right rows.
* *Ingestion*: every line that matches is produced at least once, twice only if it was
  between two steps when something failed; overflow only delays lines.
* *Chaos scenarios and operations scripts*: a verdict proves what it may be relied on
  for, a failure has a cause, and what may still be down afterwards is known.

## 2. Modules

| module | models |
|---|---|
| `StreamProcessor` | the Kafka topic `system-logs`, the micro-batch engine and `BatchProcessor.process` with its sinks |
| `BatchDelivery` | the abstract delivery of batches to sinks that `StreamProcessor` implements |
| `StreamProcessor_proofs` | the inductive invariant; types, duplicates and finality of commits |
| `StreamProcessorDelivery_proofs` | the delivery invariant; no record unaccounted for, sinks in order; that the job implements `BatchDelivery` |
| `StreamProcessorTables_proofs` | the derived tables and the saved artefacts |
| `AlertGateway` | the FastAPI process, the topic `critical-alerts`, the WebSockets |
| `AlertFeed` | the abstract live feed that `AlertGateway` implements |
| `AlertGateway_proofs` | registry, offsets, shutdown, and that it implements `AlertFeed` |
| `AlertTable` | `anomaly_alerts_pg` and its three writers |
| `AnalyticsApi` | the four analytics endpoints on tables that grow |
| `DemoClient` | the script of `/demo` and the gateway's end of its WebSockets |
| `Serving_proofs` | the rows of the table, the answers about alerts, the summary of `batch_metrics`, the one socket of the page |
| `Ingestion` | `log_replay.py`, Fluentd and the topic `system-logs` |
| `ReliableHandoff` | the abstract hand-over that `Ingestion` implements |
| `FluentdCrash` | `fluentd_crash.py` on `Ingestion` |
| `Ingestion_proofs` | duplicates, that the agent implements `ReliableHandoff`, the verdict of the scenario |
| `KafkaFailover` | `kafka_failover.py` on a cluster of brokers |
| `Lakehouse` | `init_lakehouse.py` beside the job's appends |
| `DeltaSafety` | `delta_safety.py` on `Lakehouse`, with the resubmission of the job |
| `LatencyProbe` | `latency_probe.py` and the parts of the pipeline its two probes pass |
| `ChaosRunner` | `chaos_runner.py` chaining the four scenarios |
| `ChaosScenarios_proofs` | what the verdicts of the other scenarios, the runner and `init_lakehouse.py` prove |
| `ModelStore` | the artefact paths shared by trainer and job |
| `OfflineTrainer` | what `train_model.py` computes between load and save |
| `StackStartup` | `docker compose up`, `kafka-init`, `setup_kafka_topics.py`, `health_check.py` |
| `Operations_proofs` | startup, the shared artefacts, the evaluation |
| `MCStreamProcessor`, `MCAlertGateway` | values for the runs of one module |
| `MCIngestion` | `Ingestion` by itself, and with `FluentdCrash` beside it |
| `MCChaos`, `MCServing`, `MCOperations` | compositions for TLC of the modules of one area |

An operator whose comment says *Mutant of X* is a plausible slip in X. No run uses it;
replacing X by it must break the property `PROJECT.json` pairs it with.

The components interact through modules that extend or share another's state:
`FluentdCrash` extends `Ingestion` (the script stops and starts the agent the pipeline
runs on), `DeltaSafety` extends `Lakehouse` (the scenario kills the container in which
both the job's master and `init_lakehouse.py` run), `AlertTable` puts job, topic, gateway and
import around one table, `ModelStore` trainer and job around one bucket,
`StackStartup` Compose and two scripts around one cluster.

`MCChaos`, `MCServing` and `MCOperations` check several of these modules in one run. A
behaviour there is that of one module, chosen by a variable in the initial state; the
others stand still in an initial state. The parts share no variables, so nothing is lost
by not interleaving them, and each state space is the sum of those of the parts. They extend
the modules, whose definitions therefore have names of their own (`ProbeInit`, `DemoNext`,
`StoreSpec`), and a constant shared by two modules has one value. `MCIngestion` does the same
with `Ingestion` by itself and with `fluentd_crash.py` beside it.

### StreamProcessor

| code | model |
|---|---|
| `readStream` options, `startingOffsets=latest` | `Start` logs `logEnd` as the first offset only when the checkpoint is empty |
| `maxOffsetsPerTrigger` | `PlanBatch` appends an end offset to `offsets` before `process` is called |
| `failOnDataLoss=false`, retention | `Expire`; `ReadBatch` keeps the offsets above `logStart` |
| `from_json`, filter on a non-null message | the constant `Parsed` |
| `count() == 0: return` | `ReadBatch` with outcome `empty` |
| `if self.model is None: train_model` | `Fit`, `SaveNlp`, `SaveKMeans`, `KeepModel`; `TrainingFails` |
| `model.transform`, `is_anomaly` | `Infer`, with `Flags[model]` |
| the six `try` blocks, in order | `WriteDelta` ... `WriteModelMetrics` |
| driver death | `Crash`: `pc` and `model` are lost, everything else stays |

`attempts` records every call of `process`: its batch, the rows it read and flagged,
the sinks whose failure it logged, how it ended. `stored[s]` holds the pairs
`<<attempt, offset>>` that sink `s` has taken, so a record written twice stays visible.

Abstractions. The three partitions of `system-logs` are one log: the engine plans and
commits all partitions of a batch together. Feature engineering and K-Means are a
function from the rows fitted on to the rows flagged (the seed is fixed, so a fit is
deterministic); the choice of the anomaly cluster is inside it. Rows are read where
they are first materialised, by `count()`; a later re-read that finds fewer rows
because retention passed in between is not modelled. A crash half-way through a write
is the failing outcome of that write followed by `Crash`. Which rows a failure leaves
behind is nondeterministic within what the store can do: nothing or all for a Delta
commit, any subset of records for Kafka, whole groups for the JDBC append, nothing for
an aborted PostgreSQL transaction. Timings, logging and Prometheus counters are left
out. Spark restarts are manual (`scripts/submit_spark_job.py`).

`BatchDelivery` says what an engine of batches promises its sinks, without a handler,
a model or a checkpoint. `ImplementsBatches` maps the job to it:

| `BatchDelivery` | `StreamProcessor` |
|---|---|
| `gone` | records that do not parse or have expired; `Lose` is `Expire` |
| `open`, `closed` | the planned batch that is not committed; those that are. `Open` is `PlanBatch`, `Close` is `CommitBatch` |
| `active`, `attempt` | `process` is past its read; the number of its call. `Begin` is `ReadBatch`, `Abort` is `Crash` |
| `wanted` | what each sink is to have of the rows read: all, the anomalies under the model kept or about to be fitted (`Scorer`), or the labelled ones |
| `failed` | the sinks whose failure was logged; all of them if training or scoring raised (`GiveUp`) |
| `copies` | `stored`; `Write(s)` is the step of the sink `s` |

What is wanted is fixed when the batch is read, before a model exists: the fit is a
function of the rows, so nothing later in the attempt changes it.

### AlertGateway

A step runs from one `await` to the next. `app` is where `lifespan` is, `task` where
the consumer task waits, `handler[c]` where the handler of WebSocket `c` waits. The lock
of `ConnectionManager` is never held across an await, so the section under it belongs to
the step that enters it. `pending` and `dead` are the local variables of `broadcast`:
the rest of the copied list, and the connections whose send raised. `fate` records what
became of each alert handed out: `inHand`, `shown`, `rejected` (not an `AlertEvent`), or
`cut` (by a kill or the cancellation).

Kafka is modelled by what the client library does for this code: the consumer starts at
the committed offset (or the earliest), its position moves when the iterator hands out a
message, `AutoCommit` stores the position at any time while the consumer runs, `stop()`
commits once more if the broker answers. `Rejoin` is an eviction for a late heartbeat or
poll (`session_timeout_ms`, `max_poll_interval_ms`): it may meet any await of the loop, the
position falls back to the group offset, and a new `assignment` begins. The alert in hand
stays in hand. `stop()` marks the consumer closed before anything else, so one that the
cancellation interrupted (`consumer = "cut"`) has neither committed nor left, and the
`stop()` of the lifespan, `StopConsumer`, does nothing. Retention of `critical-alerts` is not modelled,
so a committed offset always exists. `asyncpg` refuses a `str` for `$2::timestamp`: the
INSERT of an alert with a timestamp fails on the client, whatever the database does.

`Terminate` is the server's graceful shutdown: it closes every WebSocket and lets the
handlers finish before the lifespan resumes. `CancelTask`, `TaskAwaited`, `StopConsumer`
and `ClosePool` are the lines after `yield`. A send raises only on a connection that is
down. The order of sends within a broadcast is any order; connections are a set.

### AlertTable, AnalyticsApi, DemoClient

`Session` is a psycopg2 connection without autocommit: `Execute` sends a row, is refused
by the driver (a NUL in a message) or by the server; after the latter the transaction is
aborted, each later statement fails and is printed, and `CommitRows` stores nothing and
raises nothing. `Publish` comes before `JobConnect`, as in `process`. The gateway's
insert is one statement of its own: `Insertable` says that asyncpg refuses the string in
`$2::timestamp`. Anomalies are told apart by whether they have an event time and can be
sent; a row is known by its anomaly, so the fresh `alert_id`s need no values.

`AnalyticsApi` answers from the tables as they are. `OrderedBy` is the set of all orders
an `ORDER BY` allows, so ties come out in any order. The parameter `days` is in no query.
`AlertsNext` is the writer and the endpoint of `anomaly_alerts_pg`, `MetricsNext` those of the
other tables; the former do not look at what the latter write, so `serving` runs them apart.

`DemoClient` has the page's and the handler's view of a socket in one record. Sockets go by
a number, which is free again when neither side holds the socket any more. Time passes
in ticks of 10 s, and what is due is done before the next one: the browser is assumed to
fire its timers on time. `LoseLink` tells neither side. `SilentOnlyIfLost` is what relates
the 20 s of `DEMO_HTML` to the 30 s of the handler. The page counts what it is sent: an alert
that a restarted gateway hands out again is counted again.

### Ingestion, FluentdCrash

| code | model |
|---|---|
| `load_dataset`, the loop over batches of `BATCH_SIZE`, `flush()` | `Lines`, `BatchOf`, `Replay` |
| `@type tail`, `pos_file`, `read_from_head` | `EmitLine`, then `SavePosition`; `StartAgent` resumes at `saved` |
| `<parse>` regexp, `emit_invalid_record_to_error false` | `Matches` |
| `chunk_limit_size`, `total_limit_size`, `overflow_action block` | `Stage`, guarded by `Size < TotalLimit` |
| `flush_mode interval`, `flush_thread_count` | `EnqueueStage`, `TakeChunk` |
| `required_acks -1`, `retry_forever` | `Acknowledge`, `FlushFails`, `PutBack`, `PurgeChunk` |
| a kill or `docker stop` | `Die`: the chunk files and `pos_file` survive |

A line is its position in the file, so a second production of it stays visible. A write
of log_replay reaches the file as a whole (it is smaller than the pipe between flushes);
a line written in part is not modelled. `atRisk` remembers which lines were between two
steps when something failed. `ImplementsHandoff` maps `written` to the file, `held` to the
chunks on disk and in flight, `delivered` to the topic and `forgotten` to what lies below
the saved position.

`FluentdCrash` runs the script beside that pipeline: any command of it may fail, the agent
may crash by itself, Docker restarts it unless it was stopped by hand. The end offset is
read for the whole topic; a reading that misses a partition is left out.

### KafkaFailover

One partition stands for the topic. `Elect`, `Resign`, `Fence` and `CatchUp` are the part
of KRaft and replication the scenario looks at; a replica is dropped from the ISR only
when its broker is dead. Each poll loop ends with the answer that satisfies it or with the
last poll before the deadline. The scenario may be run twice, and `docker start` may fail.

### Lakehouse, DeltaSafety

A row is the number of the append that wrote it. `init_lakehouse.py` walks the tables:
`CheckTable`, `WriteTable` (overwrite, whatever is there by then), `VerifyTable`; a failing
call is collected and the loop goes on; without a SparkSession (`SessionFails`) the run ends
before it, with no table tried and none reported. The job's append may fall anywhere in
between. Delta's commits are taken to be atomic; that the S3 store without a lock does not
promise this to two drivers is left out. `DeltaSafety` adds the two readings of
`_get_delta_state`, the submission of the job, `docker kill` and `start` of the master,
with which a running `init_lakehouse.py` dies, `docker restart` of the worker, whose result
is ignored, and the search for `.tmp` files. `drivers` counts the streaming jobs: a submission
adds one to those that run, and of two on one checkpoint one fails (`DriverFails`). What needs
executors waits while the worker is down. A reading may fail, and it takes two steps:
the version first, then the rows, which are those of a later snapshot if the job appends in
between.

### LatencyProbe, ChaosRunner

`LatencyProbe` follows two probes, the line through Fluentd and the alert through the
gateway. `library` chooses kafka-python or the console consumer. The two differ in where
they start and when they end; a console consumer that fails finds nothing (`ScanGivesUp`). `registered` and `welcomed` are apart because the gateway
registers a socket before it greets it, so an alert can come first. `ChaosRunner` keeps of
each scenario what the next one meets: the containers it may leave down (`Stops`,
`RestartsUnseen`), and whether its verdict notices. `SaveReport` and `Exit` are two steps, and
`Interrupt` may come before, within or between them.

### ModelStore, OfflineTrainer

A model is the number of its fit. `RemovePath` and `Write` are the two steps of `overwrite()`;
a writer that finds the path there again fails, gives up, and its fit is `dirty`. So is
any fit whose save met another's. `OfflineTrainer` takes any assignment of rows to
clusters as the outcome of K-means and computes what the code computes from it: averages
over labels that may be null, ties, empty clusters, the matrix. The silhouette of a single
cluster is an exception that ends the trainer before any of it (`EvaluatorRaises`).

### StackStartup

The instance has the containers that show the pattern of `docker-compose.yml`: brokers,
one that waits for `kafka-init` to complete, and one that waits for a broker to be healthy.
A container may die at any time. Docker starts it again only if it has a restart policy
(`Restarted`); brokers and database have none, so `StartAgain` of those is an operator's.
`docker-compose up` gives up when a dependency died, is not healthy in time or failed
(`Hopeless`, `ComposeAborts`), and somebody may run it again (`ComposeAgain`), which
starts a completed `kafka-init` once more. A topic of replication factor 3 needs all brokers;
`kafka-init` ends with `--list`, which may fail as well. `health_check.py` opens a connection
or asks for a page: `Ask` lets any container that runs answer or not, whatever Docker's own
health check says of it.

## 3. Runs

| run | states | asks |
|---|---|---|
| `sp_safety` | 1.6 M | 4 records, 1 crash, 1 failed call: every safety property of the job but the next |
| `sp_live` | 0.2 M | 3 records, 1 crash, 1 failed call: the job implements `BatchDelivery`; every record is committed in the end while the driver stays up |
| `gw_safety` | 2.1 M | 2 WebSockets, 3 alerts, 2 lives of the process, 1 fault; the gateway implements `AlertFeed` |
| `gw_live` | 31 k | alerts end, dead connections go, shutdowns end |
| `ingestion` | 0.3 M | 4 lines, 2 kills, 1 failed flush, a buffer of 2, with and without `fluentd_crash.py`: duplicates, the hand-over, the verdict, delivery in the end |
| `chaos` | 0.6 M | the other scenarios beside what they disturb, and the runner: what verdicts prove, that brokers recover |
| `serving` | 0.6 M | the table with its three writers, every answer about every small table, the page through losses |
| `operations` | 1.1 M | startup with containers that die and an aborted `docker-compose up`, shared model store, evaluation |
| `sp_zero_data_loss`, `sp_rolling_health`, `gw_persisted`, `lp_latency` | - | a sentence of the documents or comments that the code does not keep |

### What the properties say

* `ImplementsBatches`: whatever crashes and replays do, no sink takes a row of a closed
  batch, or one that its attempt does not want, and a batch is closed only by an attempt
  that gave each sink what it wanted for it, or noticed a failure in it.
* `SavedModelsMatch`: the two artefacts are of one attempt, or the second is being written,
  or the attempt that touched them last was cut off between the two saves or failed in one
  of them. An earlier crash is no excuse.
* `RedeliveredOnlyUncommitted`: with every assignment the offsets start over at the committed
  one and are consecutive. `ShutdownOrder`: the pool outlives the task, and until a call
  fails a shutdown has committed every alert handed out. A consumer whose `stop()` was cut is
  never stopped.
* `FluentdVerdict`, `FailoverVerdict`, `DeltaVerdict`: a pass is worth something (the agent was
  down and lines came after the baseline; both checks of the cluster were made while the
  broker was down; no more rows are gone than came), and a failure has a cause.
  `RunnerVerdict`: exit code 0 vouches for all containers but those whose start nobody looks
  at, a broker killed by the Kafka scenario and the spark-worker of the Delta scenario. Each of
  them is weaker than what the scenario announces; the difference is listed below. The
  latency scenario has no such property: its checks prove what each of them has just seen.
* `LinesArrive`: every line that matches is produced in the end (`EventuallyProduced`), and so
  it is after a pass of `fluentd_crash.py` (`RecoversFully`). `EndsWell`: the cluster is whole
  after the last failover (`Heals`), and with kafka-python the latency scenario ends, or
  raises, on a topic that is never silent (`RunEnds`).
* `InitOutcome`: which rows `init_lakehouse.py` can destroy, and what its exit code tells. A
  run that failed without reporting a table had no SparkSession and tells nothing.
* `DuplicatesOnlyAtRisk`, `ImplementsHandoff`: with `LinesArrive`, at-least-once ingestion.
* `BatchesStored`, `TimedOnce`, `ImportReportsStored`: the table, whoever writes it.
* `SummaryCountsEveryRow`: the summary has each day of a component once, newest first, and
  counts every event and anomaly of the table. A rate is a percentage; below 20000 events
  it is 0 or 100 only if no or every event is an anomaly. From there on `ROUND(..., 2)`
  answers 100.00 for a group with a normal row in it (19999 of 20000). That bound came out of the proof; the
  small counts of a run cannot show it. `RecentIsNewest`: a limit never drops a newer alert.
* `OneSoundSocket`: the page has one connection it uses or one timer, never two nor neither,
  and the handler gives up only on a connection that is lost or closed. Nothing is said of
  alerts that come again. `PageLiveAgain`: it is live in the end.
* `StartupTruthful`: what operators are told; "all services healthy" means that each ran at some
  time of the last attempt. `StartedComesUp`: the stack comes up if the operator attends to it
  (`OperatorAttends`: an aborted `docker-compose up` is run again, containers without a
  restart policy are not left dead).
* `ModelsMatch`, `EvaluationSound`: what the trainer leaves behind and reports.

### Bounds

Four records and batches of at most two give at least two batches, a full and a
partial one, and among the records one does not parse, one has no date and one no label;
one crash and one fault may fall at any step, in either order, so each partial failure
is combined with each replay. That a batch is replayed more than once is covered by the
theorems, which hold for any number of crashes.
Two WebSockets are what a broadcast needs for one to leave or join while the other is
sent to; three alerts, one of each kind, follow a failed one by a good one; two boots
show what the next process finds. `sp_live` has three records, one of which does not
parse: still a full batch and a partial one. The WebSockets are symmetric in every property of
`gw_safety`, of which none is a liveness property. `gw_live` has one WebSocket, since each
client's liveness is its own.

`ingestion` has more lines than the buffer holds, so that the tail blocks, chunks of two,
so that a flush can fail half-way, and two kills, so that the second one meets a recovery.
Beside the script one command fails and one thing in the pipeline, a crash or a flush.
`chaos`: a second run of the failover scenario starts from what the first one left; two
faults let a command fail in each. Three appends give the reading before the crash, a
batch in flight and a later one. `serving`: a batch of a sound, an unsendable and an
untimed anomaly and a second one, one restart, one import, two faults; tables of three
rows with two components, two severities, two days and nulls; three losses with two
alerts. `operations`: two deaths among two brokers and two more containers, two attempts of the health
check, any number of aborts and new runs of `docker-compose up`, four fits in all,
every clustering of up to four rows into three clusters.

Deadlock checking is off because every instance is bounded: the system stops when its
records, alerts, boots or faults are used up.

### Fairness

`FairSpec` of the job is weak fairness of the driver's own steps: the trigger
thread is one loop, and every call it makes returns or raises. Nothing is assumed of
`Start` (restarts are manual), so `EventuallyCommitted` speaks of a driver that is up
for good. The gateway's fairness is that of its event loop: the consumer task, each
handler and the shutdown sequence go on when they can. A silent client ends after the
30 s receive timeout, and a send to a peer that does not read ends with the server's ping
timeout, which is why sends count as fair. Nothing is assumed of clients, of
`AutoCommit`, or of the operator.

Fluentd's threads go on while the process runs, and Docker restarts it (`restart:
unless-stopped`); nothing is assumed of `log_replay` or of `SavePosition`. Kafka elects,
fences and catches up when it can, and a scenario is one thread whose calls have timeouts,
but for the console consumer, whose scan is not enabled to end while the topic is busy.
The page's timers fire, its events are handled, a closed or lost connection is noticed,
and the gateway is started again (`restart: unless-stopped`). Compose starts what may
start, a container that does not die becomes healthy, and Docker restarts those that have a
policy. `docker-compose up` is not assumed to be run again, nor a broker to be started:
`StartedComesUp` has both as its premise. Number of crashes and faults
is bounded, so weak fairness is enough: nothing fails forever.

### What the failing runs show

* `sp_zero_data_loss`: a batch whose training, scoring or Delta append failed is
  committed; its rows never reach `processed_logs` (README.md:39 promises recovery
  without data loss).
* `sp_rolling_health`: totals accumulate while rate and status are those of the last
  batch alone (init.sql:8, "rolling").
* `gw_persisted`: with no fault at all, an alert that carries a timestamp is shown and
  not stored (main.py:199).
* `lp_latency`: what is timed as Kafka-to-WebSocket latency is the arrival of the welcome
  (latency_probe.py:17).

### Other differences between code and documents

Seen while modelling; the models do what the code does, and no run states the sentence.

* `anomaly_alerts_pg` gets the alerts of a batch whose Delta append failed
  (init.sql:7, "mirrored from Delta Lake").
* `batch_metrics` is written with `mode("append")` (stream_processor.py:308, "UPSERT").
* A batch replayed after a restart is stored again under fresh ids
  (stream_processor.py:338, "Works correctly on every Spark restart").
* `/health` says "running" while the consumer loop backs off (main.py:305).
* `/metrics/summary` ignores `days` (main.py:361); nothing ever fills `alert_summary`
  (main.py:523).
* After a statement failed, `insert_alerts.py` prints the count of rows that the
  commit rolled back (insert_alerts.py:51); `ImportReportsStored` assumes no such failure.
* `fluentd_crash.py:19`: lines produced between the baseline and the stop satisfy the
  check; `:20`: the check of the buffer is True whatever it finds.
* `kafka_failover.py:121`: the broker's id is looked for in the whole description, which
  names every replica; `:17`: a controller that had moved before the kill passes as elected.
* `delta_safety.py:23` and `:25`: an unreadable table passes, and lost rows are made up for
  by new ones.
* `latency_probe.py:58`: the console consumer's timeout is one of silence; `:137`: the scan
  starts at the end of the topic.
* `init_lakehouse.py:111`: a table created between check and write is overwritten.
* `train_model.py:215`: nothing reads the metadata, and the job overwrites the model beside
  them; `:161`: the ground truth of `--source delta` is what the job predicted.
* `delta_safety.py:271`: the result of `docker restart spark-worker` is ignored; with an
  unreadable table, exit code 0 leaves the worker down.
* `main.py:270`: the second `stop()` of a consumer whose first was cancelled does nothing.
* `network_isolation_audit.py:6`: a rule that says CANNOT passes whenever its probe fails,
  for any reason (`:163`); `:93`: fluent.conf has a tail source only, nothing listens on
  `fluentd-agent:24224`, so this rule fails on networks that are as composed.
* `health_check.py:4`: Fluentd and the log generator are not asked.

## 4. Proofs

Eight modules hold the theorems. They are about the modules themselves, not about the
instances the runs use: any log, any number of alerts, clients, tables, brokers, fits,
crashes and failing calls, from the assumptions below. The theorem of an action property or
of an abstract specification is about the safety part, `Spec`, without fairness.

None of the invariants the runs check is inductive as it stands. Each module of proofs
states what has to be added, shows that the initial states have it and that every step
keeps it (one lemma per action or group of actions), and derives the invariants from it.

### StreamProcessor

`DuplicatesOnlyFromReplay` needs to know that batches do not overlap, and that a batch that
is run again has only crashed attempts before it. `IInv` adds this:

* `EngineInv`: end offsets strictly increase; the checkpoint is at most one batch ahead
  of its commits, exactly one while the handler runs, none while it is idle;
* `AttemptInv`: an attempt's rows lie in the offset range of its batch; an attempt that
  neither crashed nor is running belongs to a committed batch; of two attempts of one
  batch the earlier one crashed;
* `StoredInv`: a sink holds only rows that the attempt it names has read.

Every step of the handler is shown to fit one frame (`HandleFrame`: the checkpoint
stands still, only the running attempt changes, the sinks gain only its rows), so that
the induction treats the twelve steps of `process` as one. `PlanBatch`, `ReadBatch` and
`Crash` carry the real argument: a new range starts where the last one ended; a new
attempt of the planned batch finds `committed = Planned - 1`, so the batch's earlier
attempts must have crashed.

`RecordsAccountedFor` speaks of what each sink received, so `DInv` adds, on top of
`IInv`:

* `RunningInv`: the running attempt has read all of the planned batch that has not
  expired; at each step it has delivered what it owes to every sink it has tried, or
  recorded the failure; it has an outcome only when the handler is about to return;
* `WrittenInv`: a written attempt has delivered to all six sinks, or recorded a failure;
* `CommitInv`: each committed batch has an attempt that returned and covers it;
* `GaplessInv`: the batches leave no gap between the first and the last end offset. It is
  part of the invariant because it is an induction over the number of batches, which the
  steps of `PlanBatch` carry out;
* `AlertsFollowDelta` itself, whose step needs `RunningInv`.

The handler's steps fall into three shapes, `QuietStep` before the first sink,
`MiddleSink`, and `LastSink`; `CommitBatch` turns what `RunningInv` says of the attempt
that returned into `CommitInv` for its batch, and `Crash` only takes attempts away that no
committed batch counts on.

The derived tables stand on both. `TInv` adds `OwedInv` and `UntriedInv` (a sink holds of an
attempt only what is owed to it, and nothing before the attempt has tried it), `SavedInv`
(the two artefacts were fitted on the same rows, or the running attempt is between the
two saves, or the last attempt to touch them was interrupted there), `MetricsInv` and `HealthInv`. A row of
`model_metrics` agrees with the other sinks because the attempt has tried them all before
and records which failed; the totals of a component count the pairs `component_health` was
given, which are among those of `processed_logs`, so replays need no argument of their own.

`DeliveryImplemented` shows that every step of the job is one of `BatchDelivery` or a
stutter. On top of `IInv` and `DInv` it needs `ScoringInv`, which says for each step of the
handler whether there is a model, and that a batch that was scored was scored with the model now
in memory; so `Wanted` is the same before the fit, between fit and scoring, and after it.
One lemma shows that the handler's steps leave the rest of the mapping alone, one that
what a sink is owed after scoring is what it was to have from the start, and one lemma per kind of
step maps it. `CommitBatch` is the one that needs `DInv`: the guard of `Close` is
what `RunningInv` says of an attempt that returns.

### AlertGateway

`IInv` relates what three kinds of coroutine keep in local variables to what they share:

* `LoopInv`: the alert in hand is the last one handed out, and a broadcast is under way
  exactly while a connection of its copy is still to be sent to;
* `StageInv`: where the consumer task and its consumer can be in each stage of the
  lifespan. With `EndInv`, what the last commit of an undisturbed shutdown covers, it gives
  `ShutdownOrder`;
* `RegistryInv`: a broadcast's copy is stale, so what it still has to send to may have left
  the list; what it found dead never opens again. That is why writing the list back after
  the awaits neither loses nor resurrects a client;
* `FeedInv`: a connection has all alerts since it joined, but for the one a broadcast still
  owes it. Together with `RegistryInv` it gives the refinement of `AlertFeed`: every step is
  one of the feed or a stutter, for each client;
* `OffsetInv`: the position of a consumer is where the offsets of its assignment end, and everything below
  the position and below the group offset has been handed out by somebody;
* `CutInv`: the alerts cut short are fewer than the boots while a process can still cut one.

### Ingestion and the scenario on it

`IInv` follows lines through chunks: `HeldInv` (a line below the tail position is in a chunk
on disk, in a flush thread's hands or in Kafka; an acknowledged chunk is in Kafka),
`ChunksInv` (a line not at risk is in one place of one chunk) and `OnceInv` (it is in Kafka
at most once, and not before its chunk is acknowledged). The first gives the refinement of
`ReliableHandoff`, the other two `DuplicatesOnlyAtRisk`. `CrashAgent` and `FlushFails` put
exactly those lines at risk whose place they blur. That the log to be replayed is a
sequence at all is a statement about a fold, for any dataset: `LinesAreKept` shows that there
is a value for every set of positions, taking a smallest set that has none and removing its
largest position, and that the fold is that value.

`FluentdVerdict` is about the steps of the script, so `RunInv` says what each of them has
established: an agent stopped by `docker stop` stays down until the script starts it, a
check is missing only after a failed command, and the topic has not shrunk since the
baseline. The last point is a lemma on cardinalities (`TotalGrows`): the end offset is the
number of records, and no step takes a record away.

### The table of alerts, the API, the page

* `JobInv` and `SessionInv` say of an open transaction that it holds what the loop has
  passed of the batch, each anomaly once, unless a statement failed; `JobRowsInv` and
  `OtherRowsInv` say the same of what is committed. A batch is whole because the rows
  become visible in one step.
* `RecentInv`: an answer is the head of a list of the rows asked for, newest first. A row
  left out is beyond the head, so the head is full and nothing in it is older
  (`PrefixIsNewest`, by a bijection between the positions and the rows).
* `SummaryInv`: what an answer of `/metrics/summary` adds up is what the table holds. A sum
  is a fold that takes the rows in an order nobody chose, so the proof first shows that
  there is one sum for every finite set and that the fold is it (`SumExists`, `FoldIsSum`),
  then that sums are split by the groups of `GROUP BY` (`TotalSplits`, `TotalOfCells`). Every
  row of the table is in one group, so the groups add up to the table.
  `RateFacts` is the arithmetic of the rounding.
* `Timely` relates the two timers of a socket: while the connection is sound and no ping is
  under way, the handler has waited no longer than the page has since its last ping.
  `SilentOnlyIfLost` follows because 20 s are less than 30 s. `OneSocket` is inductive: each
  close of a socket starts one timer, each end of a timer makes one socket.

### Chaos scenarios

* `LakeInv`: between the check of a table and its overwrite the sink holds only rows
  appended since, which is all `InitOutcome` lets `init_lakehouse.py` lose. `DeltaInv` says
  of each reading of the scenario which state of the table it may be of.
* `AliveInv` and `KilledInv`: at most the target is down, and only until it is started
  again; what was checked in between was checked without it.
* `ResultsInv`, `DownInv`, `ReportInv`: while no scenario has failed, one broker can have
  stayed down, and only after the Kafka scenario, and spark-worker, only after the Delta
  scenario.

### Operations scripts, trainer and job

* `StepsInv`, `SeenInv`: `kafka-init` reaches a command only behind those before it, also when
  it is run once more; what answered is among what ran since the attempt began.
* `StoreInv`: an undisturbed save is alone (`Alone`), and at each stage has written what it
  should have (`Progress`); then artefacts of two undisturbed fits can stand together only
  halfway through a save (`MixedInv`). This one was model-checked with six fits first. The
  proof also found two cases of `ModelStore`'s `After` that overlapped, of which the
  `CASE` chose any; the model has been corrected.
* `TrainerInv` is established by one step, the evaluation. `EvaluationSound` needs that some
  cluster is no worse than the average, an induction over the clusters. It is done without
  one: of the sets of clusters that would be a counterexample, a minimal one under strict
  inclusion (`MinimalSubset`) loses an element and is none.

### Theorems

| module | theorem | states |
|---|---|---|
| `StreamProcessor_proofs` | `Invariance`, `TypeCorrect`, `ReplayOnly` | `Spec => []IInv`, `[]TypeOK`, `[]DuplicatesOnlyFromReplay` |
| | `CommittedFinal` | `Spec => CommittedIsFinal`: no step adds rows of a committed batch to a sink |
| `StreamProcessorDelivery_proofs` | `DeliveryInvariance`, `NothingUnaccounted`, `SinksInOrder` | `Spec => []DInv`, `[]RecordsAccountedFor`, `[]AlertsFollowDelta` |
| | `DeliveryImplemented` | `Spec => ImplementsBatches` |
| `StreamProcessorTables_proofs` | `TablesInvariance`, `ArtefactsMatch`, `HealthBounded`, `MetricsAgree` | the tables' invariant, `[]SavedModelsMatch`, `[]HealthBetween`, `[]MetricsAgreeWithAlerts` |
| `AlertGateway_proofs` | `Invariance`, `TypeCorrect` | `Spec => []IInv`, `[]TypeOK` |
| | `RegistryStaysExact`, `ShutdownInOrder` | `[]RegistryExact`, `[]ShutdownOrder` |
| | `RedeliveryNeedsMissedCommit`, `LossBounded` | `[]RedeliveredOnlyUncommitted`, `[]AtMostOneLostPerBoot` |
| | `FeedImplemented` | `Spec => ImplementsFeed` |
| `Ingestion_proofs` | `Invariance`, `DuplicatesExplained`, `HandoffImplemented` | `Spec => []IInv`, `[]DuplicatesOnlyAtRisk`, `ImplementsHandoff` |
| | `ScenarioInvariance`, `FluentdVerdictHolds` | `ScenarioSpec => []CrashInv`, `FluentdVerdict` |
| `Serving_proofs` | `Invariance`, `BatchesAreStored`, `TimedStoredOnce`, `ImportReports` | `Spec => []IInv`, `[]BatchesStored`, `[]TimedOnce`, `[]ImportReportsStored` |
| | `DemoInvariance`, `SocketIsSound` | `DemoSpec => []DemoInv`, `[]OneSoundSocket` |
| | `RecentInvariance`, `NewestAreAnswered` | `ApiSpec => []RecentInv`, `[]RecentIsNewest` |
| | `SummaryInvariance`, `SummaryIsComplete` | `ApiSpec => []SummaryInv`, `[]SummaryCountsEveryRow` |
| `ChaosScenarios_proofs` | `LakehouseInvariance`, `InitOutcomeHolds`, `DeltaVerdictHolds` | `ScenarioSpec => [](LakeInv /\ DeltaInv)`, `[]InitOutcome`, `[]DeltaVerdict` |
| | `FailoverInvariance`, `FailoverVerdictHolds` | `FailoverSpec => []FailoverInv`, `[]FailoverVerdict` |
| | `RunnerInvariance`, `RunnerVerdictHolds` | `RunnerSpec => []RunnerInv`, `[]RunnerVerdict` |
| `Operations_proofs` | `StartupInvariance`, `StartupIsTruthful` | `StartupSpec => []StartupInv`, `[]StartupTruthful` |
| | `StoreInvariance`, `ModelsAreMatched` | `StoreSpec => []StoreInv`, `[]ModelsMatch` |
| | `TrainerInvariance`, `EvaluationIsSound` | `TrainerSpec => []TrainerInv`, `[]EvaluationSound` |

### Assumptions

Each is an `ASSUME` of the module that declares the constants, and TLC evaluates it on the
instance of a run.

| module | assumption | why the code justifies it |
|---|---|---|
| `StreamProcessor` | sizes are numbers, batches are not empty, the data functions have their types | `maxOffsetsPerTrigger` is 50000; the rest is typing |
| `AlertGateway` | each alert is timed, untimed or malformed; finitely many clients; bounds are numbers | typing; a process has finitely many sockets |
| `Ingestion` | the dataset is a sequence of lines, sizes are positive (`DatasetAssumption`, `SizeAssumption`) | `fluent.conf` and the default arguments of `log_replay.py` |
| `AlertTable` | no anomaly occurs twice in the batches; the timed ones are anomalies | an anomaly stands for one row of one batch |
| `AnalyticsApi` | lower-case forms are told apart and are no severities, none is "all" | the job stores upper case, `severity.upper()` |
| `DemoClient` | `Heartbeat < Patience` | 20 s in `DEMO_HTML`, 30 s in the handler |
| `KafkaFailover` | more than two brokers, finitely many | `docker-compose.yml` has three; with two a majority needs both |
| `Lakehouse` | `TABLES` is a sequence of tables | typing |
| `StackStartup` | brokers, writers and servers are disjoint; `Services` is a sequence of containers | they are different services of `docker-compose.yml` |
| `OfflineTrainer` | finitely many rows | a data frame |

### Only model-checked

Every invariant, action property and refinement the passing runs check is a theorem for any
value of the constants, except for what needs fairness:

* all liveness: `EventuallyCommitted`, `EveryAlertEnds`, `DeadConnectionsRemoved`,
  `ShutdownEnds`, `LinesArrive`, `EndsWell`, `PageLiveAgain`, `StartedComesUp`. It needs
  fairness and `ENABLED`, which this prover does not treat;
* what `AlertFeed`, `ReliableHandoff` and `BatchDelivery` say is about steps. That the steps
  happen is left to fairness.

No module declares a recursive operator; sums, searches and filters are folds. The
induction theorems of the library take an operator as a parameter, which the
provers here cannot instantiate. Where a proof is an induction over a set or a sequence it
is done by a minimal counterexample instead (`MinimalSubset`), from facts about
cardinality alone.

## 5. Plan

The modules of section 2 exist, and the safety properties of the runs are theorems. What
would come next:

1. Action properties of the gateway from `OffsetInv` and `StageInv`: what no step of a
   shutdown may do to the group offset.
2. A second partition of `system-logs` in `StreamProcessor`, to tell apart what the engine
   promises for a batch and what Kafka promises for a partition.
3. The sum of `component_health` against `processed_logs` as an equation rather than as the
   bounds of `HealthBetween`, with the sums of `Serving_proofs`.

## 6. Not modelled

* `scripts/generate_logs.py`, `scripts/download_datasets.sh`, `patch_dashboards.py`: they
  write files once, from nothing that another part changes.
* The command line that `scripts/submit_spark_job.py` builds; that the job runs again
  after it is an action of `DeltaSafety`.
* `network_isolation_audit.py`: independent TCP probes without state. A rule passes when its
  probe ends as the rule asks, for whatever reason, and a verdict proves nothing more.
* A WebSocket send that waits for its peer: a send is one step that ends. How long a client
  that answers pings and never reads holds up the others is therefore not shown.
* Atomicity of Delta commits when two drivers write to S3 without a lock.
* Dashboards, Prometheus counters (but the gauge of the clients), CI: declarations.
* Replication of single records inside Kafka and objects inside MinIO: their own promises.
* Feature engineering and the arithmetic of K-means: any model that flags any rows.
