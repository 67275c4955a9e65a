---------------------------- MODULE AlertGateway -----------------------------
(***************************************************************************)
(* The FastAPI gateway of src/src/api/main.py: one process, one event      *)
(* loop, and on it the lifespan, the Kafka consumer task and one handler   *)
(* per WebSocket.  A step of a task runs to its next await; the lock of    *)
(* ConnectionManager is never held across an await, so a section under it  *)
(* is part of the step it is in.                                           *)
(*                                                                         *)
(* A Client is one WebSocket object: a browser that reconnects is another. *)
(* Alerts are the offsets of critical-alerts, which has one partition.     *)
(***************************************************************************)
EXTENDS Integers, Sequences, FiniteSets

CONSTANTS Client,     \* WebSocket objects
          MaxAlerts,  \* how many alerts the topic ever receives
          Kind,       \* what each alert looks like to the gateway
          MaxBoots,   \* bound: how many times the process is started
          MaxFaults   \* bound: how many calls out of the process fail

Alert == 1..MaxAlerts

\* "timed": an alert with a timestamp; "untimed": one without, or a value that
\* is not JSON; "malformed": a value AlertEvent cannot be built from.
ASSUME KindAssumption  == MaxAlerts \in Nat
                          /\ Kind \in [Alert -> {"timed", "untimed", "malformed"}]
ASSUME ClientAssumption == IsFiniteSet(Client)
ASSUME BoundAssumption == MaxBoots \in Nat /\ MaxFaults \in Nat

AppStates  == {"off", "running", "draining", "cancelling", "stopping", "closing"}
TaskStates == {"none", "creating", "waiting", "inserting", "sending", "sleeping",
               "finalizing", "ended"}

HandlerStates == {"new", "accepting", "welcome", "receiving", "done"}
Delivery == [offset : Alert, assignment : Nat]
Fates == {"inHand", "shown", "rejected", "cut"}

VARIABLES
    \* Kafka
    alertsEnd,   \* the last offset of critical-alerts
    groupOffset, \* the offset the consumer group has committed
    \* the process
    app,         \* where the lifespan of the application is
    pool,        \* state.db_pool: "none" or "open"
    consumer,    \* state.kafka_consumer: "none", "started", or "cut": its stop()
                 \* has begun and will not end
    position,    \* the last offset the consumer handed out
    task,        \* where the consumer task is awaiting
    pending,     \* broadcast: the connections of live still to be sent to
    dead,        \* broadcast: the connections whose send raised
    connections, \* ConnectionManager._connections
    clientsGauge,\* WS_CLIENTS_ACTIVE
    handler,     \* where the handler of each WebSocket is
    open,        \* whether each WebSocket's connection is up
    \* PostgreSQL
    alertRows,   \* the deliveries with a row in anomaly_alerts_pg
    \* history
    handed,      \* every alert handed to the loop, with the assignment it came from
    fate,        \* what became of each of them
    broadcasts,  \* the alerts that were broadcast, in order
    joined,      \* how many of those preceded each client's registration
    got,         \* the alerts each client was sent
    boots,       \* how many times the process was started
    assignments, \* how often a consumer was assigned the topic
    nfaults      \* how many calls out of the process failed

kafkaVars   == <<alertsEnd, groupOffset>>
loopVars    == <<consumer, position, task>>
sendVars    == <<pending, dead, broadcasts, got>>
managerVars == <<connections, clientsGauge>>
clientVars  == <<handler, open, joined>>
countVars   == <<boots, assignments, nfaults>>
vars == <<kafkaVars, app, pool, loopVars, sendVars, managerVars, clientVars,
          alertRows, handed, fate, countVars>>

Current == Len(handed)

Fault == nfaults < MaxFaults /\ nfaults' = nfaults + 1

\* ConnectionManager sets the list and the gauge in one section.
SetConnections(conns) ==
    connections' = conns /\ clientsGauge' = Cardinality(conns)

-----------------------------------------------------------------------------
(* Kafka: the topic critical-alerts and the consumer group.                *)

PublishAlert == /\ alertsEnd < MaxAlerts
                /\ alertsEnd' = alertsEnd + 1
                /\ UNCHANGED <<groupOffset, app, pool, loopVars, sendVars,
                               managerVars, clientVars, alertRows, handed, fate,
                               countVars>>

\* Mutant of AutoCommit: one offset too many is committed.
AutoCommitNext == /\ consumer = "started" /\ groupOffset # position + 1
                  /\ groupOffset' = position + 1
                  /\ UNCHANGED <<alertsEnd, app, pool, loopVars, sendVars,
                                 managerVars, clientVars, alertRows, handed, fate,
                                 countVars>>

\* enable_auto_commit: the consumer's own timer commits its position, which is
\* past an alert from the moment the loop is handed it.
AutoCommit == /\ consumer = "started" /\ groupOffset # position
              /\ groupOffset' = position
              /\ UNCHANGED <<alertsEnd, app, pool, loopVars, sendVars,
                             managerVars, clientVars, alertRows, handed, fate,
                             countVars>>

\* consumer.stop() commits the position one last time, if Kafka answers.
LastCommit == \/ groupOffset' = position /\ UNCHANGED nfaults
              \/ groupOffset' = groupOffset /\ Fault

-----------------------------------------------------------------------------
(* broadcast.                                                              *)

\* The list is copied before the first send; without clients nothing is awaited.
StartBroadcast(a) ==
    /\ broadcasts' = Append(broadcasts, a)
    /\ pending' = connections
    /\ task' = IF connections = {} THEN "waiting" ELSE "sending"
    /\ UNCHANGED <<dead, got>>

\* Mutant of Purge: the dead connections are never removed.
PurgeNothing(failed) == UNCHANGED managerVars

\* Clean up the connections whose send raised.
Purge(failed) == IF failed = {} THEN UNCHANGED managerVars
                               ELSE SetConnections(connections \ failed)

\* One send.  It raises only if the connection is down (a client that does not
\* read is dropped by the server's ping timeout), and always once its handler is
\* gone.  After the last one the dead connections are removed and the loop goes
\* on to the next message.
SendTo(c) ==
    /\ task = "sending" /\ c \in pending
    /\ pending' = pending \ {c}
    /\ \E failed \in {dead, dead \cup {c}} :
         /\ IF failed = dead
            THEN /\ handler[c] # "done"
                 /\ got' = [got EXCEPT ![c] = Append(@, handed[Current].offset)]
            ELSE ~open[c] /\ UNCHANGED got
         /\ IF pending = {c}
            THEN /\ Purge(failed)
                 /\ dead' = {}
                 /\ task' = "waiting"
                 /\ fate' = [fate EXCEPT ![Current] = "shown"]
            ELSE /\ dead' = failed
                 /\ UNCHANGED <<managerVars, task, fate>>
    /\ UNCHANGED <<kafkaVars, app, pool, consumer, position, broadcasts,
                   clientVars, alertRows, handed, countVars>>

-----------------------------------------------------------------------------
(* kafka_consumer_loop.                                                    *)

\* The consumer starts at the committed offset, or at the earliest.  After ten
\* failed attempts the loop takes its crash path and sleeps.
CreateAt(first) ==
    /\ task = "creating"
    /\ \/ /\ consumer' = "started"
          /\ position' = first
          /\ assignments' = assignments + 1
          /\ task' = "waiting"
          /\ UNCHANGED nfaults
       \/ /\ Fault
          /\ task' = "sleeping"
          /\ UNCHANGED <<consumer, position, assignments>>
    /\ UNCHANGED <<kafkaVars, app, pool, sendVars, managerVars, clientVars,
                   alertRows, handed, fate, boots>>

\* Mutant of CreateConsumer: auto_offset_reset "latest".
CreateAtLatest == CreateAt(IF groupOffset = 0 THEN alertsEnd ELSE groupOffset)

CreateConsumer == CreateAt(groupOffset)

\* The iterator hands out the next alert.  One that is malformed is logged and
\* dropped; without a pool the broadcast follows at once.
HandOut(a) ==
    /\ task = "waiting" /\ a <= alertsEnd
    /\ position' = a
    /\ handed' = Append(handed, [offset |-> a, assignment |-> assignments])
    /\ \/ /\ Kind[a] = "malformed"
          /\ fate' = Append(fate, "rejected")
          /\ UNCHANGED <<task, sendVars>>
       \/ /\ Kind[a] # "malformed" /\ pool = "open"
          /\ fate' = Append(fate, "inHand")
          /\ task' = "inserting"
          /\ UNCHANGED sendVars
       \/ /\ Kind[a] # "malformed" /\ pool = "none"
          /\ fate' = Append(fate, IF connections = {} THEN "shown" ELSE "inHand")
          /\ StartBroadcast(a)
    /\ UNCHANGED <<kafkaVars, app, pool, consumer, managerVars, clientVars,
                   alertRows, countVars>>

NextMessage == HandOut(position + 1)

RejoinAt(first) ==
    /\ consumer = "started" /\ task # "finalizing"
    /\ Fault
    /\ position' = first
    /\ assignments' = assignments + 1
    /\ UNCHANGED <<kafkaVars, app, pool, consumer, task, sendVars, managerVars,
                   clientVars, alertRows, handed, fate, boots>>

\* Mutant of Rejoin: the consumer resumes at the end of the log.
RejoinAtEnd == RejoinAt(alertsEnd)

\* The group evicts the consumer, whose heartbeats were late or whose poll was, at
\* any await of the loop.  It joins again and resumes at the committed offset;
\* the alert in hand stays in hand.  A commit before it joins is AutoCommit.
Rejoin == RejoinAt(groupOffset)

\* The INSERT.  asyncpg refuses a str for $2::timestamp, so only an alert without
\* a timestamp is inserted; an error is logged and the alert is broadcast anyway.
Insert ==
    /\ task = "inserting"
    /\ \/ /\ Kind[handed[Current].offset] = "timed"
          /\ UNCHANGED <<alertRows, nfaults>>
       \/ /\ Kind[handed[Current].offset] = "untimed"
          /\ \/ alertRows' = alertRows \cup {Current} /\ UNCHANGED nfaults
             \/ Fault /\ alertRows' \in {alertRows, alertRows \cup {Current}}
    /\ fate' = IF connections = {} THEN [fate EXCEPT ![Current] = "shown"] ELSE fate
    /\ StartBroadcast(handed[Current].offset)
    /\ UNCHANGED <<kafkaVars, app, pool, consumer, position, managerVars,
                   clientVars, handed, boots, assignments>>

\* The iterator raises: the loop sleeps, and the consumer is still in the state.
LoopFails ==
    /\ task = "waiting"
    /\ Fault
    /\ task' = "sleeping"
    /\ UNCHANGED <<kafkaVars, app, pool, consumer, position, sendVars,
                   managerVars, clientVars, alertRows, handed, fate, boots,
                   assignments>>

\* Mutant of Wake: the loop ends when it crashes.
WakeNever ==
    /\ task = "sleeping"
    /\ task' = "ended"
    /\ UNCHANGED <<kafkaVars, app, pool, consumer, position, sendVars,
                   managerVars, clientVars, alertRows, handed, fate, countVars>>

Wake ==
    /\ task = "sleeping"
    /\ task' = IF consumer = "none" THEN "creating" ELSE "finalizing"
    /\ UNCHANGED <<kafkaVars, app, pool, consumer, position, sendVars,
                   managerVars, clientVars, alertRows, handed, fate, countVars>>

\* The finally clause: the consumer is stopped, whatever stop() raises.
Finalize ==
    /\ task = "finalizing"
    /\ LastCommit
    /\ consumer' = "none"
    /\ task' = IF app = "cancelling" THEN "ended" ELSE "creating"
    /\ UNCHANGED <<alertsEnd, app, pool, position, sendVars, managerVars,
                   clientVars, alertRows, handed, fate, boots, assignments>>

-----------------------------------------------------------------------------
(* websocket_live_alerts.                                                  *)

Connect(c) ==
    /\ app = "running" /\ handler[c] = "new"
    /\ handler' = [handler EXCEPT ![c] = "accepting"]
    /\ open' = [open EXCEPT ![c] = TRUE]
    /\ UNCHANGED <<kafkaVars, app, pool, loopVars, sendVars, managerVars, joined,
                   alertRows, handed, fate, countVars>>

\* Mutant of Accepted: registered before accept(), which may raise.
AcceptedLate(c) ==
    /\ handler[c] = "accepting"
    /\ SetConnections(connections \cup {c})
    /\ joined' = [joined EXCEPT ![c] = Len(broadcasts)]
    /\ \/ handler' = [handler EXCEPT ![c] = "welcome"]
       \/ ~open[c] /\ handler' = [handler EXCEPT ![c] = "done"]
    /\ UNCHANGED <<kafkaVars, app, pool, loopVars, sendVars, open, alertRows,
                   handed, fate, countVars>>

\* accept() returns and the connection is registered, or it raises outside the
\* try and the handler is over.
Accepted(c) ==
    /\ handler[c] = "accepting"
    /\ \/ /\ handler' = [handler EXCEPT ![c] = "welcome"]
          /\ SetConnections(connections \cup {c})
          /\ joined' = [joined EXCEPT ![c] = Len(broadcasts)]
       \/ /\ ~open[c]
          /\ handler' = [handler EXCEPT ![c] = "done"]
          /\ UNCHANGED <<managerVars, joined>>
    /\ UNCHANGED <<kafkaVars, app, pool, loopVars, sendVars, open, alertRows,
                   handed, fate, countVars>>

Welcomed(c) ==
    /\ handler[c] = "welcome"
    /\ handler' = [handler EXCEPT ![c] = "receiving"]
    /\ UNCHANGED <<kafkaVars, app, pool, loopVars, sendVars, managerVars, open,
                   joined, alertRows, handed, fate, countVars>>

\* The welcome raises, the client disconnects or is silent for 30 s: the finally
\* clause removes the connection and the server closes it.
Disconnects(c, left) ==
    /\ handler[c] = "receiving" \/ (handler[c] = "welcome" /\ ~open[c])
    /\ handler' = [handler EXCEPT ![c] = "done"]
    /\ open' = [open EXCEPT ![c] = FALSE]
    /\ SetConnections(left)
    /\ UNCHANGED <<kafkaVars, app, pool, loopVars, sendVars, joined, alertRows,
                   handed, fate, countVars>>

\* Mutant of Disconnect: removal is left to the next broadcast.
DisconnectLater(c) == Disconnects(c, connections)

Disconnect(c) == Disconnects(c, connections \ {c})

\* The client goes away, or the network does.
Drop(c) ==
    /\ open[c]
    /\ open' = [open EXCEPT ![c] = FALSE]
    /\ UNCHANGED <<kafkaVars, app, pool, loopVars, sendVars, managerVars, handler,
                   joined, alertRows, handed, fate, countVars>>

-----------------------------------------------------------------------------
(* lifespan, and the process around it.                                    *)

Boot ==
    /\ app = "off" /\ boots < MaxBoots
    /\ boots' = boots + 1
    /\ app' = "running"
    /\ \/ pool' = "open" /\ UNCHANGED nfaults
       \/ pool' = "none" /\ Fault
    /\ task' = "creating"
    /\ UNCHANGED <<kafkaVars, consumer, position, sendVars, managerVars,
                   clientVars, alertRows, handed, fate, assignments>>

\* SIGTERM: the server closes every WebSocket and waits for the handlers.
Terminate ==
    /\ app = "running"
    /\ app' = "draining"
    /\ open' = [c \in Client |-> FALSE]
    /\ UNCHANGED <<kafkaVars, pool, loopVars, sendVars, managerVars, handler,
                   joined, alertRows, handed, fate, countVars>>

CutShort == [d \in DOMAIN fate |-> IF fate[d] = "inHand" THEN "cut" ELSE fate[d]]

\* Mutants of Interrupted: the task is awaited without having been cancelled; the
\* loop has no finally clause.
NotInterrupted == task
InterruptedEnds == "ended"

\* Where the cancelled task goes: its finally clause, or its end.
Interrupted == IF task = "finalizing" \/ consumer = "none" THEN "ended"
                                                            ELSE "finalizing"

\* kafka_task.cancel(): CancelledError is raised at the task's await.  It passes
\* every `except Exception`, so an alert in hand is cut short; in the finally
\* clause it interrupts stop() and leaves the consumer, marked closed, in the state.
CancelTask ==
    /\ app = "draining" /\ \A c \in Client : handler[c] \in {"new", "done"}
    /\ app' = "cancelling"
    /\ task' = Interrupted
    /\ consumer' = IF task = "finalizing" THEN "cut" ELSE consumer
    /\ fate' = CutShort
    /\ pending' = {} /\ dead' = {}
    /\ UNCHANGED <<kafkaVars, pool, position, broadcasts, got, managerVars,
                   clientVars, alertRows, handed, countVars>>

TaskAwaited ==
    /\ app = "cancelling" /\ task = "ended"
    /\ app' = IF consumer = "none" THEN "closing" ELSE "stopping"
    /\ UNCHANGED <<kafkaVars, pool, loopVars, sendVars, managerVars, clientVars,
                   alertRows, handed, fate, countVars>>

\* The lifespan finds a consumer only where the cancellation interrupted stop().
\* aiokafka marks a consumer closed before it does anything else, and a second
\* stop() of a closed one returns at once: nothing is committed or left.
StopConsumer ==
    /\ app = "stopping"
    /\ app' = "closing"
    /\ UNCHANGED <<kafkaVars, pool, loopVars, sendVars, managerVars, clientVars,
                   alertRows, handed, fate, countVars>>

\* What the end of the process leaves of its memory.
ProcessGone ==
    /\ app' = "off" /\ pool' = "none"
    /\ consumer' = "none" /\ position' = 0 /\ task' = "none"
    /\ pending' = {} /\ dead' = {}
    /\ connections' = {} /\ clientsGauge' = 0
    /\ handler' = [c \in Client |-> IF handler[c] = "new" THEN "new" ELSE "done"]
    /\ open' = [c \in Client |-> FALSE]

\* The pool is closed last; then the process exits.
ClosePool ==
    /\ app = "closing"
    /\ ProcessGone
    /\ UNCHANGED <<kafkaVars, broadcasts, got, joined, alertRows, handed, fate,
                   countVars>>

\* The process is killed.
Kill ==
    /\ app # "off"
    /\ ProcessGone
    /\ fate' = CutShort
    /\ UNCHANGED <<kafkaVars, broadcasts, got, joined, alertRows, handed,
                   countVars>>

-----------------------------------------------------------------------------
Consumer == \/ CreateConsumer \/ NextMessage \/ Insert \/ Wake \/ Finalize
            \/ \E c \in Client : SendTo(c)

Handler(c) == Accepted(c) \/ Welcomed(c) \/ Disconnect(c)

Shutdown == CancelTask \/ TaskAwaited \/ StopConsumer \/ ClosePool

Init ==
    /\ alertsEnd = 0 /\ groupOffset = 0
    /\ app = "off" /\ pool = "none"
    /\ consumer = "none" /\ position = 0 /\ task = "none"
    /\ pending = {} /\ dead = {}
    /\ connections = {} /\ clientsGauge = 0
    /\ handler = [c \in Client |-> "new"]
    /\ open = [c \in Client |-> FALSE]
    /\ joined = [c \in Client |-> 0]
    /\ got = [c \in Client |-> <<>>]
    /\ alertRows = {}
    /\ handed = <<>> /\ fate = <<>> /\ broadcasts = <<>>
    /\ boots = 0 /\ assignments = 0 /\ nfaults = 0

Next == \/ PublishAlert \/ AutoCommit
        \/ Consumer \/ LoopFails \/ Rejoin
        \/ \E c \in Client : Connect(c) \/ Handler(c) \/ Drop(c)
        \/ Boot \/ Terminate \/ Shutdown \/ Kill

Spec == Init /\ [][Next]_vars

\* The event loop runs every task that is ready.  A call of the consumer task
\* returns or raises, and so does a send: a peer that stops reading is dropped by
\* the ping timeout of the server.  A handler waits at most 30 s for its client.
Fairness == /\ WF_vars(Consumer)
            /\ \A c \in Client : WF_vars(Handler(c))
            /\ WF_vars(Shutdown)

FairSpec == Spec /\ Fairness

-----------------------------------------------------------------------------
(* Properties.                                                             *)

\* Every variable has its type.
TypeOK ==
    /\ alertsEnd \in 0..MaxAlerts /\ groupOffset \in 0..MaxAlerts
    /\ app \in AppStates /\ pool \in {"none", "open"}
    /\ consumer \in {"none", "started", "cut"}
    /\ position \in 0..MaxAlerts
    /\ task \in TaskStates
    /\ pending \subseteq Client /\ dead \subseteq Client
    /\ connections \subseteq Client /\ clientsGauge \in Nat
    /\ handler \in [Client -> HandlerStates] /\ open \in [Client -> BOOLEAN]
    /\ alertRows \subseteq Nat
    /\ handed \in Seq(Delivery)
    /\ fate \in Seq(Fates)
    /\ broadcasts \in Seq(Alert)
    /\ joined \in [Client -> Nat] /\ got \in [Client -> Seq(Alert)]
    /\ boots \in Nat /\ assignments \in Nat /\ nfaults \in Nat

\* Handlers come and go while a broadcast works on its copy of the list, and both
\* write the list back: the registry still holds a connection only while its
\* handler runs, never loses one that is up, and the gauge counts it.
RegistryExact ==
    /\ connections \subseteq {c \in Client : handler[c] \in {"welcome", "receiving"}}
    /\ \A c \in Client :
         handler[c] \in {"welcome", "receiving"} /\ open[c] => c \in connections
    /\ clientsGauge = Cardinality(connections)

\* Committed alerts that were neither shown nor rejected, and are not in hand.
Lost == {a \in 1..groupOffset :
            ~ \E d \in DOMAIN handed : handed[d].offset = a /\ fate[d] # "cut"}

\* The position is committed before an alert is processed, so a process that ends
\* may lose the alert in hand.  It never loses another: no committed alert was
\* skipped, and there are at most as many lost alerts as processes that ended.
AtMostOneLostPerBoot == Cardinality(Lost) <= boots

\* An alert comes back after a restart, a crash of the loop or an eviction from the
\* group, and then only if its commit was missed: the position never lies before
\* the committed offset, and with every assignment the offsets start over from
\* there and are consecutive.  No offset is handed out before all lower ones were.
RedeliveredOnlyUncommitted ==
    /\ \A d, e \in DOMAIN handed :
         d < e /\ handed[d].assignment = handed[e].assignment
           => handed[e].offset - handed[d].offset = e - d
    /\ \A d \in DOMAIN handed : \A a \in 1..(handed[d].offset - 1) :
         \E e \in 1..(d - 1) : handed[e].offset = a
    /\ consumer = "started" => groupOffset <= position

\* Shutdown tears down in an order nobody awaits on the wrong side of: an INSERT
\* only runs on an open pool; the pool closes after the task has ended and its
\* consumer was stopped, or its stop() was cut by the cancellation, which the
\* lifespan's own stop() cannot repair; and a shutdown in which no call failed has
\* committed every alert that was handed out.
ShutdownOrder ==
    /\ task = "inserting" => pool = "open" /\ app \in {"running", "draining"}
    /\ app = "closing" => task = "ended" /\ consumer \in {"none", "cut"}
    /\ app = "closing" /\ nfaults = 0 => position <= groupOffset

\* The live feed keeps the promise of AlertFeed to every connection: from its
\* registration to its removal, all alerts, in order, none twice, in lockstep.
Subscription(c) == CASE handler[c] \in {"new", "accepting"} -> "out"
                     [] c \in connections \ dead -> "in"
                     [] OTHER -> "gone"

Feed == INSTANCE AlertFeed
            WITH feed <- broadcasts, start <- joined, seen <- got,
                 sub <- [c \in Client |-> Subscription(c)]

ImplementsFeed == Feed!Spec

\* While the gateway stays up, every alert in the topic ends: shown, rejected, or
\* cut short by an earlier process, through failed consumers, evictions and slow clients.
EveryAlertEnds ==
    \A a \in Alert :
        <>[](app = "running") =>
            (alertsEnd >= a ~> \E d \in DOMAIN handed :
                                   handed[d].offset = a /\ fate[d] # "inHand")

\* A connection that is down is removed, even when no alert arrives to find out.
DeadConnectionsRemoved ==
    \A c \in Client : c \in connections /\ ~open[c] ~> c \notin connections

\* A graceful shutdown ends, whatever the consumer task was awaiting.
ShutdownEnds == app = "draining" ~> app = "off"

-----------------------------------------------------------------------------
(* What comments and documents say, and the code does not do.              *)

\* main.py:199: an alert is inserted into anomaly_alerts_pg, while nothing fails
\* and the pool is open.
AlertsPersisted ==
    nfaults = 0 => \A d \in DOMAIN fate : fate[d] = "shown" => d \in alertRows

=============================================================================
