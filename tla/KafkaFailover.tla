---------------------------- MODULE KafkaFailover -----------------------------
(***************************************************************************)
(* The chaos scenario chaos/scenarios/kafka_failover.py on the cluster of  *)
(* docker-compose.yml: it asks for the controller, kills that broker, polls*)
(* until another one is the controller, reads the topic, starts the broker *)
(* again and polls until it takes it for rejoined.  One partition stands   *)
(* for the topic, replicated on every broker.                              *)
(***************************************************************************)
EXTENDS Integers, FiniteSets, FiniteSetsExt

CONSTANTS Broker,       \* the node ids
          MaxFailovers, \* bound: how often the scenario is run
          MaxMoves,     \* bound: how often a live controller resigns
          MaxFailed     \* bound: how many docker or kafka commands fail

\* docker-compose.yml has three; the cluster lives on without any one of them.
ASSUME BrokerAssumption == IsFiniteSet(Broker) /\ Cardinality(Broker) > 2 /\ 1 \in Broker

None == 0

VARIABLES
    alive,       \* the brokers that run
    controller,  \* the active controller, or None
    leader,      \* the leader of the partition, or None
    isr,         \* its in-sync replicas
    todo,        \* the step of run() that comes next
    target,      \* killed_container
    passed,      \* the checks that are True
    servedDown,  \* history: which checks were made while the target was down
    startFailed, \* history: whether a docker start failed
    runs, moves, nfailed

clusterVars == <<alive, controller, leader, isr, moves>>
scriptVars  == <<todo, target, passed, servedDown, startFailed, runs, nfailed>>
failoverVars == <<clusterVars, scriptVars>>

FailoverChecks == {"controller_identified", "controller_killed", "new_controller_elected",
                   "topic_readable_after_failover", "killed_broker_rejoined"}

-----------------------------------------------------------------------------
(* The cluster.                                                            *)

\* The KRaft quorum elects a live broker if a majority of the voters lives.
Elect == /\ controller = None /\ 2 * Cardinality(alive) > Cardinality(Broker)
         /\ controller' \in alive
         /\ UNCHANGED <<alive, leader, isr, moves, scriptVars>>

Resign == /\ controller # None /\ moves < MaxMoves
          /\ controller' \in alive \ {controller}
          /\ moves' = moves + 1
          /\ UNCHANGED <<alive, leader, isr, scriptVars>>

\* The controller fences a dead broker and gives its leadership away.
Fence(b) == /\ controller # None /\ b \in isr \ alive
            /\ isr' = IF isr = {b} THEN isr ELSE isr \ {b}
            /\ leader' \in IF leader # b THEN {leader}
                           ELSE IF isr \cap alive = {} THEN {None} ELSE isr \cap alive
            /\ <<isr, leader>>' # <<isr, leader>>
            /\ UNCHANGED <<alive, controller, moves, scriptVars>>

\* A live replica catches up with the leader, or leads the partition again.
CatchUp(b) == /\ controller # None /\ b \in alive
              /\ \/ b \in isr /\ leader = None /\ leader' = b /\ UNCHANGED isr
                 \/ b \notin isr /\ leader \in alive /\ isr' = isr \cup {b} /\ UNCHANGED leader
              /\ UNCHANGED <<alive, controller, moves, scriptVars>>

-----------------------------------------------------------------------------
(* The scenario.                                                           *)

CommandFails == nfailed < MaxFailed /\ nfailed' = nfailed + 1

Check(c) == passed' = passed \cup {c}

SurvivorAsked == Min(Broker \ {target})  \* survivors[0]

\* _get_controller_id; without an answer kafka-1 is taken for the controller.
FindController ==
    /\ todo = "find" /\ todo' = "kill"
    /\ \/ controller # None /\ target' = controller /\ UNCHANGED nfailed
       \/ controller = None /\ target' = 1 /\ UNCHANGED nfailed
       \/ target' = 1 /\ CommandFails
    /\ Check("controller_identified")
    /\ UNCHANGED <<clusterVars, servedDown, startFailed, runs>>

\* What docker kill does to the cluster.
BrokerDies == /\ alive' = alive \ {target}
              /\ controller' = IF controller = target THEN None ELSE controller
              /\ UNCHANGED <<leader, isr, moves>>

\* Mutant of Kill: the result of docker kill is not looked at.
KillAnyhow ==
    /\ todo = "kill" /\ todo' = "elect"
    /\ Check("controller_killed")
    /\ \/ target \in alive /\ BrokerDies /\ UNCHANGED nfailed
       \/ CommandFails /\ UNCHANGED clusterVars
    /\ UNCHANGED <<target, servedDown, startFailed, runs>>

\* docker kill fails on a container that does not run.
Kill ==
    /\ todo = "kill" /\ todo' = "elect"
    /\ \/ target \in alive /\ BrokerDies /\ Check("controller_killed") /\ UNCHANGED nfailed
       \/ target \notin alive /\ UNCHANGED <<clusterVars, passed, nfailed>>
       \/ CommandFails /\ UNCHANGED <<clusterVars, passed>>
    /\ UNCHANGED <<target, servedDown, startFailed, runs>>

SeenDown(c) == servedDown' = IF target \in alive THEN servedDown ELSE servedDown \cup {c}

\* A poll answers with a controller other than the killed broker.
PollElected ==
    /\ todo = "elect" /\ todo' = "read"
    /\ controller \notin {None, target}
    /\ Check("new_controller_elected") /\ SeenDown("new_controller_elected")
    /\ UNCHANGED <<clusterVars, target, startFailed, runs, nfailed>>

\* The last poll had no answer, or the killed broker's id.
PollTimesOut ==
    /\ todo = "elect" /\ todo' = "read"
    /\ \/ controller \in {None, target} /\ UNCHANGED nfailed
       \/ CommandFails
    /\ UNCHANGED <<clusterVars, target, passed, servedDown, startFailed, runs>>

\* _topic_readable, from the first survivor.
ReadTopic ==
    /\ todo = "read" /\ todo' = "restart"
    /\ \/ /\ {leader, SurvivorAsked} \subseteq alive /\ UNCHANGED nfailed
          /\ Check("topic_readable_after_failover") /\ SeenDown("topic_readable_after_failover")
       \/ ~({leader, SurvivorAsked} \subseteq alive) /\ UNCHANGED <<passed, servedDown, nfailed>>
       \/ CommandFails /\ UNCHANGED <<passed, servedDown>>
    /\ UNCHANGED <<clusterVars, target, startFailed, runs>>

\* Mutant of Restart: a broker whose death made the topic unreadable is left down.
RestartIfReadable ==
    /\ todo = "restart" /\ todo' = "rejoin"
    /\ alive' = IF "topic_readable_after_failover" \in passed THEN alive \cup {target} ELSE alive
    /\ UNCHANGED <<nfailed, startFailed, controller, leader, isr, moves, target,
                   passed, servedDown, runs>>

\* docker start; its result is ignored.
Restart ==
    /\ todo = "restart" /\ todo' = "rejoin"
    /\ \/ alive' = alive \cup {target} /\ UNCHANGED <<nfailed, startFailed>>
       \/ CommandFails /\ startFailed' = TRUE /\ UNCHANGED alive
    /\ UNCHANGED <<controller, leader, isr, moves, target, passed, servedDown, runs>>

\* _broker_rejoined looks for the id in the whole description of the topic, whose
\* list of replicas has it always: it is True as soon as the command answers.
PollRejoined ==
    /\ todo = "rejoin" /\ todo' = "done"
    /\ SurvivorAsked \in alive
    /\ Check("killed_broker_rejoined")
    /\ UNCHANGED <<clusterVars, target, servedDown, startFailed, runs, nfailed>>

RejoinTimesOut ==
    /\ todo = "rejoin" /\ todo' = "done"
    /\ \/ SurvivorAsked \notin alive /\ UNCHANGED nfailed
       \/ CommandFails
    /\ UNCHANGED <<clusterVars, target, passed, servedDown, startFailed, runs>>

\* The scenario is run once more.
Again == /\ todo = "done" /\ runs < MaxFailovers
         /\ todo' = "find" /\ runs' = runs + 1
         /\ passed' = {} /\ servedDown' = {}
         /\ UNCHANGED <<clusterVars, target, startFailed, nfailed>>

-----------------------------------------------------------------------------
FailoverInit == /\ alive = Broker /\ isr = Broker
                /\ controller \in Broker /\ leader \in Broker
                /\ todo = "find" /\ target = 1 /\ passed = {} /\ runs = 1
                /\ servedDown = {} /\ startFailed = FALSE
                /\ moves = 0 /\ nfailed = 0

Cluster == Elect \/ \E b \in Broker : Fence(b) \/ CatchUp(b)

FailoverScript == \/ FindController \/ Kill \/ PollElected \/ PollTimesOut \/ ReadTopic
                  \/ Restart \/ PollRejoined \/ RejoinTimesOut \/ Again

FailoverNext == Cluster \/ Resign \/ FailoverScript

FailoverSpec == FailoverInit /\ [][FailoverNext]_failoverVars

\* Kafka's own protocols go on, and so does the script.
FairFailoverSpec ==
    /\ FailoverSpec /\ WF_failoverVars(Elect) /\ WF_failoverVars(FailoverScript)
    /\ \A b \in Broker : WF_failoverVars(Fence(b)) /\ WF_failoverVars(CatchUp(b))

-----------------------------------------------------------------------------
(* Properties.                                                             *)

FailoverPassed == todo = "done" /\ passed = FailoverChecks

\* A pass proves service without the broker: the checks of the controller and of
\* the topic were both made while the killed broker was down.
ServedWithoutTarget ==
    FailoverPassed =>
        {"new_controller_elected", "topic_readable_after_failover"} \subseteq servedDown

\* However often the scenario is run, and whatever its verdicts, it never costs the
\* cluster its majority, unless a docker start failed.
QuorumKept == ~startFailed => 2 * Cardinality(alive) > Cardinality(Broker)

\* The scenario tests what it says, and at no cost to the cluster.
FailoverVerdict == ServedWithoutTarget /\ QuorumKept

\* After the last run the partition is fully replicated again, unless a docker
\* start failed: the scenario leaves no damage behind.
Heals == (todo = "done" /\ runs = MaxFailovers) ~> (startFailed \/ isr = Broker)

=============================================================================
