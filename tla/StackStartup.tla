---------------------------- MODULE StackStartup -----------------------------
(***************************************************************************)
(* docker-compose up: the containers, started when what they depend on is  *)
(* healthy or has completed; kafka-init, which creates the topics;         *)
(* setup_kafka_topics.py, which does the same for an operator; and         *)
(* health_check.py, which asks every service in turn.                      *)
(***************************************************************************)
EXTENDS Integers, Sequences, FiniteSets, SequencesExt

CONSTANTS Broker,     \* the Kafka containers
          Bootstrap,  \* of these the one asked
          Writer,     \* containers that need kafka-init to have completed
          Server,     \* the other containers
          Needs,      \* what has to be healthy before each Server starts
          Restarted,  \* the containers with restart: unless-stopped
          Services,   \* SERVICES of health_check.py, in order
          Retries,    \* --retries
          MaxFaults   \* bound: how many containers die

\* A container is of one kind, and health_check.py asks containers of the stack.
ASSUME ContainerAssumption ==
    Broker \cap Writer = {} /\ Broker \cap Server = {} /\ Writer \cap Server = {}

ASSUME ServicesAssumption == Services \in Seq(Broker \cup Writer \cup Server)

Topics    == <<"system-logs", "critical-alerts">>   \* in the order of creation
AllTopics == ToSet(Topics)
Container == Broker \cup Writer \cup Server

VARIABLES
    composing, \* whether docker-compose up goes on starting containers
    status,   \* of each container: "created", "starting", "healthy" or "dead"
    init,     \* kafka-init: "created", the topic it is at, "list", "exited" or "completed"
    topics,   \* the topics of the cluster
    setup,    \* where setup_kafka_topics.py is
    attempt,  \* health_check.py: the attempt it is at
    asked,    \* how many services it has asked in this attempt
    answered, \* the services that were reachable in this attempt
    verdict,  \* what it concluded
    seen,     \* history: the containers that ran at some time since the attempt began
    nfaults   \* how many containers died

checkVars == <<attempt, asked, answered, verdict, seen>>
stackVars == <<composing, status, init, topics, setup, checkVars, nfaults>>

Up(c)   == status[c] = "healthy"
Runs(c) == status[c] \in {"starting", "healthy"}

\* The status of a container changes; the history sees one that runs.
SetStatus(c, to) ==
    /\ status' = [status EXCEPT ![c] = to]
    /\ seen' = IF to = "dead" THEN seen ELSE seen \cup {c}
    /\ UNCHANGED <<composing, init, topics, setup, attempt, asked, answered, verdict>>

-----------------------------------------------------------------------------
(* The containers.                                                         *)

\* depends_on of c.
Dependencies(c) == CASE c \in Broker -> TRUE
                     [] c \in Writer -> init = "completed"
                     [] c \in Server -> \A d \in Needs[c] : Up(d)

Start(c) == /\ composing /\ status[c] = "created" /\ Dependencies(c)
            /\ SetStatus(c, "starting") /\ UNCHANGED nfaults

Ready(c) == status[c] = "starting" /\ SetStatus(c, "healthy") /\ UNCHANGED nfaults

Die(c) == /\ status[c] \in {"starting", "healthy"} /\ SetStatus(c, "dead")
          /\ nfaults < MaxFaults /\ nfaults' = nfaults + 1

\* restart: unless-stopped, or else an operator; what it depends on is not asked.
StartAgain(c) == status[c] = "dead" /\ SetStatus(c, "starting") /\ UNCHANGED nfaults

\* A container still waits for one that died, is not healthy in time, or failed.
Hopeless == \/ \E c \in Server : /\ status[c] = "created"
                                 /\ \E d \in Needs[c] : status[d] \in {"starting", "dead"}
            \/ init = "created" /\ \E b \in Broker : status[b] \in {"starting", "dead"}
            \/ init = "exited" /\ \E w \in Writer : status[w] = "created"

\* docker-compose up gives up, and starts nothing more.
ComposeAborts == /\ composing /\ Hopeless /\ composing' = FALSE
                 /\ UNCHANGED <<status, init, topics, setup, checkVars, nfaults>>

\* The operator runs it again; kafka-init is started once more if it had completed.
ComposeAgain == /\ ~composing /\ composing' = TRUE
                /\ init' = IF init = "completed" THEN "created" ELSE init
                /\ UNCHANGED <<status, topics, setup, checkVars, nfaults>>

\* A topic of replication factor 3 is created when all brokers are registered.
CanCreate == \A b \in Broker : Up(b)

\* Mutant of AfterCreate: the commands are joined by ; and not by &&.
AfterCreateAnyway(i, created) == IF i = Len(Topics) THEN "list" ELSE Topics[i + 1]

\* The commands of kafka-init are joined by &&: a failure ends the container,
\* which is restarted from the first (restart: on-failure).
AfterCreate(i, created) == IF ~created THEN "exited"
                           ELSE IF i = Len(Topics) THEN "list" ELSE Topics[i + 1]

InitStart == /\ \/ init = "exited"
                \/ init = "created" /\ composing /\ \A b \in Broker : Up(b)
             /\ init' = Topics[1]
             /\ UNCHANGED <<composing, status, topics, setup, checkVars, nfaults>>

\* --create --if-not-exists.
InitCreate ==
    /\ \E i \in DOMAIN Topics :
          /\ init = Topics[i]
          /\ LET created == Up(Bootstrap) /\ (Topics[i] \in topics \/ CanCreate)
             IN /\ topics' = IF created THEN topics \cup {Topics[i]} ELSE topics
                /\ init' = AfterCreate(i, created)
    /\ UNCHANGED <<composing, status, setup, checkVars, nfaults>>

\* --list, the last command.
InitList == /\ init = "list"
            /\ init' = IF Up(Bootstrap) THEN "completed" ELSE "exited"
            /\ UNCHANGED <<composing, status, topics, setup, checkVars, nfaults>>

-----------------------------------------------------------------------------
(* setup_kafka_topics.py.                                                  *)

\* wait_for_broker, which gives up after max_wait.
SetupWait ==
    /\ setup \in {"off", "waiting"}
    /\ \/ Up(Bootstrap) /\ setup' = "creating"
       \/ ~Up(Bootstrap) /\ setup' \in {"waiting", "failed"}
    /\ UNCHANGED <<composing, status, init, topics, checkVars, nfaults>>

\* create_topics: one request for both topics, each created or refused on its
\* own; the client raises for the first one refused.  That it exists is no
\* error.  Without the broker nothing catches the exception.
SetupCreate ==
    /\ setup = "creating"
    /\ LET refused == IF CanCreate THEN topics ELSE AllTopics
           first   == SelectSeq(Topics, LAMBDA t : t \in refused)
       IN IF ~Up(Bootstrap) THEN setup' = "failed" /\ UNCHANGED topics
          ELSE /\ topics' = topics \cup (AllTopics \ refused)
               /\ setup' = IF first = <<>> \/ Head(first) \in topics THEN "verify"
                           ELSE "verify failed"
    /\ UNCHANGED <<composing, status, init, checkVars, nfaults>>

\* Mutant of Verified: the topics are not listed.
VerifiedUnlisted(listed) == setup = "verify"

Verified(listed) == setup = "verify" /\ AllTopics \subseteq listed

SetupVerify == /\ setup \in {"verify", "verify failed"}
               /\ setup' = IF Up(Bootstrap) /\ Verified(topics) THEN "complete" ELSE "failed"
               /\ UNCHANGED <<composing, status, init, topics, checkVars, nfaults>>

-----------------------------------------------------------------------------
(* health_check.py.                                                        *)

\* Each attempt asks every service again.
Kept == {}

\* One connection or request: a container that runs may answer, healthy or not.
Ask == /\ verdict = "none" /\ asked < Len(Services)
       /\ LET c == Services[asked + 1]
          IN \/ Runs(c) /\ answered' = answered \cup {c}
             \/ UNCHANGED answered
       /\ asked' = asked + 1
       /\ UNCHANGED <<composing, status, init, topics, setup, attempt, verdict, seen, nfaults>>

Conclude ==
    /\ verdict = "none" /\ asked = Len(Services)
    /\ IF ToSet(Services) \subseteq answered
       THEN verdict' = "healthy" /\ UNCHANGED <<attempt, asked, answered, seen>>
       ELSE IF attempt < Retries
       THEN /\ attempt' = attempt + 1 /\ asked' = 0 /\ answered' = Kept
            /\ seen' = {c \in Container : Runs(c)}
            /\ UNCHANGED verdict
       ELSE verdict' = "failed" /\ UNCHANGED <<attempt, asked, answered, seen>>
    /\ UNCHANGED <<composing, status, init, topics, setup, nfaults>>

-----------------------------------------------------------------------------
StartupInit ==
    /\ composing = TRUE /\ status = [c \in Container |-> "created"] /\ init = "created" /\ topics = {}
    /\ setup = "off" /\ attempt = 1 /\ asked = 0 /\ answered = {} /\ verdict = "none"
    /\ seen = {} /\ nfaults = 0

OfContainer(c) == Start(c) \/ Ready(c)

StartupNext == \/ InitStart \/ InitCreate \/ InitList \/ ComposeAborts \/ ComposeAgain
               \/ SetupWait \/ SetupCreate \/ SetupVerify \/ Ask \/ Conclude
               \/ \E c \in Container : OfContainer(c) \/ Die(c) \/ StartAgain(c)

StartupSpec == StartupInit /\ [][StartupNext]_stackVars

\* Compose starts what can start, a container becomes healthy unless it dies, Docker
\* restarts kafka-init when it failed and the containers it is told to.  Nothing is
\* assumed of the operator.
FairStartupSpec ==
    /\ StartupSpec
    /\ WF_stackVars(InitStart) /\ WF_stackVars(InitCreate) /\ WF_stackVars(InitList)
    /\ \A c \in Container : WF_stackVars(OfContainer(c))
    /\ \A c \in Restarted : WF_stackVars(StartAgain(c))

-----------------------------------------------------------------------------
(* Properties.                                                             *)

\* Nothing writes to the cluster before it has both topics, which brokers do
\* not create by themselves (KAFKA_AUTO_CREATE_TOPICS_ENABLE), however often
\* kafka-init failed and was restarted (docker-compose.yml:168 to 191).
WritersAfterTopics == \A w \in Writer : status[w] # "created" => topics = AllTopics

\* "Kafka topic setup complete" is true, whatever existed before, was refused,
\* or is being created by kafka-init at the same time, and although an error of
\* one topic hides that of the other (setup_kafka_topics.py:101 to 121).
SetupTruthful == setup = "complete" => topics = AllTopics

\* "All services healthy": each ran at some time during the last attempt.  It is no
\* snapshot: they need not have run together, nor be healthy as Docker has it
\* (health_check.py:39 and 67).
HealthySeen == verdict = "healthy" => ToSet(Services) \subseteq seen

\* What the programs that wait for the cluster say or rely on is so.
StartupTruthful == WritersAfterTopics /\ SetupTruthful /\ HealthySeen

\* What only the operator can do: docker-compose up is run again when it has given up,
\* and the containers that have no restart policy are not left dead.
OperatorAttends ==
    /\ <>[]composing
    /\ \A c \in Container \ Restarted : <>[](status[c] # "dead")

\* The stack comes up in the end if the operator attends to it: every container, and
\* both topics, whatever died or failed on the way.
StackComesUp == OperatorAttends => <>[](topics = AllTopics /\ \A c \in Container : Up(c))

=============================================================================
