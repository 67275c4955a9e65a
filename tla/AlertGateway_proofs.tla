------------------------ MODULE AlertGateway_proofs --------------------------
(***************************************************************************)
(* Proofs about AlertGateway, for any clients, any alerts, any bound on    *)
(* boots and faults.  The invariant says where the consumer task can be in *)
(* each stage of the lifespan, what a broadcast under way has still to do, *)
(* and which offsets the consumers have handed out; from it follow the     *)
(* safety properties, and that the gateway implements AlertFeed.           *)
(***************************************************************************)
EXTENDS AlertGateway, FiniteSetTheorems, TLAPS

Busy == {"inserting", "sending"}

\* The alert in hand is the last one handed out; a broadcast is under way exactly
\* while a connection of its copy of the list is still to be sent to.
LoopInv ==
    /\ Len(fate) = Len(handed)
    /\ task \in Busy => handed # <<>>
    /\ \A d \in DOMAIN fate : fate[d] = "inHand" <=> d = Current /\ task \in Busy
    /\ task = "sending" <=> pending # {}
    /\ dead # {} => task = "sending"
    /\ task = "sending" => /\ broadcasts # <<>>
                           /\ broadcasts[Len(broadcasts)] = handed[Current].offset

\* Where the consumer task and its consumer can be in each stage of the lifespan.
StageInv ==
    /\ task = "none" <=> app = "off"
    /\ task = "inserting" => pool = "open"
    /\ app = "cancelling" => task \in {"finalizing", "ended"}
    /\ app \in {"stopping", "closing"} => task = "ended"
    /\ task = "ended" => app \in {"cancelling", "stopping", "closing"}
    /\ task \in Busy \cup {"waiting", "finalizing"} => consumer = "started"
    /\ task \in {"none", "creating"} => consumer = "none"
    /\ consumer = "cut" => task = "ended"
    /\ task = "ended" => consumer # "started"
    /\ app = "stopping" => consumer = "cut"

\* Until a call fails, the only stop() is that of the cancelled task, which commits.
EndInv ==
    nfaults = 0 =>
        /\ task # "sleeping" /\ consumer # "cut"
        /\ task = "finalizing" => app = "cancelling"
        /\ consumer = "none" => position <= groupOffset

\* A broadcast works on a copy of the list: what it has still to send to may have
\* left, and what it found dead never comes back.
RegistryInv ==
    /\ RegistryExact
    /\ \A c \in Client : open[c] => handler[c] \in {"accepting", "welcome", "receiving"}
    /\ \A c \in pending : c \in connections \/ handler[c] = "done"
    /\ \A c \in dead : ~open[c] /\ handler[c] \in {"welcome", "receiving", "done"}
    /\ pending \cap dead = {}

\* A connection has been sent all alerts since it joined, but the one it still waits
\* for in a broadcast.
FeedInv ==
    /\ \A c \in Client : handler[c] \in {"new", "accepting"} => got[c] = <<>>
    /\ \A c \in connections \ dead :
         joined[c] + Len(got[c]) = IF c \in pending THEN Len(broadcasts) - 1
                                                    ELSE Len(broadcasts)

HasBeenHanded(a) == \E d \in DOMAIN handed : handed[d].offset = a

\* A consumer's position is where its offsets end, and what is committed was handed out.
OffsetInv ==
    /\ RedeliveredOnlyUncommitted
    /\ \A d \in DOMAIN handed : handed[d].assignment <= assignments
    /\ consumer = "started" =>
         /\ \A d \in DOMAIN handed : handed[d].assignment = assignments
                                       => position - handed[d].offset = Current - d
         /\ \A a \in 1..position : HasBeenHanded(a)
    /\ \A a \in 1..groupOffset : HasBeenHanded(a)

CutAlerts == {d \in DOMAIN fate : fate[d] = "cut"}

\* Only a process that is up and not yet cancelled can still cut an alert short.
CutInv == Cardinality(CutAlerts)
             <= (IF app \in {"running", "draining"} THEN boots - 1 ELSE boots)

IInv == /\ TypeOK /\ LoopInv /\ StageInv /\ RegistryInv
        /\ EndInv /\ FeedInv /\ OffsetInv /\ CutInv

-----------------------------------------------------------------------------
(* Helpers.                                                                *)

\* Any set of connections has a size.
LEMMA ConnectionsCounted ==
    ASSUME NEW S \in SUBSET Client
    PROVE  IsFiniteSet(S) /\ Cardinality(S) \in Nat
  BY ClientAssumption, FS_Subset, FS_CardinalityType

\* What the history of the alerts handed out holds.
LEMMA DeliveryType ==
    ASSUME TypeOK, NEW d \in DOMAIN handed
    PROVE  /\ handed[d] \in Delivery
           /\ handed[d].offset \in Alert /\ handed[d].assignment \in Nat
<1>1. handed[d] \in Delivery
  BY DEF TypeOK
<1>2. QED
  BY <1>1 DEF Delivery

LEMMA AlertInHand ==
    ASSUME TypeOK, LoopInv, task \in Busy
    PROVE  /\ Current \in DOMAIN handed /\ Current \in DOMAIN fate /\ Current \in Nat
           /\ handed[Current].offset \in Alert
<1>1. Current \in DOMAIN handed /\ Current \in DOMAIN fate /\ Current \in Nat
  BY DEF TypeOK, LoopInv, Current
<1>2. QED
  BY <1>1, DeliveryType

\* A broadcast begins with one more alert in the feed.
LEMMA BroadcastType ==
    ASSUME TypeOK, NEW a \in Alert, StartBroadcast(a)
    PROVE  /\ broadcasts' \in Seq(Alert) /\ pending' \subseteq Client
           /\ UNCHANGED <<dead, got>> /\ task' \in TaskStates
  BY DEF TypeOK, StartBroadcast, TaskStates

LEMMA SentType ==
    ASSUME TypeOK, NEW c \in Client, NEW a \in Alert,
           got' = [got EXCEPT ![c] = Append(@, a)]
    PROVE  got' \in [Client -> Seq(Alert)]
  BY DEF TypeOK

\* CancelledError leaves no alert in hand, and touches no other.
LEMMA CutShortType ==
    ASSUME fate \in Seq(Fates)
    PROVE  CutShort \in Seq(Fates) /\ Len(CutShort) = Len(fate)
  BY DEF CutShort, Fates

\* The fate of the alert in hand is written in its place.
LEMMA FateSettled ==
    ASSUME TypeOK, LoopInv, task \in Busy, NEW f \in Fates
    PROVE  [fate EXCEPT ![Current] = f] \in Seq(Fates)
  BY AlertInHand DEF TypeOK

\* The step of every action preserves the types.
LEMMA TypeOKKept ==
    ASSUME TypeOK, LoopInv, Next
    PROVE  TypeOK'
<1> USE KindAssumption DEF TypeOK, AppStates, TaskStates, HandlerStates, Fault,
        kafkaVars, loopVars, sendVars, managerVars, clientVars, countVars
<1>1. CASE PublishAlert
  BY <1>1 DEF PublishAlert
<1>2. CASE AutoCommit
  BY <1>2 DEF AutoCommit
<1>3. CASE CreateConsumer
  BY <1>3 DEF CreateConsumer, CreateAt
<1>4. CASE NextMessage
  <2>1. position + 1 \in Alert /\ position + 1 \in 0..MaxAlerts
    BY <1>4 DEF Alert, NextMessage, HandOut
  <2>2. [offset |-> position + 1, assignment |-> assignments] \in Delivery
    BY <2>1 DEF Delivery
  <2>3. handed' \in Seq(Delivery)
    BY <1>4, <2>2 DEF NextMessage, HandOut
  <2>4. {"rejected", "inHand", "shown"} \subseteq Fates
    BY DEF Fates
  <2>5. \E f \in Fates : fate' = Append(fate, f)
    BY <1>4, <2>4 DEF NextMessage, HandOut
  <2>6. fate' \in Seq(Fates)
    BY <2>5
  <2>7. UNCHANGED sendVars \/ StartBroadcast(position + 1)
    BY <1>4 DEF NextMessage, HandOut
  <2>8. broadcasts' \in Seq(Alert) /\ pending' \subseteq Client /\ UNCHANGED <<dead, got>>
    BY <2>1, <2>7, BroadcastType
  <2>9. task' \in TaskStates
    BY <1>4 DEF NextMessage, HandOut, StartBroadcast
  <2>10. QED
    BY <1>4, <2>1, <2>3, <2>6, <2>8, <2>9 DEF NextMessage, HandOut
<1>5. CASE Insert
  <2>1. Current \in Nat /\ handed[Current].offset \in Alert
    BY <1>5, AlertInHand DEF Insert, Busy
  <2>2. /\ broadcasts' \in Seq(Alert) /\ pending' \subseteq Client
        /\ UNCHANGED <<dead, got>> /\ task' \in TaskStates
    BY <1>5, <2>1, BroadcastType DEF Insert
  <2>3. fate' \in Seq(Fates)
    BY <1>5, FateSettled DEF Insert, Busy, Fates
  <2>4. alertRows' \in {alertRows, alertRows \cup {Current}} /\ nfaults' \in Nat
    BY <1>5 DEF Insert
  <2>5. alertRows' \subseteq Nat
    BY <2>1, <2>4
  <2>6. QED
    BY <1>5, <2>2, <2>3, <2>4, <2>5 DEF Insert
<1>6. CASE Wake
  BY <1>6 DEF Wake
<1>7. CASE Finalize
  BY <1>7 DEF Finalize, LastCommit
<1>8. CASE LoopFails
  BY <1>8 DEF LoopFails
<1>9. CASE Boot
  BY <1>9 DEF Boot
<1>10. CASE Terminate
  BY <1>10 DEF Terminate
<1>11. CASE CancelTask
  BY <1>11, CutShortType DEF CancelTask, Interrupted
<1>12. CASE TaskAwaited
  BY <1>12 DEF TaskAwaited
<1>13. CASE StopConsumer
  BY <1>13 DEF StopConsumer
<1>14. CASE ClosePool
  BY <1>14 DEF ClosePool, ProcessGone
<1>15. CASE Kill
  BY <1>15, CutShortType DEF Kill, ProcessGone
<1>16. ASSUME NEW c \in Client, SendTo(c) PROVE TypeOK'
  <2>1. handed[Current].offset \in Alert
    BY <1>16, AlertInHand DEF SendTo, Busy
  <2>2. got' = got \/ got' = [got EXCEPT ![c] = Append(@, handed[Current].offset)]
    BY <1>16 DEF SendTo
  <2>3. got' \in [Client -> Seq(Alert)]
    BY <2>1, <2>2, SentType
  <2>4. connections' \subseteq Client /\ clientsGauge' \in Nat
    BY <1>16, ConnectionsCounted DEF SendTo, Purge, SetConnections
  <2>5. fate' \in Seq(Fates)
    BY <1>16, FateSettled DEF SendTo, Busy, Fates
  <2>6. QED
    BY <1>16, <2>3, <2>4, <2>5 DEF SendTo
<1>17. ASSUME NEW c \in Client, Connect(c) PROVE TypeOK'
  BY <1>17 DEF Connect
<1>18. ASSUME NEW c \in Client, Accepted(c) PROVE TypeOK'
  <2>1. connections' \subseteq Client /\ clientsGauge' \in Nat
    BY <1>18, ConnectionsCounted DEF Accepted, SetConnections
  <2>2. joined' \in {joined, [joined EXCEPT ![c] = Len(broadcasts)]} /\ Len(broadcasts) \in Nat
    BY <1>18 DEF Accepted
  <2>3. joined' \in [Client -> Nat] /\ handler' \in [Client -> HandlerStates]
    BY <1>18, <2>2 DEF Accepted
  <2>4. QED
    BY <1>18, <2>1, <2>3 DEF Accepted
<1>19. ASSUME NEW c \in Client, Welcomed(c) PROVE TypeOK'
  BY <1>19 DEF Welcomed
<1>20. ASSUME NEW c \in Client, Disconnect(c) PROVE TypeOK'
  <2>1. connections' \subseteq Client /\ clientsGauge' \in Nat
    BY <1>20, ConnectionsCounted DEF Disconnect, Disconnects, SetConnections
  <2>2. QED
    BY <1>20, <2>1 DEF Disconnect, Disconnects
<1>21. ASSUME NEW c \in Client, Drop(c) PROVE TypeOK'
  BY <1>21 DEF Drop
<1>22. CASE Rejoin
  BY <1>22 DEF Rejoin, RejoinAt
<1>23. QED
  BY <1>1, <1>2, <1>3, <1>4, <1>5, <1>6, <1>7, <1>8, <1>9, <1>10, <1>11, <1>12,
     <1>13, <1>14, <1>15, <1>16, <1>17, <1>18, <1>19, <1>20, <1>21, <1>22 DEF Next,
     Consumer, Handler, Shutdown

\* The alert in hand and the broadcast under way.
LEMMA LoopInvKept ==
    ASSUME TypeOK, LoopInv, StageInv, RegistryInv, Next
    PROVE  LoopInv'
<1> USE DEF TypeOK, LoopInv, StageInv, Current, Busy, kafkaVars, loopVars, sendVars,
        managerVars, clientVars, countVars
<1>1. CASE PublishAlert
  BY <1>1 DEF PublishAlert
<1>2. CASE AutoCommit
  BY <1>2 DEF AutoCommit
<1>3. CASE CreateConsumer
  BY <1>3 DEF CreateConsumer, CreateAt
<1>4. CASE NextMessage
  <2>1. Len(fate') = Len(fate) + 1 /\ Len(handed') = Len(handed) + 1
    BY <1>4 DEF NextMessage, HandOut
  <2>2. \E f \in Fates : fate' = Append(fate, f)
    BY <1>4 DEF NextMessage, HandOut, Fates
  <2>3. /\ \A d \in DOMAIN fate : fate'[d] = fate[d] /\ fate[d] # "inHand"
        /\ \A d \in DOMAIN fate' : d \in DOMAIN fate \/ d = Current'
    BY <1>4, <2>1, <2>2 DEF NextMessage, HandOut
  <2>4. handed'[Current'].offset = position + 1
    BY <1>4 DEF NextMessage, HandOut
  <2>5. fate'[Current'] = "inHand" <=> task' \in Busy
    BY <1>4 DEF NextMessage, HandOut, StartBroadcast
  <2>6. task' = "sending" => broadcasts' = Append(broadcasts, position + 1)
    BY <1>4 DEF NextMessage, HandOut, StartBroadcast
  <2>7. dead' = {} /\ (task' = "sending" <=> pending' # {})
    BY <1>4 DEF NextMessage, HandOut, StartBroadcast
  <2>8. QED
    BY <2>1, <2>3, <2>4, <2>5, <2>6, <2>7
<1>5. CASE Insert
  <2>1. Current \in DOMAIN fate
    BY <1>5, AlertInHand DEF Insert
  <2>2. fate' = IF task' \in Busy THEN fate ELSE [fate EXCEPT ![Current] = "shown"]
    BY <1>5 DEF Insert, StartBroadcast
  <2>3. \A d \in DOMAIN fate' : fate'[d] = "inHand" <=> d = Current /\ task' \in Busy
    BY <1>5, <2>1, <2>2 DEF Insert
  <2>4. Len(fate') = Len(fate)
    BY <2>2
  <2>5. dead' = {} /\ task' \in {"waiting", "sending"}
        /\ (task' = "sending" <=> pending' # {})
    BY <1>5 DEF Insert, StartBroadcast
  <2>6. broadcasts' = Append(broadcasts, handed[Current].offset)
    BY <1>5 DEF Insert, StartBroadcast
  <2>7. broadcasts' # <<>> /\ broadcasts'[Len(broadcasts')] = handed[Current].offset
    BY <2>6
  <2>8. Len(handed') = Len(handed) /\ handed' = handed /\ handed # <<>>
    BY <1>5 DEF Insert
  <2>9. QED
    BY <2>3, <2>4, <2>5, <2>8, <2>7
<1>6. CASE Wake
  BY <1>6 DEF Wake
<1>7. CASE Finalize
  BY <1>7 DEF Finalize, LastCommit
<1>8. CASE LoopFails
  BY <1>8 DEF LoopFails
<1>9. CASE Boot
  BY <1>9 DEF Boot
<1>10. CASE Terminate
  BY <1>10 DEF Terminate
<1>11. CASE CancelTask
  BY <1>11 DEF CancelTask, Interrupted, CutShort
<1>12. CASE TaskAwaited
  BY <1>12 DEF TaskAwaited
<1>13. CASE StopConsumer
  BY <1>13 DEF StopConsumer
<1>14. CASE ClosePool
  BY <1>14 DEF ClosePool, ProcessGone
<1>15. CASE Kill
  BY <1>15 DEF Kill, ProcessGone, CutShort
<1>16. ASSUME NEW c \in Client, SendTo(c) PROVE LoopInv'
  <2>1. Current \in DOMAIN fate
    BY <1>16, AlertInHand DEF SendTo
  <2>2. CASE pending = {c}
    <3>1. fate' = [fate EXCEPT ![Current] = "shown"] /\ task' = "waiting"
      BY <1>16, <2>2 DEF SendTo
    <3>2. Len(fate') = Len(fate) /\ \A d \in DOMAIN fate' : fate'[d] # "inHand"
      BY <1>16, <2>1, <3>1 DEF SendTo
    <3>3. QED
      BY <1>16, <2>2, <3>1, <3>2 DEF SendTo
  <2>3. CASE pending # {c}
    BY <1>16, <2>3 DEF SendTo
  <2>4. QED
    BY <2>2, <2>3
<1>17. ASSUME NEW c \in Client, Connect(c) PROVE LoopInv'
  BY <1>17 DEF Connect
<1>18. ASSUME NEW c \in Client, Accepted(c) PROVE LoopInv'
  BY <1>18 DEF Accepted, SetConnections
<1>19. ASSUME NEW c \in Client, Welcomed(c) PROVE LoopInv'
  BY <1>19 DEF Welcomed
<1>20. ASSUME NEW c \in Client, Disconnect(c) PROVE LoopInv'
  BY <1>20 DEF Disconnect, Disconnects, SetConnections
<1>21. ASSUME NEW c \in Client, Drop(c) PROVE LoopInv'
  BY <1>21 DEF Drop
<1>22. CASE Rejoin
  BY <1>22 DEF Rejoin, RejoinAt
<1>23. QED
  BY <1>1, <1>2, <1>3, <1>4, <1>5, <1>6, <1>7, <1>8, <1>9, <1>10, <1>11, <1>12,
     <1>13, <1>14, <1>15, <1>16, <1>17, <1>18, <1>19, <1>20, <1>21, <1>22 DEF Next,
     Consumer, Handler, Shutdown

\* The lifespan, the consumer task and its consumer.
LEMMA StageInvKept ==
    ASSUME TypeOK, LoopInv, StageInv, Next
    PROVE  StageInv'
<1> USE DEF TypeOK, LoopInv, StageInv, TaskStates, AppStates, Fault, Busy,
        kafkaVars, loopVars, sendVars, managerVars, clientVars, countVars
<1>1. CASE PublishAlert
  BY <1>1 DEF PublishAlert
<1>2. CASE AutoCommit
  BY <1>2 DEF AutoCommit
<1>3. CASE CreateConsumer
  BY <1>3 DEF CreateConsumer, CreateAt
<1>4. CASE NextMessage
  BY <1>4 DEF NextMessage, HandOut, StartBroadcast
<1>5. CASE Insert
  BY <1>5 DEF Insert, StartBroadcast
<1>6. CASE Wake
  BY <1>6 DEF Wake
<1>7. CASE Finalize
  BY <1>7 DEF Finalize, LastCommit
<1>8. CASE LoopFails
  BY <1>8 DEF LoopFails
<1>9. CASE Boot
  BY <1>9 DEF Boot
<1>10. CASE Terminate
  BY <1>10 DEF Terminate
<1>11. CASE CancelTask
  BY <1>11 DEF CancelTask, Interrupted, CutShort
<1>12. CASE TaskAwaited
  BY <1>12 DEF TaskAwaited
<1>13. CASE StopConsumer
  BY <1>13 DEF StopConsumer
<1>14. CASE ClosePool
  BY <1>14 DEF ClosePool, ProcessGone
<1>15. CASE Kill
  BY <1>15 DEF Kill, ProcessGone, CutShort
<1>16. ASSUME NEW c \in Client, SendTo(c) PROVE StageInv'
  BY <1>16 DEF SendTo, Purge, SetConnections
<1>17. ASSUME NEW c \in Client, Connect(c) PROVE StageInv'
  BY <1>17 DEF Connect
<1>18. ASSUME NEW c \in Client, Accepted(c) PROVE StageInv'
  BY <1>18 DEF Accepted, SetConnections
<1>19. ASSUME NEW c \in Client, Welcomed(c) PROVE StageInv'
  BY <1>19 DEF Welcomed
<1>20. ASSUME NEW c \in Client, Disconnect(c) PROVE StageInv'
  BY <1>20 DEF Disconnect, Disconnects, SetConnections
<1>21. ASSUME NEW c \in Client, Drop(c) PROVE StageInv'
  BY <1>21 DEF Drop
<1>22. CASE Rejoin
  BY <1>22 DEF Rejoin, RejoinAt
<1>23. QED
  BY <1>1, <1>2, <1>3, <1>4, <1>5, <1>6, <1>7, <1>8, <1>9, <1>10, <1>11, <1>12,
     <1>13, <1>14, <1>15, <1>16, <1>17, <1>18, <1>19, <1>20, <1>21, <1>22 DEF Next,
     Consumer, Handler, Shutdown

\* The registry, whoever writes the list.
LEMMA RegistryInvKept ==
    ASSUME TypeOK, LoopInv, StageInv, RegistryInv, Next
    PROVE  RegistryInv'
<1> USE FS_EmptySet DEF TypeOK, LoopInv, StageInv, RegistryInv, RegistryExact,
        HandlerStates, Busy, kafkaVars, loopVars, sendVars, managerVars, clientVars,
        countVars
<1>1. CASE PublishAlert
  BY <1>1 DEF PublishAlert
<1>2. CASE AutoCommit
  BY <1>2 DEF AutoCommit
<1>3. CASE CreateConsumer
  BY <1>3 DEF CreateConsumer, CreateAt
<1>4. CASE NextMessage
  BY <1>4 DEF NextMessage, HandOut, StartBroadcast
<1>5. CASE Insert
  BY <1>5 DEF Insert, StartBroadcast
<1>6. CASE Wake
  BY <1>6 DEF Wake
<1>7. CASE Finalize
  BY <1>7 DEF Finalize, LastCommit
<1>8. CASE LoopFails
  BY <1>8 DEF LoopFails
<1>9. CASE Boot
  BY <1>9 DEF Boot
<1>10. CASE Terminate
  BY <1>10 DEF Terminate
<1>11. CASE CancelTask
  BY <1>11 DEF CancelTask, Interrupted, CutShort
<1>12. CASE TaskAwaited
  BY <1>12 DEF TaskAwaited
<1>13. CASE StopConsumer
  BY <1>13 DEF StopConsumer
<1>14. CASE ClosePool
  BY <1>14 DEF ClosePool, ProcessGone
<1>15. CASE Kill
  BY <1>15 DEF Kill, ProcessGone, CutShort
<1>16. ASSUME NEW c \in Client, SendTo(c) PROVE RegistryInv'
  <2>1. PICK failed \in {dead, dead \cup {c}} :
              /\ failed # dead => ~open[c]
              /\ IF pending = {c} THEN Purge(failed) /\ dead' = {}
                                  ELSE UNCHANGED managerVars /\ dead' = failed
    BY <1>16 DEF SendTo
  <2>2. pending' = pending \ {c} /\ UNCHANGED <<handler, open>>
    BY <1>16 DEF SendTo
  <2>3. \A d \in failed : ~open[d] /\ handler[d] \in {"welcome", "receiving", "done"}
    BY <1>16, <2>1 DEF SendTo
  <2>4. connections' = connections \/ connections' = connections \ failed
    BY <2>1 DEF Purge, SetConnections
  <2>5. clientsGauge' = Cardinality(connections')
    BY <2>1 DEF Purge, SetConnections
  <2>6. \A d \in pending' : d \in connections' \/ handler'[d] = "done"
    BY <2>1, <2>2
  <2>7. dead' \subseteq failed /\ pending' \cap dead' = {}
    BY <2>1, <2>2
  <2>8. QED
    BY <2>2, <2>3, <2>4, <2>5, <2>6, <2>7
<1>17. ASSUME NEW c \in Client, Connect(c) PROVE RegistryInv'
  BY <1>17 DEF Connect
<1>18. ASSUME NEW c \in Client, Accepted(c) PROVE RegistryInv'
  <2>1. CASE handler' = [handler EXCEPT ![c] = "done"] /\ UNCHANGED managerVars /\ ~open[c]
    BY <1>18, <2>1 DEF Accepted
  <2>2. CASE handler' = [handler EXCEPT ![c] = "welcome"] /\ SetConnections(connections \cup {c})
    BY <1>18, <2>2 DEF Accepted, SetConnections
  <2>3. QED
    BY <1>18, <2>1, <2>2 DEF Accepted
<1>19. ASSUME NEW c \in Client, Welcomed(c) PROVE RegistryInv'
  BY <1>19 DEF Welcomed
<1>20. ASSUME NEW c \in Client, Disconnect(c) PROVE RegistryInv'
  BY <1>20 DEF Disconnect, Disconnects, SetConnections
<1>21. ASSUME NEW c \in Client, Drop(c) PROVE RegistryInv'
  BY <1>21 DEF Drop
<1>22. CASE Rejoin
  BY <1>22 DEF Rejoin, RejoinAt
<1>23. QED
  BY <1>1, <1>2, <1>3, <1>4, <1>5, <1>6, <1>7, <1>8, <1>9, <1>10, <1>11, <1>12,
     <1>13, <1>14, <1>15, <1>16, <1>17, <1>18, <1>19, <1>20, <1>21, <1>22 DEF Next,
     Consumer, Handler, Shutdown

\* What the clients have been sent.
LEMMA FeedInvKept ==
    ASSUME TypeOK, LoopInv, StageInv, RegistryInv, FeedInv, Next
    PROVE  FeedInv'
<1> USE DEF TypeOK, LoopInv, StageInv, RegistryInv, RegistryExact, FeedInv,
        HandlerStates, Busy, kafkaVars, loopVars, sendVars, managerVars, clientVars,
        countVars
<1>1. CASE PublishAlert
  BY <1>1 DEF PublishAlert
<1>2. CASE AutoCommit
  BY <1>2 DEF AutoCommit
<1>3. CASE CreateConsumer
  BY <1>3 DEF CreateConsumer, CreateAt
<1>4. CASE NextMessage
  <2>1. CASE UNCHANGED sendVars
    BY <1>4, <2>1 DEF NextMessage, HandOut
  <2>2. CASE StartBroadcast(position + 1)
    <3>1. Len(broadcasts') = Len(broadcasts) + 1 /\ Len(broadcasts) \in Nat
      BY <2>2 DEF StartBroadcast
    <3>2. QED
      BY <1>4, <2>2, <3>1 DEF NextMessage, HandOut, StartBroadcast
  <2>3. QED
    BY <1>4, <2>1, <2>2 DEF NextMessage, HandOut
<1>5. CASE Insert
  <2>1. Len(broadcasts') = Len(broadcasts) + 1 /\ Len(broadcasts) \in Nat
    BY <1>5 DEF Insert, StartBroadcast
  <2>2. QED
    BY <1>5, <2>1 DEF Insert, StartBroadcast
<1>6. CASE Wake
  BY <1>6 DEF Wake
<1>7. CASE Finalize
  BY <1>7 DEF Finalize, LastCommit
<1>8. CASE LoopFails
  BY <1>8 DEF LoopFails
<1>9. CASE Boot
  BY <1>9 DEF Boot
<1>10. CASE Terminate
  BY <1>10 DEF Terminate
<1>11. CASE CancelTask
  BY <1>11 DEF CancelTask, Interrupted, CutShort
<1>12. CASE TaskAwaited
  BY <1>12 DEF TaskAwaited
<1>13. CASE StopConsumer
  BY <1>13 DEF StopConsumer
<1>14. CASE ClosePool
  BY <1>14 DEF ClosePool, ProcessGone
<1>15. CASE Kill
  BY <1>15 DEF Kill, ProcessGone, CutShort
<1>16. ASSUME NEW c \in Client, SendTo(c) PROVE FeedInv'
  <2>1. PICK failed \in {dead, dead \cup {c}} :
              /\ IF failed = dead
                 THEN /\ handler[c] # "done"
                      /\ got' = [got EXCEPT ![c] = Append(@, handed[Current].offset)]
                 ELSE UNCHANGED got
              /\ IF pending = {c} THEN Purge(failed) /\ dead' = {}
                                  ELSE UNCHANGED managerVars /\ dead' = failed
    BY <1>16 DEF SendTo
  <2>2. pending' = pending \ {c} /\ UNCHANGED <<handler, joined, broadcasts>>
    BY <1>16 DEF SendTo
  <2>3. connections' \ dead' = connections \ failed
    BY <2>1 DEF Purge, SetConnections
  <2>4. c \in pending /\ c \notin dead /\ handler[c] \in {"welcome", "receiving", "done"}
    BY <1>16 DEF SendTo
  <2>5. CASE failed = dead
    <3>1. c \in connections
      BY <2>1, <2>4, <2>5
    <3>2. Len(got'[c]) = Len(got[c]) + 1 /\ Len(got[c]) \in Nat
      BY <2>1, <2>5
    <3>3. \A d \in Client : d # c => got'[d] = got[d]
      BY <2>1, <2>5
    <3>4. joined[c] \in Nat /\ Len(broadcasts) \in Nat
      OBVIOUS
    <3>5. joined'[c] + Len(got'[c]) = Len(broadcasts')
      BY <2>2, <2>4, <3>1, <3>2, <3>4
    <3>6. \A d \in Client : handler'[d] \in {"new", "accepting"} => got'[d] = <<>>
      BY <2>2, <2>4, <3>3
    <3>7. ASSUME NEW d \in connections' \ dead', d # c
          PROVE  joined'[d] + Len(got'[d]) = IF d \in pending' THEN Len(broadcasts') - 1
                                                               ELSE Len(broadcasts')
      BY <2>2, <2>3, <2>5, <3>3, <3>7
    <3>8. QED
      BY <2>2, <3>5, <3>6, <3>7
  <2>6. CASE failed # dead
    BY <2>1, <2>2, <2>3, <2>4, <2>6
  <2>7. QED
    BY <2>5, <2>6
<1>17. ASSUME NEW c \in Client, Connect(c) PROVE FeedInv'
  BY <1>17 DEF Connect
<1>18. ASSUME NEW c \in Client, Accepted(c) PROVE FeedInv'
  <2>1. CASE handler' = [handler EXCEPT ![c] = "done"] /\ UNCHANGED <<managerVars, joined>>
    BY <1>18, <2>1 DEF Accepted
  <2>2. CASE /\ handler' = [handler EXCEPT ![c] = "welcome"]
             /\ connections' = connections \cup {c}
             /\ joined' = [joined EXCEPT ![c] = Len(broadcasts)]
    <3>1. c \notin pending /\ c \notin dead /\ got[c] = <<>>
      BY <1>18 DEF Accepted
    <3>2. Len(got[c]) = 0
      BY <3>1
    <3>3. Len(broadcasts) \in Nat
      OBVIOUS
    <3>4. QED
      BY <1>18, <2>2, <3>1, <3>3, <3>2 DEF Accepted
  <2>3. QED
    BY <1>18, <2>1, <2>2 DEF Accepted, SetConnections
<1>19. ASSUME NEW c \in Client, Welcomed(c) PROVE FeedInv'
  BY <1>19 DEF Welcomed
<1>20. ASSUME NEW c \in Client, Disconnect(c) PROVE FeedInv'
  BY <1>20 DEF Disconnect, Disconnects, SetConnections
<1>21. ASSUME NEW c \in Client, Drop(c) PROVE FeedInv'
  BY <1>21 DEF Drop
<1>22. CASE Rejoin
  BY <1>22 DEF Rejoin, RejoinAt
<1>23. QED
  BY <1>1, <1>2, <1>3, <1>4, <1>5, <1>6, <1>7, <1>8, <1>9, <1>10, <1>11, <1>12,
     <1>13, <1>14, <1>15, <1>16, <1>17, <1>18, <1>19, <1>20, <1>21, <1>22 DEF Next,
     Consumer, Handler, Shutdown

\* A consumer hands out the offset after its position.
LEMMA NextMessageExtends ==
    ASSUME TypeOK, StageInv, OffsetInv, NextMessage
    PROVE  OffsetInv'
<1> DEFINE new == [offset |-> position + 1, assignment |-> assignments]
<1>1. /\ handed' = Append(handed, new) /\ new \in Delivery
      /\ position' = position + 1 /\ UNCHANGED <<consumer, assignments, groupOffset>>
  BY KindAssumption
     DEF NextMessage, HandOut, TypeOK, Delivery, Alert, kafkaVars, countVars
<1>2. consumer = "started" /\ assignments \in Nat /\ position \in Nat /\ groupOffset \in Nat
  BY KindAssumption DEF NextMessage, HandOut, StageInv, TypeOK
<1>3. /\ Current \in Nat /\ Current' = Current + 1
      /\ DOMAIN handed = 1..Current /\ DOMAIN handed' = 1..Current'
      /\ handed'[Current'] = new
      /\ \A d \in DOMAIN handed : handed'[d] = handed[d]
  BY <1>1 DEF TypeOK, Current
<1>4. \A d \in DOMAIN handed : handed[d].offset \in Int /\ handed[d].assignment \in Int
  BY DeliveryType DEF Alert
<1>5. \A d \in DOMAIN handed' : d # Current' => d \in DOMAIN handed /\ handed'[d] = handed[d]
  BY <1>3
<1>6. \A d \in DOMAIN handed' : handed'[d].assignment <= assignments'
  BY <1>1, <1>2, <1>3, <1>5 DEF OffsetInv
<1>7. ASSUME NEW d \in DOMAIN handed', handed'[d].assignment = assignments'
      PROVE  position' - handed'[d].offset = Current' - d
  <2>1. CASE d = Current'
    BY <1>1, <1>2, <1>3, <2>1
  <2>2. CASE d # Current'
    <3>1. d \in DOMAIN handed /\ handed'[d] = handed[d] /\ handed[d].assignment = assignments
      BY <1>1, <1>5, <1>7, <2>2
    <3>2. position - handed[d].offset = Current - d
      BY <1>2, <3>1 DEF OffsetInv
    <3>3. d \in Int /\ handed'[d].offset \in Int
      BY <1>3, <1>4, <3>1
    <3>4. position' = position + 1 /\ Current' = Current + 1
      BY <1>1, <1>3
    <3>5. handed'[d].offset = handed[d].offset
      BY <3>1
    <3>6. QED
      BY <1>2, <1>3, <3>2, <3>3, <3>4, <3>5
  <2>3. QED
    BY <2>1, <2>2
<1>8. \A a : HasBeenHanded(a) => HasBeenHanded(a)'
  BY <1>3 DEF HasBeenHanded
<1>9. \A a : a = position + 1 => HasBeenHanded(a)'
  BY <1>3 DEF HasBeenHanded
<1>10. \A a \in 1..position' : HasBeenHanded(a)'
  BY <1>1, <1>2, <1>8, <1>9 DEF OffsetInv
<1>11. \A a \in 1..groupOffset' : HasBeenHanded(a)'
  BY <1>1, <1>8 DEF OffsetInv
<1>12. ASSUME NEW d \in DOMAIN handed', NEW e \in DOMAIN handed',
              d < e, handed'[d].assignment = handed'[e].assignment
       PROVE  handed'[e].offset - handed'[d].offset = e - d
  <2>1. CASE e = Current'
    <3>1. d # Current' /\ d \in Int
      BY <1>3, <1>12, <2>1
    <3>2. handed'[e].assignment = assignments' /\ handed'[e].offset = position'
      BY <1>1, <1>3, <2>1
    <3>3. position' - handed'[d].offset = Current' - d
      BY <1>7, <1>12, <3>2
    <3>4. QED
      BY <2>1, <3>2, <3>3
  <2>2. CASE e # Current'
    BY <1>3, <1>5, <1>12, <2>2 DEF OffsetInv, RedeliveredOnlyUncommitted
  <2>3. QED
    BY <2>1, <2>2
<1>13. ASSUME NEW d \in DOMAIN handed', NEW a \in 1..(handed'[d].offset - 1)
       PROVE  \E e \in 1..(d - 1) : handed'[e].offset = a
  <2>1. CASE d = Current'
    <3>1. a \in 1..position
      BY <1>1, <1>2, <1>3, <1>13, <2>1
    <3>2. PICK e \in DOMAIN handed : handed[e].offset = a
      BY <1>2, <3>1 DEF OffsetInv, HasBeenHanded
    <3>3. e \in 1..(d - 1) /\ handed'[e] = handed[e]
      BY <1>3, <2>1, <3>2
    <3>4. QED
      BY <3>2, <3>3
  <2>2. CASE d # Current'
    <3>1. d \in DOMAIN handed /\ handed'[d] = handed[d]
      BY <1>5, <2>2
    <3>2. PICK e \in 1..(d - 1) : handed[e].offset = a
      BY <1>13, <3>1 DEF OffsetInv, RedeliveredOnlyUncommitted
    <3>3. e \in DOMAIN handed
      BY <1>3, <3>1, <3>2
    <3>4. QED
      BY <1>3, <3>2, <3>3
  <2>3. QED
    BY <2>1, <2>2
<1>14. groupOffset' <= position'
  BY <1>1, <1>2 DEF OffsetInv, RedeliveredOnlyUncommitted
<1>15. QED
  BY <1>6, <1>7, <1>10, <1>11, <1>12, <1>13, <1>14 DEF OffsetInv, RedeliveredOnlyUncommitted

\* A new assignment starts from the committed offset with no delivery of its own.
LEMMA AssignmentStarts ==
    ASSUME TypeOK, OffsetInv, UNCHANGED <<handed, groupOffset>>,
           position' = groupOffset, assignments' = assignments + 1
    PROVE  OffsetInv'
<1>1. \A d \in DOMAIN handed : /\ handed[d].assignment \in Nat
                               /\ handed[d].assignment < assignments'
  <2>1. assignments \in Nat
    BY DEF TypeOK
  <2>2. QED
    BY <2>1, DeliveryType DEF OffsetInv
<1>2. assignments' \in Nat /\ groupOffset \in Nat
  BY DEF TypeOK
<1>3. RedeliveredOnlyUncommitted'
  BY <1>2 DEF OffsetInv, RedeliveredOnlyUncommitted
<1>4. \A a \in 1..groupOffset : HasBeenHanded(a)'
  BY DEF OffsetInv, HasBeenHanded
<1>5. \A d \in DOMAIN handed : handed[d].assignment <= assignments'
                              /\ handed[d].assignment # assignments'
  BY <1>1, <1>2
<1>6. QED
  BY <1>3, <1>4, <1>5 DEF OffsetInv

\* The offsets handed out and committed.
LEMMA OffsetInvKept ==
    ASSUME TypeOK, LoopInv, StageInv, OffsetInv, Next
    PROVE  OffsetInv'
<1> USE DEF TypeOK, LoopInv, StageInv, OffsetInv, RedeliveredOnlyUncommitted,
        HasBeenHanded, Current, Busy, Fault, kafkaVars, loopVars, sendVars,
        managerVars, clientVars, countVars
<1>1. CASE PublishAlert
  BY <1>1 DEF PublishAlert
<1>2. CASE AutoCommit
  BY <1>2 DEF AutoCommit
<1>3. CASE CreateConsumer
  <2>1. CASE UNCHANGED <<consumer, position, assignments>>
    BY <1>3, <2>1 DEF CreateConsumer, CreateAt
  <2>2. CASE position' = groupOffset /\ assignments' = assignments + 1
    BY <1>3, <2>2, AssignmentStarts DEF CreateConsumer, CreateAt
  <2>3. QED
    BY <1>3, <2>1, <2>2 DEF CreateConsumer, CreateAt
<1>4. CASE NextMessage
  BY <1>4, NextMessageExtends
<1>5. CASE Insert
  BY <1>5 DEF Insert, StartBroadcast
<1>6. CASE Wake
  BY <1>6 DEF Wake
<1>7. CASE Finalize
  BY <1>7 DEF Finalize, LastCommit
<1>8. CASE LoopFails
  BY <1>8 DEF LoopFails
<1>9. CASE Boot
  BY <1>9 DEF Boot
<1>10. CASE Terminate
  BY <1>10 DEF Terminate
<1>11. CASE CancelTask
  BY <1>11 DEF CancelTask, Interrupted, CutShort
<1>12. CASE TaskAwaited
  BY <1>12 DEF TaskAwaited
<1>13. CASE StopConsumer
  BY <1>13 DEF StopConsumer
<1>14. CASE ClosePool
  BY <1>14 DEF ClosePool, ProcessGone
<1>15. CASE Kill
  BY <1>15 DEF Kill, ProcessGone, CutShort
<1>16. ASSUME NEW c \in Client, SendTo(c) PROVE OffsetInv'
  BY <1>16 DEF SendTo, Purge, SetConnections
<1>17. ASSUME NEW c \in Client, Connect(c) PROVE OffsetInv'
  BY <1>17 DEF Connect
<1>18. ASSUME NEW c \in Client, Accepted(c) PROVE OffsetInv'
  BY <1>18 DEF Accepted, SetConnections
<1>19. ASSUME NEW c \in Client, Welcomed(c) PROVE OffsetInv'
  BY <1>19 DEF Welcomed
<1>20. ASSUME NEW c \in Client, Disconnect(c) PROVE OffsetInv'
  BY <1>20 DEF Disconnect, Disconnects, SetConnections
<1>21. ASSUME NEW c \in Client, Drop(c) PROVE OffsetInv'
  BY <1>21 DEF Drop
<1>22. CASE Rejoin
  BY <1>22, AssignmentStarts DEF Rejoin, RejoinAt
<1>23. QED
  BY <1>1, <1>2, <1>3, <1>4, <1>5, <1>6, <1>7, <1>8, <1>9, <1>10, <1>11, <1>12,
     <1>13, <1>14, <1>15, <1>16, <1>17, <1>18, <1>19, <1>20, <1>21, <1>22 DEF Next,
     Consumer, Handler, Shutdown

\* Until a call fails, no stop() is cut short.
LEMMA EndInvKept ==
    ASSUME TypeOK, StageInv, EndInv, Next
    PROVE  EndInv'
<1> USE DEF TypeOK, StageInv, EndInv, Busy, Fault, kafkaVars, loopVars, sendVars,
        managerVars, clientVars, countVars
<1>1. CASE PublishAlert
  BY <1>1 DEF PublishAlert
<1>2. CASE AutoCommit
  BY <1>2 DEF AutoCommit
<1>3. CASE CreateConsumer
  BY <1>3 DEF CreateConsumer, CreateAt
<1>4. CASE NextMessage
  BY <1>4 DEF NextMessage, HandOut, StartBroadcast
<1>5. CASE Insert
  BY <1>5 DEF Insert, StartBroadcast
<1>6. CASE Wake
  BY <1>6 DEF Wake
<1>7. CASE Finalize
  BY <1>7 DEF Finalize, LastCommit
<1>8. CASE LoopFails
  BY <1>8 DEF LoopFails
<1>9. CASE Boot
  BY <1>9 DEF Boot
<1>10. CASE Terminate
  BY <1>10 DEF Terminate
<1>11. CASE CancelTask
  BY <1>11 DEF CancelTask, Interrupted
<1>12. CASE TaskAwaited
  BY <1>12 DEF TaskAwaited
<1>13. CASE StopConsumer
  BY <1>13 DEF StopConsumer
<1>14. CASE ClosePool
  BY <1>14 DEF ClosePool, ProcessGone
<1>15. CASE Kill
  BY <1>15 DEF Kill, ProcessGone
<1>16. ASSUME NEW c \in Client, SendTo(c) PROVE EndInv'
  BY <1>16 DEF SendTo
<1>17. ASSUME NEW c \in Client, Connect(c) PROVE EndInv'
  BY <1>17 DEF Connect
<1>18. ASSUME NEW c \in Client, Accepted(c) PROVE EndInv'
  BY <1>18 DEF Accepted
<1>19. ASSUME NEW c \in Client, Welcomed(c) PROVE EndInv'
  BY <1>19 DEF Welcomed
<1>20. ASSUME NEW c \in Client, Disconnect(c) PROVE EndInv'
  BY <1>20 DEF Disconnect, Disconnects
<1>21. ASSUME NEW c \in Client, Drop(c) PROVE EndInv'
  BY <1>21 DEF Drop
<1>22. CASE Rejoin
  BY <1>22 DEF Rejoin, RejoinAt
<1>23. QED
  BY <1>1, <1>2, <1>3, <1>4, <1>5, <1>6, <1>7, <1>8, <1>9, <1>10, <1>11, <1>12,
     <1>13, <1>14, <1>15, <1>16, <1>17, <1>18, <1>19, <1>20, <1>21, <1>22 DEF Next,
     Consumer, Handler, Shutdown

-----------------------------------------------------------------------------
(* Alerts cut short.                                                       *)

LEMMA CutIsFinite ==
    ASSUME TypeOK
    PROVE  IsFiniteSet(CutAlerts) /\ Cardinality(CutAlerts) \in Nat
<1>1. IsFiniteSet(1..Len(fate)) /\ CutAlerts \in SUBSET (1..Len(fate))
  BY FS_Interval DEF TypeOK, CutAlerts
<1>2. QED
  BY <1>1, FS_Subset, FS_CardinalityType

\* A step that ends no process cuts nothing short.
LEMMA NothingCut ==
    ASSUME TypeOK, LoopInv, StageInv, Next, ~CancelTask, ~Kill
    PROVE  CutAlerts' = CutAlerts
<1>1. CASE UNCHANGED fate
  BY <1>1 DEF CutAlerts
<1>2. CASE NextMessage
  <2>1. \E f \in Fates \ {"cut"} : fate' = Append(fate, f)
    BY <1>2 DEF NextMessage, HandOut, Fates
  <2>2. QED
    BY <2>1 DEF CutAlerts, TypeOK
<1>3. ASSUME task \in Busy, fate' = [fate EXCEPT ![Current] = "shown"]
      PROVE  CutAlerts' = CutAlerts
  <2>1. Current \in DOMAIN fate /\ fate[Current] = "inHand"
    BY <1>3, AlertInHand DEF LoopInv
  <2>2. QED
    BY <1>3, <2>1 DEF CutAlerts, TypeOK
<1>4. CASE Insert
  BY <1>1, <1>3, <1>4 DEF Insert, Busy
<1>5. ASSUME NEW c \in Client, SendTo(c) PROVE CutAlerts' = CutAlerts
  BY <1>1, <1>3, <1>5 DEF SendTo, Busy
<1>6. UNCHANGED fate \/ NextMessage \/ Insert \/ \E c \in Client : SendTo(c)
  BY DEF Next, Consumer, Handler, Shutdown, PublishAlert, AutoCommit, CreateConsumer,
         CreateAt, Wake, Finalize, LoopFails, Rejoin, RejoinAt, Connect, Accepted, Welcomed, Disconnect,
         Disconnects, Drop, Boot, Terminate, TaskAwaited, StopConsumer,
         ClosePool
<1>7. QED
  BY <1>1, <1>2, <1>4, <1>5, <1>6

\* A process that ends cuts short the alert in hand, if there is one.
LEMMA CutAtMostOne ==
    ASSUME TypeOK, LoopInv, fate' = CutShort
    PROVE  /\ task \notin Busy => CutAlerts' = CutAlerts
           /\ Cardinality(CutAlerts') \in Nat
           /\ Cardinality(CutAlerts') <= Cardinality(CutAlerts) + 1
<1>1. CutAlerts' = CutAlerts \cup {d \in DOMAIN fate : fate[d] = "inHand"}
  BY DEF CutAlerts, CutShort, TypeOK
<1>2. task \notin Busy => CutAlerts' = CutAlerts
  BY <1>1 DEF LoopInv
<1>3. CutAlerts' = CutAlerts \/ CutAlerts' = CutAlerts \cup {Current}
  BY <1>1 DEF LoopInv
<1>4. IsFiniteSet(CutAlerts) /\ Cardinality(CutAlerts) \in Nat
  BY CutIsFinite
<1>5. /\ Cardinality(CutAlerts \cup {Current}) \in Nat
      /\ Cardinality(CutAlerts \cup {Current}) <= Cardinality(CutAlerts) + 1
  BY <1>4, FS_AddElement
<1>6. QED
  BY <1>2, <1>3, <1>4, <1>5

LEMMA CutInvKept ==
    ASSUME TypeOK, LoopInv, StageInv, CutInv, Next
    PROVE  CutInv'
<1>1. boots \in Nat /\ Cardinality(CutAlerts) \in Nat
  BY CutIsFinite DEF TypeOK
<1>2. CASE CancelTask
  <2>1. app = "draining" /\ app' = "cancelling" /\ boots' = boots /\ fate' = CutShort
    BY <1>2 DEF CancelTask, countVars
  <2>2. Cardinality(CutAlerts') <= Cardinality(CutAlerts) + 1 /\ Cardinality(CutAlerts') \in Nat
    BY <2>1, CutAtMostOne
  <2>3. QED
    BY <1>1, <2>1, <2>2 DEF CutInv
<1>3. CASE Kill
  <2>1. app' = "off" /\ boots' = boots /\ fate' = CutShort
    BY <1>3 DEF Kill, ProcessGone, countVars
  <2>2. app \notin {"running", "draining"} => CutAlerts' = CutAlerts
    BY <2>1, CutAtMostOne DEF StageInv, Busy, TypeOK, AppStates
  <2>3. Cardinality(CutAlerts') <= Cardinality(CutAlerts) + 1 /\ Cardinality(CutAlerts') \in Nat
    BY <2>1, CutAtMostOne
  <2>4. app \notin {"running", "draining"} => Cardinality(CutAlerts') = Cardinality(CutAlerts)
    BY <2>2
  <2>5. QED
    BY <1>1, <2>1, <2>3, <2>4 DEF CutInv
<1>4. CASE Boot
  BY <1>1, <1>4, NothingCut DEF Boot, CutInv, CancelTask, Kill
<1>5. CASE ~CancelTask /\ ~Kill /\ ~Boot
  <2>1. CutAlerts' = CutAlerts /\ boots' = boots
    BY <1>5, NothingCut
       DEF Next, Consumer, Handler, Shutdown, PublishAlert, AutoCommit, CreateConsumer,
           CreateAt, NextMessage, HandOut, Insert, SendTo, Wake, Finalize, LoopFails, Rejoin, RejoinAt,
           Connect, Accepted, Welcomed, Disconnect, Disconnects, Drop, Terminate,
           TaskAwaited, StopConsumer, ClosePool, countVars
  <2>2. app' \in {"running", "draining"} <=> app \in {"running", "draining"}
    BY <1>5
       DEF Next, Consumer, Handler, Shutdown, PublishAlert, AutoCommit, CreateConsumer,
           CreateAt, NextMessage, HandOut, Insert, SendTo, Wake, Finalize, LoopFails, Rejoin, RejoinAt,
           Connect, Accepted, Welcomed, Disconnect, Disconnects, Drop, Terminate,
           TaskAwaited, StopConsumer, ClosePool, ProcessGone
  <2>3. QED
    BY <2>1, <2>2 DEF CutInv
<1>6. QED
  BY <1>2, <1>3, <1>4, <1>5

-----------------------------------------------------------------------------
(* The invariant, and the properties that follow from it.                  *)

LEMMA InitIInv == Init => IInv
<1> SUFFICES ASSUME Init PROVE IInv
  OBVIOUS
<1> USE DEF Init, Current
<1>1. TypeOK
  BY KindAssumption, BoundAssumption
     DEF TypeOK, AppStates, TaskStates, HandlerStates, Delivery, Fates
<1>2. LoopInv /\ StageInv /\ EndInv
  BY DEF LoopInv, StageInv, EndInv, Busy
<1>3. RegistryInv
  BY FS_EmptySet DEF RegistryInv, RegistryExact
<1>4. FeedInv /\ OffsetInv
  BY DEF FeedInv, OffsetInv, RedeliveredOnlyUncommitted
<1>5. CutAlerts = {}
  BY DEF CutAlerts
<1>6. CutInv
  BY <1>5, FS_EmptySet DEF CutInv
<1>7. QED
  BY <1>1, <1>2, <1>3, <1>4, <1>6 DEF IInv

LEMMA NextKeepsIInv == IInv /\ [Next]_vars => IInv'
<1>1. ASSUME IInv, Next PROVE IInv'
  BY <1>1, TypeOKKept, LoopInvKept, StageInvKept, RegistryInvKept, FeedInvKept,
     EndInvKept, OffsetInvKept, CutInvKept DEF IInv
<1>2. ASSUME IInv, UNCHANGED vars PROVE IInv'
  <2> USE <1>2 DEF IInv, vars, kafkaVars, loopVars, sendVars, managerVars, clientVars, countVars
  <2>1. TypeOK'
    BY DEF TypeOK
  <2>2. LoopInv' /\ StageInv' /\ EndInv'
    BY DEF LoopInv, StageInv, EndInv, Current
  <2>3. RegistryInv' /\ FeedInv'
    BY DEF RegistryInv, RegistryExact, FeedInv
  <2>4. OffsetInv'
    BY DEF OffsetInv, RedeliveredOnlyUncommitted, HasBeenHanded, Current
  <2>5. CutInv'
    BY DEF CutInv, CutAlerts
  <2>6. QED
    BY <2>1, <2>2, <2>3, <2>4, <2>5
<1>3. QED
  BY <1>1, <1>2

\* Every reachable state satisfies the invariant.
THEOREM Invariance == Spec => []IInv
  BY InitIInv, NextKeepsIInv, PTL DEF Spec

\* Every variable has its type, whatever fails.
THEOREM TypeCorrect == Spec => []TypeOK
<1>1. IInv => TypeOK
  BY DEF IInv
<1>2. QED
  BY <1>1, Invariance, PTL

\* The registry holds exactly the connections that are served, though handlers and
\* broadcasts both write it back, and the gauge counts it.
THEOREM RegistryStaysExact == Spec => []RegistryExact
<1>1. IInv => RegistryExact
  BY DEF IInv, RegistryInv
<1>2. QED
  BY <1>1, Invariance, PTL

\* No INSERT runs on a closed pool; the pool closes after the task ended, with its consumer
\* stopped or its stop() cut by the cancellation; and until a call fails, a shutdown has
\* committed all that was handed out.
THEOREM ShutdownInOrder == Spec => []ShutdownOrder
<1>1. IInv => ShutdownOrder
  BY DEF IInv, TypeOK, AppStates, StageInv, EndInv, Busy, ShutdownOrder
<1>2. QED
  BY <1>1, Invariance, PTL

\* Through evictions, crashes and restarts, an assignment hands out consecutive offsets from
\* the committed one on, so no alert comes back once its commit was taken and none is skipped.
THEOREM RedeliveryNeedsMissedCommit == Spec => []RedeliveredOnlyUncommitted
<1>1. IInv => RedeliveredOnlyUncommitted
  BY DEF IInv, OffsetInv
<1>2. QED
  BY <1>1, Invariance, PTL

\* Every lost alert was handed out and cut short.
LEMMA LostWereCut ==
    ASSUME IInv
    PROVE  Cardinality(Lost) <= Cardinality(CutAlerts)
<1> DEFINE offsetOf == [d \in CutAlerts |-> handed[d].offset]
<1> DEFINE T == {offsetOf[d] : d \in CutAlerts}
<1>1. ASSUME NEW a \in Lost
      PROVE  \E d \in CutAlerts : a = handed[d].offset
  <2>1. PICK d \in DOMAIN handed : handed[d].offset = a
    BY <1>1 DEF Lost, IInv, OffsetInv, HasBeenHanded
  <2>2. fate[d] = "cut" /\ d \in DOMAIN fate
    BY <1>1, <2>1 DEF Lost, IInv, LoopInv, TypeOK
  <2>3. QED
    BY <2>1, <2>2 DEF CutAlerts
<1>2. Lost \in SUBSET T
  BY <1>1
<1>3. offsetOf \in Surjection(CutAlerts, T)
  BY DEF Surjection
<1>4. IsFiniteSet(CutAlerts) /\ Cardinality(CutAlerts) \in Nat
  BY CutIsFinite DEF IInv
<1>5. IsFiniteSet(T) /\ Cardinality(T) <= Cardinality(CutAlerts)
  BY <1>3, <1>4, FS_Surjection
<1>6. Cardinality(Lost) <= Cardinality(T) /\ Cardinality(Lost) \in Nat /\ Cardinality(T) \in Nat
  BY <1>2, <1>5, FS_Subset, FS_CardinalityType
<1>7. QED
  BY <1>4, <1>5, <1>6

\* Each process loses at most the alert it had in hand when it ended, although its
\* position is committed before the alert is processed.
THEOREM LossBounded == Spec => []AtMostOneLostPerBoot
<1>1. IInv => AtMostOneLostPerBoot
  <2> SUFFICES ASSUME IInv PROVE AtMostOneLostPerBoot
    OBVIOUS
  <2>1. boots \in Nat /\ Cardinality(CutAlerts) \in Nat
    BY CutIsFinite DEF IInv, TypeOK
  <2>2. Cardinality(CutAlerts) <= boots
    BY <2>1 DEF IInv, CutInv
  <2>3. IsFiniteSet(Lost)
    <3>1. IsFiniteSet(1..groupOffset) /\ Lost \in SUBSET (1..groupOffset)
      BY KindAssumption, FS_Interval DEF Lost, IInv, TypeOK
    <3>2. QED
      BY <3>1, FS_Subset
  <2>4. Cardinality(Lost) \in Nat
    BY <2>3, FS_CardinalityType
  <2>5. QED
    BY <2>1, <2>2, <2>4, LostWereCut DEF AtMostOneLostPerBoot
<1>2. QED
  BY <1>1, Invariance, PTL

-----------------------------------------------------------------------------
(* The live feed is an AlertFeed.                                          *)

\* The subscription of a client, once and for the next state.
LEMMA SubscriptionIs ==
    ASSUME TypeOK, RegistryInv, NEW c \in Client
    PROVE  /\ handler[c] \in {"new", "accepting"} => Subscription(c) = "out"
           /\ c \in connections \ dead => Subscription(c) = "in"
           /\ handler[c] \notin {"new", "accepting"} /\ c \notin connections \ dead
                => Subscription(c) = "gone"
           /\ Subscription(c) = "in" <=> c \in connections \ dead
           /\ Subscription(c) = "out" <=> handler[c] \in {"new", "accepting"}
  BY DEF Subscription, RegistryInv, RegistryExact

LEMMA SubscriptionWillBe ==
    ASSUME TypeOK', RegistryInv', NEW c \in Client
    PROVE  /\ handler'[c] \in {"new", "accepting"} => Subscription(c)' = "out"
           /\ c \in connections' \ dead' => Subscription(c)' = "in"
           /\ handler'[c] \notin {"new", "accepting"} /\ c \notin connections' \ dead'
                => Subscription(c)' = "gone"
  BY DEF Subscription, RegistryInv, RegistryExact

Subscriptions == [c \in Client |-> Subscription(c)]

\* A step that leaves the lists and the handlers' stages alone changes no subscription.
LEMMA SubscriptionsStand ==
    ASSUME IInv, IInv', connections' \ dead' = connections \ dead,
           \A c \in Client : handler'[c] \in {"new", "accepting"}
                               <=> handler[c] \in {"new", "accepting"}
    PROVE  Subscriptions' = Subscriptions
<1>1. ASSUME NEW c \in Client PROVE Subscription(c)' = Subscription(c)
  BY SubscriptionIs, SubscriptionWillBe DEF IInv
<1>2. QED
  BY <1>1 DEF Subscriptions

\* Clients that leave, and no other change, are a Leave of the feed.
LEMMA Leaving ==
    ASSUME IInv, IInv', UNCHANGED <<broadcasts, joined, got>>, NEW S \in SUBSET Client,
           \A c \in S : /\ Subscription(c) # "gone"
                        /\ handler'[c] \notin {"new", "accepting"} /\ c \notin connections' \ dead',
           \A c \in Client \ S : Subscription(c)' = Subscription(c)
    PROVE  Feed!Leave(S)
<1>1. \A c \in S : Subscription(c)' = "gone"
  BY SubscriptionWillBe DEF IInv
<1>2. QED
  BY <1>1 DEF Feed!Leave

\* A broadcast that begins is a Publish: nobody waits for an earlier alert.
LEMMA Publishing ==
    ASSUME IInv, IInv', task \in {"waiting", "inserting"}, NEW a \in Alert, StartBroadcast(a),
           UNCHANGED <<handler, joined, connections>>
    PROVE  Feed!Publish(a)
<1>1. pending = {} /\ dead = {} /\ dead' = {}
  BY DEF IInv, LoopInv, StartBroadcast
<1>2. Subscriptions' = Subscriptions
  BY <1>1, SubscriptionsStand
<1>3. \A c \in Client : Subscription(c) = "in" => Feed!UpToDate(c)
  BY <1>1, SubscriptionIs DEF IInv, FeedInv, Feed!UpToDate
<1>4. QED
  BY <1>2, <1>3 DEF Feed!Publish, StartBroadcast, Subscriptions

FeedStep == [Feed!Next]_<<broadcasts, Subscriptions, joined, got>>

\* Steps that the feed does not see.
LEMMA Unseen ==
    ASSUME IInv, IInv', UNCHANGED <<broadcasts, joined, got>>,
           connections' \ dead' = connections \ dead,
           \A c \in Client : handler'[c] \in {"new", "accepting"}
                               <=> handler[c] \in {"new", "accepting"}
    PROVE  FeedStep
  BY SubscriptionsStand DEF FeedStep

LEMMA SendToIsFeedStep ==
    ASSUME IInv, IInv', NEW c \in Client, SendTo(c)
    PROVE  FeedStep
<1>1. PICK failed \in {dead, dead \cup {c}} :
          /\ IF failed = dead
             THEN /\ handler[c] # "done"
                  /\ got' = [got EXCEPT ![c] = Append(@, handed[Current].offset)]
             ELSE UNCHANGED got
          /\ IF pending = {c} THEN Purge(failed) /\ dead' = {}
                              ELSE UNCHANGED managerVars /\ dead' = failed
  BY DEF SendTo
<1>2. c \in pending /\ UNCHANGED <<handler, joined, broadcasts>>
  BY DEF SendTo, clientVars
<1>3. connections' \ dead' = connections \ failed
  BY <1>1 DEF Purge, SetConnections, managerVars
<1>4. CASE failed = dead
  <2>1. c \in connections \ dead
    BY <1>1, <1>2, <1>4 DEF IInv, RegistryInv
  <2>2. Subscription(c) = "in" /\ Subscriptions' = Subscriptions
    BY <1>2, <1>3, <1>4, <2>1, SubscriptionIs, SubscriptionsStand DEF IInv
  <2>3. joined[c] \in Nat /\ Len(got[c]) \in Nat /\ Len(broadcasts) \in Nat
    <3>1. got[c] \in Seq(Alert) /\ broadcasts \in Seq(Alert) /\ joined[c] \in Nat
      BY DEF IInv, TypeOK
    <3>2. QED
      BY <3>1
  <2>4. joined[c] + Len(got[c]) + 1 = Len(broadcasts)
    BY <1>2, <2>1, <2>3 DEF IInv, FeedInv
  <2>5. broadcasts[Len(broadcasts)] = handed[Current].offset
    BY DEF SendTo, IInv, LoopInv
  <2>6. Feed!Deliver(c)
    BY <1>1, <1>2, <1>4, <2>2, <2>3, <2>4, <2>5 DEF Feed!Deliver, Feed!UpToDate, Subscriptions
  <2>7. QED
    BY <2>6 DEF FeedStep, Feed!Next
<1>5. CASE failed # dead /\ c \in connections \ dead
  <2>1. Subscription(c) = "in" /\ c \notin connections' \ dead'
    BY <1>1, <1>3, <1>5, SubscriptionIs DEF IInv
  <2>2. handler'[c] \notin {"new", "accepting"}
    BY <1>2, <1>5 DEF IInv, RegistryInv, RegistryExact
  <2>3. \A d \in Client \ {c} : Subscription(d)' = Subscription(d)
    BY <1>1, <1>2, <1>3, <1>5, SubscriptionIs, SubscriptionWillBe DEF IInv
  <2>4. Feed!Leave({c})
    BY <1>1, <1>2, <1>5, <2>1, <2>2, <2>3, Leaving
  <2>5. QED
    BY <2>4 DEF FeedStep, Feed!Next
<1>6. CASE failed # dead /\ c \notin connections \ dead
  BY <1>1, <1>2, <1>3, <1>6, Unseen
<1>7. QED
  BY <1>4, <1>5, <1>6

\* Connecting is unseen; an accepted connection joins, one that raised leaves.
LEMMA AcceptedIsFeedStep ==
    ASSUME IInv, IInv', NEW c \in Client, Accepted(c)
    PROVE  FeedStep
<1>1. /\ handler[c] = "accepting" /\ Subscription(c) = "out"
      /\ c \notin connections /\ c \notin dead /\ UNCHANGED <<dead, broadcasts, got>>
  BY SubscriptionIs DEF Accepted, IInv, RegistryInv, RegistryExact, sendVars
<1>2. \A d \in Client : d # c => handler'[d] = handler[d]
  BY DEF Accepted, IInv, TypeOK
<1>3. CASE /\ connections' = connections \cup {c}
           /\ joined' = [joined EXCEPT ![c] = Len(broadcasts)]
  <2>1. \A d \in Client : Subscription(d)' = IF d = c THEN "in" ELSE Subscription(d)
    BY <1>1, <1>2, <1>3, SubscriptionIs, SubscriptionWillBe DEF IInv
  <2>2. Feed!Join(c)
    BY <1>1, <1>3, <2>1 DEF Feed!Join
  <2>3. QED
    BY <2>2 DEF FeedStep, Feed!Next
<1>4. CASE handler' = [handler EXCEPT ![c] = "done"] /\ UNCHANGED <<managerVars, joined>>
  <2>1. handler'[c] = "done" /\ connections' = connections
    BY <1>4 DEF IInv, TypeOK, managerVars
  <2>2. \A d \in Client \ {c} : Subscription(d)' = Subscription(d)
    BY <1>1, <1>2, <2>1, SubscriptionIs, SubscriptionWillBe DEF IInv
  <2>3. Feed!Leave({c})
    BY <1>1, <1>4, <2>1, <2>2, Leaving
  <2>4. QED
    BY <2>3 DEF FeedStep, Feed!Next
<1>5. QED
  BY <1>3, <1>4 DEF Accepted, SetConnections

LEMMA DisconnectIsFeedStep ==
    ASSUME IInv, IInv', NEW c \in Client, Disconnect(c)
    PROVE  FeedStep
<1>1. /\ handler[c] \in {"receiving", "welcome"} /\ handler'[c] = "done"
      /\ connections' = connections \ {c} /\ UNCHANGED <<dead, broadcasts, joined, got>>
  BY DEF Disconnect, Disconnects, SetConnections, IInv, TypeOK, sendVars
<1>2. \A d \in Client : d # c => handler'[d] = handler[d]
  BY DEF Disconnect, Disconnects, IInv, TypeOK
<1>3. CASE c \in connections \ dead
  <2>1. Subscription(c) = "in"
    BY <1>3, SubscriptionIs DEF IInv
  <2>2. \A d \in Client \ {c} : Subscription(d)' = Subscription(d)
    BY <1>1, <1>2, SubscriptionIs, SubscriptionWillBe DEF IInv
  <2>3. Feed!Leave({c})
    BY <1>1, <2>1, <2>2, Leaving
  <2>4. QED
    BY <2>3 DEF FeedStep, Feed!Next
<1>4. CASE c \notin connections \ dead
  BY <1>1, <1>2, <1>4, Unseen
<1>5. QED
  BY <1>3, <1>4

\* When the process is gone, whoever was connected has left.
LEMMA ProcessGoneIsFeedStep ==
    ASSUME IInv, IInv', ProcessGone, UNCHANGED <<broadcasts, joined, got>>
    PROVE  FeedStep
<1> DEFINE S == {c \in Client : Subscription(c) # "gone" /\ handler[c] # "new"}
<1>1. \A c \in Client : handler'[c] = IF handler[c] = "new" THEN "new" ELSE "done"
  BY DEF ProcessGone
<1>2. \A c \in S : handler'[c] \notin {"new", "accepting"} /\ c \notin connections' \ dead'
  BY <1>1 DEF ProcessGone
<1>3. \A c \in Client \ S : Subscription(c)' = Subscription(c)
  BY <1>1, SubscriptionIs, SubscriptionWillBe DEF IInv, ProcessGone
<1>4. Feed!Leave(S)
  BY <1>2, <1>3, Leaving
<1>5. QED
  BY <1>4 DEF FeedStep, Feed!Next

LEMMA NextIsFeedStep ==
    ASSUME IInv, IInv', Next
    PROVE  FeedStep
<1> USE DEF kafkaVars, loopVars, sendVars, managerVars, clientVars
<1>1. CASE \/ PublishAlert \/ AutoCommit \/ CreateConsumer \/ Wake \/ Finalize \/ LoopFails
           \/ Rejoin \/ Boot \/ Terminate \/ TaskAwaited \/ StopConsumer
  BY <1>1, Unseen
     DEF PublishAlert, AutoCommit, CreateConsumer, CreateAt, Wake, Finalize, LoopFails,
         Rejoin, RejoinAt, Boot, Terminate, TaskAwaited, StopConsumer
<1>2. CASE NextMessage
  <2>1. CASE UNCHANGED sendVars
    BY <1>2, <2>1, Unseen DEF NextMessage, HandOut
  <2>2. CASE StartBroadcast(position + 1)
    <3>1. position + 1 \in Alert
      BY <1>2, KindAssumption DEF NextMessage, HandOut, Alert, IInv, TypeOK
    <3>2. task = "waiting" /\ UNCHANGED <<handler, joined, connections>>
      BY <1>2 DEF NextMessage, HandOut
    <3>3. Feed!Publish(position + 1)
      BY <2>2, <3>1, <3>2, Publishing
    <3>4. QED
      BY <3>1, <3>3 DEF FeedStep, Feed!Next
  <2>3. QED
    BY <1>2, <2>1, <2>2 DEF NextMessage, HandOut
<1>3. CASE Insert
  <2>1. handed[Current].offset \in Alert
    BY <1>3, AlertInHand DEF Insert, IInv, Busy
  <2>2. Feed!Publish(handed[Current].offset)
    BY <1>3, <2>1, Publishing DEF Insert
  <2>3. QED
    BY <2>1, <2>2 DEF FeedStep, Feed!Next
<1>4. ASSUME NEW c \in Client, Connect(c) \/ Welcomed(c) \/ Drop(c) PROVE FeedStep
  BY <1>4, Unseen DEF Connect, Welcomed, Drop, IInv, TypeOK
<1>5. CASE CancelTask
  <2>1. connections = {}
    BY <1>5 DEF CancelTask, IInv, RegistryInv, RegistryExact
  <2>2. QED
    BY <1>5, <2>1, Unseen DEF CancelTask
<1>6. CASE ClosePool \/ Kill
  BY <1>6, ProcessGoneIsFeedStep DEF ClosePool, Kill
<1>7. QED
  BY <1>1, <1>2, <1>3, <1>4, <1>5, <1>6, SendToIsFeedStep, AcceptedIsFeedStep,
     DisconnectIsFeedStep DEF Next, Consumer, Handler, Shutdown

\* To every client, from its registration to its removal, the gateway is an AlertFeed:
\* all alerts, in order, none twice, whatever broadcasts, handlers and restarts do.
THEOREM FeedImplemented == Spec => ImplementsFeed
<1>1. Init => Feed!Init
  BY DEF Init, Feed!Init, Subscription
<1>2. IInv /\ IInv' /\ [Next]_vars => [Feed!Next]_Feed!vars
  <2>1. ASSUME IInv, IInv', Next PROVE [Feed!Next]_Feed!vars
    BY <2>1, NextIsFeedStep DEF FeedStep, Feed!vars, Subscriptions
  <2>2. ASSUME UNCHANGED vars PROVE UNCHANGED Feed!vars
    BY <2>2 DEF vars, sendVars, managerVars, clientVars, Feed!vars, Subscription
  <2>3. QED
    BY <2>1, <2>2
<1>3. QED
  BY <1>1, <1>2, Invariance, PTL DEF Spec, ImplementsFeed, Feed!Spec

=============================================================================
