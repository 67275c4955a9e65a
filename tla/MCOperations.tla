----------------------------- MODULE MCOperations -----------------------------
(***************************************************************************)
(* What operators run, for TLC: docker-compose up with setup_kafka_topics. *)
(* py and health_check.py, and the offline trainer with the store it shares*)
(* with the streaming job.  A behaviour is that of one `part`; the others  *)
(* stand still.  The constants of the parts get their values in            *)
(* MCOperations.cfg, from here where they are no sets of names.            *)
(***************************************************************************)
EXTENDS StackStartup, ModelStore, OfflineTrainer

VARIABLE part

\* A part of docker-compose.yml: brokers, one container that waits for the topics,
\* and one that waits for a broker.
ServerNeeds == [c \in Server |-> {"kafka-1"}]

ServicesAsked == <<"kafka-1", "fastapi-server">>

-----------------------------------------------------------------------------
\* The trainer alone starts from any rows.
Init == /\ part \in {"startup", "models", "trainer"}
        /\ StartupInit /\ StoreInit /\ TrainerInit
        /\ part # "trainer" => source = "csv" /\ blank = {} /\ truth = [r \in Row |-> 0]

Next == /\ \/ part = "startup" /\ StartupNext /\ UNCHANGED <<storeVars, trainerVars>>
           \/ part = "models" /\ StoreNext /\ UNCHANGED <<stackVars, trainerVars>>
           \/ part = "trainer" /\ TrainerNext /\ UNCHANGED <<stackVars, storeVars>>
        /\ UNCHANGED part

Of(p, A) == part = p /\ A

\* The fairness of StackStartup; no property of the other parts needs any.
Spec == /\ Init /\ [][Next]_<<part, stackVars, storeVars, trainerVars>>
        /\ WF_stackVars(Of("startup", InitStart))
        /\ WF_stackVars(Of("startup", InitCreate))
        /\ WF_stackVars(Of("startup", InitList))
        /\ \A c \in Container : WF_stackVars(Of("startup", OfContainer(c)))
        /\ \A c \in Restarted : WF_stackVars(Of("startup", StartAgain(c)))

\* StackStartup: the stack comes up in the end if the operator attends to it, although
\* containers die.
StartedComesUp == part = "startup" => StackComesUp

=============================================================================
