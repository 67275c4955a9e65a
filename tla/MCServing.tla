------------------------------ MODULE MCServing -------------------------------
(***************************************************************************)
(* What serves the alerts to people, for TLC: the table anomaly_alerts_pg  *)
(* with its three writers, the analytics endpoints, the page of /demo.     *)
(* A behaviour is that of one `part`; the others stand still.              *)
(* Of AnalyticsApi two parts are run, one for the alerts and one for the   *)
(* other tables.                                                           *)
(***************************************************************************)
EXTENDS AlertTable, AnalyticsApi, DemoClient

VARIABLE part

\* A batch of three anomalies, one of them without a time and one that cannot be
\* sent, then a batch of one.
TableBatches    == <<<<"a", "nul", "untimed">>, <<"b">>>>
TableTimed      == {"a", "nul", "b"}
TableUnsendable == {"nul"}

LowerCase == [s \in {"FATAL", "INFO"} |-> IF s = "FATAL" THEN "fatal" ELSE "info"]

-----------------------------------------------------------------------------
ServingInit == /\ part \in {"table", "metrics", "alerts", "demo"}
               /\ Init /\ ApiInit /\ DemoInit
               /\ part \notin {"metrics", "alerts"} => pool

ServingNext ==
    /\ \/ part = "table"   /\ Next        /\ UNCHANGED <<apiVars, demoVars>>
       \/ part = "metrics" /\ MetricsNext /\ UNCHANGED <<vars, demoVars>>
       \/ part = "alerts"  /\ AlertsNext  /\ UNCHANGED <<vars, demoVars>>
       \/ part = "demo"    /\ DemoNext    /\ UNCHANGED <<vars, apiVars>>
    /\ UNCHANGED part

OfDemo(A) == part = "demo" /\ A

\* The fairness of DemoClient; no property of the other parts needs any.
ServingSpec ==
    /\ ServingInit /\ [][ServingNext]_<<part, vars, apiVars, demoVars>>
    /\ WF_demoVars(OfDemo(Connect)) /\ WF_demoVars(OfDemo(GatewayStarts))
    /\ WF_demoVars(OfDemo(\E i \in DOMAIN sockets : Open(i)))
    /\ WF_demoVars(OfDemo(\E i \in DOMAIN sockets : Close(i)))
    /\ WF_demoVars(OfDemo(\E i \in DOMAIN sockets : Message(i)))

-----------------------------------------------------------------------------
\* DemoClient: the page is connected again in the end (LiveAgain, where the page is
\* what is run).
PageLiveAgain == part = "demo" => LiveAgain

=============================================================================
