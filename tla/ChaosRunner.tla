----------------------------- MODULE ChaosRunner ------------------------------
(***************************************************************************)
(* chaos/chaos_runner.py: the scenarios asked for run one after the other  *)
(* on one stack, each with its verdict; then the report and the exit code. *)
(* Of a scenario this module keeps which containers it stops or restarts,  *)
(* whether its verdict depends on how they come up, and which containers it*)
(* cannot do without; the scenarios have modules of their own.             *)
(***************************************************************************)
EXTENDS Naturals, Sequences, SequencesExt

Brokers == {"kafka-1", "kafka-2", "kafka-3"}

SCENARIOS == <<"fluentd", "kafka", "delta", "latency">>

\* The containers of which a scenario stops one.
Stops(key) == CASE key = "fluentd" -> {"fluentd-agent"}
                [] key = "kafka"   -> Brokers
                [] key = "delta"   -> {"spark-master"}
                [] key = "latency" -> {}

\* What a scenario restarts without looking at the result.
RestartsUnseen(key) == IF key = "delta" THEN {"spark-worker"} ELSE {}

\* What a scenario fails, or raises, without.
Needs(key) == CASE key = "fluentd" -> {"kafka-1"}
                [] key = "kafka"   -> {}
                [] key = "delta"   -> {"spark-master"}
                [] key = "latency" -> {"kafka-1", "fluentd-agent", "log-generator"}

\* What a scenario may leave down that ends where it stands.
HalfWay(key) == {a \cup b : a \in {{}} \cup {{c} : c \in Stops(key)},
                            b \in SUBSET RestartsUnseen(key)}

\* Mutant of ChecksRestart: no scenario looks at the result of docker start.
ChecksRestartNever(key) == FALSE

\* The scenarios whose verdict includes the result of docker start.
ChecksRestart(key) == key \in {"fluentd", "delta"}

VARIABLES
    keys,    \* the scenarios asked for
    results, \* a result per scenario that was run: its key and "passed"
    down,    \* the containers that do not run
    report,  \* the report this run has written, <<>> before
    code     \* the exit code, 256 while the runner goes on

runnerVars == <<keys, results, down, report, code>>

Running == code = 256

\* run() returns a verdict; a container it stopped may stay down, and so may one that
\* it restarts without looking.
RunScenario ==
    /\ Running /\ Len(results) < Len(keys)
    /\ LET key == keys[Len(results) + 1] IN
       \E stopped \in {{}} \cup {{c} : c \in Stops(key)}, restarted, fine \in BOOLEAN,
          lost \in SUBSET RestartsUnseen(key) :
          /\ down' = ((IF restarted THEN down \ stopped ELSE down \cup stopped)
                         \ RestartsUnseen(key)) \cup lost
          /\ results' = Append(results,
                [key |-> key,
                 passed |-> /\ fine /\ Needs(key) \cap down = {}
                            /\ Stops(key) # {} => stopped # {}
                            /\ ChecksRestart(key) => restarted])
    /\ UNCHANGED <<keys, report, code>>

\* run() raises where it stands, which counts as not passed.
ScenarioRaises ==
    /\ Running /\ Len(results) < Len(keys)
    /\ LET key == keys[Len(results) + 1] IN
       /\ \E left \in HalfWay(key) : down' = down \cup left
       /\ results' = Append(results, [key |-> key, passed |-> FALSE])
    /\ UNCHANGED <<keys, report, code>>

\* The report is written, or save_report raises.
SaveReport ==
    /\ Running /\ Len(results) = Len(keys) /\ report = <<>>
    /\ \/ report' = results /\ UNCHANGED code
       \/ UNCHANGED report /\ code' = 1
    /\ UNCHANGED <<keys, results, down>>

\* Then the process exits with the conjunction of the verdicts.
Exit ==
    /\ Running /\ report # <<>>
    /\ code' = IF \A i \in DOMAIN results : results[i].passed THEN 0 ELSE 1
    /\ UNCHANGED <<keys, results, down, report>>

\* KeyboardInterrupt is no Exception: it ends a scenario, the report or the run.
Interrupt ==
    /\ Running /\ code' = 130
    /\ \/ Len(results) < Len(keys)
          /\ \E left \in HalfWay(keys[Len(results) + 1]) : down' = down \cup left
       \/ Len(results) = Len(keys) /\ UNCHANGED down
    /\ UNCHANGED <<keys, results, report>>

RunnerInit == /\ keys \in {SCENARIOS} \cup {<<SCENARIOS[i]>> : i \in DOMAIN SCENARIOS}
              /\ results = <<>> /\ down = {} /\ report = <<>> /\ code = 256

RunnerNext == RunScenario \/ ScenarioRaises \/ SaveReport \/ Exit \/ Interrupt

RunnerSpec == RunnerInit /\ [][RunnerNext]_runnerVars

-----------------------------------------------------------------------------
(* Properties.                                                             *)

\* What exit code 0 vouches for: of the containers the scenarios stop or restart at most
\* two are still down, those whose start nobody looks at.  One is a broker, killed by
\* the Kafka scenario, and not kafka-1 if the latency scenario ran after it; the other
\* is spark-worker, if the Delta scenario ran.
SuccessRestores ==
    code = 0 => /\ down \subseteq Brokers \cup {"spark-worker"}
                /\ \A b, c \in down \cap Brokers : b = c
                /\ down \cap Brokers # {} => Contains(keys, "kafka")
                /\ Contains(keys, "latency") => "kafka-1" \notin down
                /\ "spark-worker" \in down => Contains(keys, "delta")

\* A report names every scenario asked for, in order, whichever raised.  Exit code 0
\* means that it is there and all of them passed; exit code 1 beside a report, that one
\* did not.  Only an interrupted run can end otherwise after a report of passes.
ReportComplete ==
    /\ report # <<>> => [i \in DOMAIN report |-> report[i].key] \in
                           {SCENARIOS} \cup {<<SCENARIOS[k]>> : k \in DOMAIN SCENARIOS}
    /\ code = 0 => report # <<>> /\ \A i \in DOMAIN report : report[i].passed
    /\ code = 1 /\ report # <<>> => \E i \in DOMAIN report : ~report[i].passed

\* What the exit code and the report may be relied on for.
RunnerVerdict == SuccessRestores /\ ReportComplete

=============================================================================
