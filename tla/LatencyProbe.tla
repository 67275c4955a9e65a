----------------------------- MODULE LatencyProbe -----------------------------
(***************************************************************************)
(* The chaos scenario chaos/scenarios/latency_probe.py with what it touches*)
(* of the pipeline: a probe line on its way through Fluentd into the topic *)
(* system-logs, and a probe alert on its way through critical-alerts and   *)
(* the gateway to the WebSocket the scenario opens.                        *)
(***************************************************************************)
EXTENDS Naturals, Sequences

CONSTANT MaxLapses \* bound: how many calls of the scenario fail

VARIABLES
    library,    \* whether kafka-python is installed on the host
    replaying,  \* whether log_replay keeps system-logs busy
    line,       \* where the probe line is: "none", "file" or "topic"
    alert,      \* where the probe alert is: "none", "topic" or "handled"
    stored,     \* whether anomaly_alerts_pg has a row
    registered, \* whether the gateway has the scenario's WebSocket
    welcomed,   \* whether it has sent the welcome
    inbox,      \* the messages that arrived on the WebSocket
    phase,      \* the step of run() that comes next
    ticked,     \* the checks that are True
    timed,      \* the message whose arrival gives kafka_to_websocket_ms, or "none"
    early,      \* history: the probe line was in the topic before the scan began
    lapses      \* how many calls failed

probePipelineVars == <<library, replaying, line, alert, stored, registered, welcomed, inbox>>
probeScriptVars == <<phase, ticked, timed, early, lapses>>
probeVars == <<probePipelineVars, probeScriptVars>>

-----------------------------------------------------------------------------
(* The pipeline.                                                           *)

StopReplay == /\ replaying /\ replaying' = FALSE
              /\ UNCHANGED <<library, line, alert, stored, registered, welcomed, inbox,
                             probeScriptVars>>

\* Fluentd takes the probe line to the topic; it matches the expression.
Ship == /\ line = "file" /\ line' = "topic"
        /\ UNCHANGED <<library, replaying, alert, stored, registered, welcomed, inbox,
                       probeScriptVars>>

\* The streaming job stores an anomaly.
StoreRow == /\ ~stored /\ stored' = TRUE
            /\ UNCHANGED <<library, replaying, line, alert, registered, welcomed, inbox,
                           probeScriptVars>>

\* The gateway broadcasts the probe; its INSERT fails, for the probe has a timestamp.
HandleAlert ==
    /\ alert = "topic" /\ alert' = "handled"
    /\ inbox' = IF registered THEN Append(inbox, "alert") ELSE inbox
    /\ UNCHANGED <<library, replaying, line, stored, registered, welcomed, probeScriptVars>>

\* The handler greets a connection it has registered before.
Welcome == /\ registered /\ ~welcomed /\ welcomed' = TRUE
           /\ inbox' = Append(inbox, "welcome")
           /\ UNCHANGED <<library, replaying, line, alert, stored, registered, probeScriptVars>>

-----------------------------------------------------------------------------
(* The scenario.                                                           *)

Lapse == lapses < MaxLapses /\ lapses' = lapses + 1

Goto(here, there) == phase = here /\ phase' = there

Tick(cs) == ticked' = ticked \cup cs

\* When the container refuses the line, the file written instead is tailed by
\* nobody; the check is True either way.
InjectLine ==
    /\ Goto("inject", "scan") /\ Tick({"probe_injected_to_log"})
    /\ \/ line' = "file" /\ UNCHANGED lapses
       \/ Lapse /\ UNCHANGED line
    /\ UNCHANGED <<library, replaying, alert, stored, registered, welcomed, inbox, timed, early>>

\* The consumer starts at the end of the topic; without a broker it raises.
OpenScan ==
    /\ \/ Goto("scan", "scanning") /\ early' = (line = "topic") /\ UNCHANGED lapses
       \/ Goto("scan", "raised") /\ library /\ Lapse /\ UNCHANGED early
    /\ UNCHANGED <<probePipelineVars, ticked, timed>>

\* What a scan can come across: with the library only what is produced after its
\* beginning, with the console consumer the whole topic.
Visible == line = "topic" /\ (library => ~early)

\* The library's loop ends at the probe; the console consumer's output is searched
\* only when the topic has been silent for the whole timeout.
ScanFinds == /\ Goto("scanning", "publish") /\ Visible
             /\ library \/ ~replaying
             /\ Tick({"probe_found_in_kafka"})
             /\ UNCHANGED <<probePipelineVars, timed, early, lapses>>

\* The library's loop looks at the deadline at each message; either scan ends on
\* a silent topic; a console consumer that fails has found nothing.
ScanGivesUp == /\ Goto("scanning", "publish")
               /\ \/ (library \/ (~replaying /\ ~Visible)) /\ UNCHANGED lapses
                  \/ ~library /\ Lapse
               /\ UNCHANGED <<probePipelineVars, ticked, timed, early>>

\* The exit status of the producer is logged only.
PublishProbe ==
    /\ Goto("publish", "connect") /\ Tick({"kafka_probe_published_to_alerts"})
    /\ \/ alert' = "topic" /\ UNCHANGED lapses
       \/ Lapse /\ UNCHANGED alert
    /\ UNCHANGED <<library, replaying, line, stored, registered, welcomed, inbox, timed, early>>

\* The connection is registered, or fails and counts as a timeout.
OpenWebSocket ==
    /\ \/ Goto("connect", "receive") /\ registered' = TRUE /\ UNCHANGED lapses
       \/ Goto("connect", "fallback") /\ Lapse /\ UNCHANGED registered
    /\ UNCHANGED <<library, replaying, line, alert, stored, welcomed, inbox, ticked, timed, early>>

\* The first message of any kind ends the wait; its latency may miss the target.
Receive ==
    /\ Goto("receive", "rest") /\ inbox # <<>>
    /\ timed' = Head(inbox)
    /\ \E intime \in SUBSET {"websocket_latency_within_target"} :
          Tick({"websocket_delivered_message"} \cup intime)
    /\ UNCHANGED <<probePipelineVars, early, lapses>>

ReceiveTimesOut == /\ Goto("receive", "fallback") /\ inbox = <<>>
                   /\ UNCHANGED <<probePipelineVars, ticked, timed, early, lapses>>

\* _check_fastapi_alerts: any row of anomaly_alerts_pg will do.
RowSeen == stored

\* The REST endpoint is asked, to stand in for the WebSocket or at the end.
Ask(here, there, cs) ==
    /\ Goto(here, there)
    /\ \/ RowSeen /\ Tick(cs) /\ UNCHANGED lapses
       \/ ~RowSeen /\ UNCHANGED <<ticked, lapses>>
       \/ Lapse /\ UNCHANGED ticked
    /\ UNCHANGED <<probePipelineVars, timed, early>>

Fallback == Ask("fallback", "rest",
                {"websocket_delivered_message", "websocket_latency_within_target"})

RestCheck == Ask("rest", "done", {"fastapi_rest_returns_alerts"})

-----------------------------------------------------------------------------
ProbeInit ==
    /\ library \in BOOLEAN /\ replaying \in BOOLEAN /\ stored \in BOOLEAN
    /\ line = "none" /\ alert = "none"
    /\ registered = FALSE /\ welcomed = FALSE /\ inbox = <<>>
    /\ phase = "inject" /\ ticked = {} /\ timed = "none" /\ early = FALSE /\ lapses = 0

ProbeScript == \/ InjectLine \/ OpenScan \/ ScanFinds \/ ScanGivesUp \/ PublishProbe
               \/ OpenWebSocket \/ Receive \/ ReceiveTimesOut \/ Fallback \/ RestCheck

ProbePipeline == StopReplay \/ Ship \/ StoreRow \/ HandleAlert \/ Welcome

ProbeNext == ProbePipeline \/ ProbeScript

ProbeSpec == ProbeInit /\ [][ProbeNext]_probeVars

\* The script is one thread that goes on whenever its call can return.
FairProbeSpec == ProbeSpec /\ WF_probeVars(ProbeScript)

-----------------------------------------------------------------------------
(* Properties.                                                             *)

\* With the library the run ends, or raises, although the topic is never silent.
RunEnds == library ~> phase \in {"done", "raised"}

\* latency_probe.py:17 "Kafka -> WebSocket (FastAPI) latency": what is timed is the
\* arrival of an alert.
LatencyTimesAlert == timed # "none" => timed = "alert"

=============================================================================
