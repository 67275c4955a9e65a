---------------------------- MODULE AnalyticsApi -----------------------------
(***************************************************************************)
(* The analytics endpoints of the gateway (main.py: get_metrics_summary,   *)
(* get_recent_alerts, get_component_health, get_alert_summary): each runs  *)
(* one query on tables that the streaming job appends to meanwhile.  Rows  *)
(* that tie in an ORDER BY come in any order.                              *)
(***************************************************************************)
EXTENDS Integers, Sequences, FiniteSets, FiniteSetsExt, SequencesExt

CONSTANTS Component,  \* BGL components
          Severity,   \* severities as the job stores them, in upper case
          Lower,      \* the lower-case form of each, as a client may ask
          Today,      \* the day of the requests; days are 1..Today
          MaxMetrics, \* bound: rows of batch_metrics
          MaxAlerts,  \* bound: rows of anomaly_alerts_pg
          MaxHealth,  \* bound: anomalies a component has in component_health
          MaxCount    \* bound: events a row of batch_metrics counts

\* Severities are stored in upper case, and neither form is "all", which stands for
\* a parameter that was not given.
ASSUME SeverityAssumption ==
    /\ \A s, t \in Severity : Lower[s] = Lower[t] => s = t
    /\ \A s \in Severity : Lower[s] \notin Severity /\ "all" \notin {s, Lower[s]}

Day  == 1..Today
Null == 0             \* the event_time of an alert without one

VARIABLES
    pool,    \* whether state.db_pool is set
    metrics, \* batch_metrics
    alerts,  \* anomaly_alerts_pg
    health,  \* component_health: the total_anomalies of each component
    summary, \* alert_summary
    answer   \* the last response (what was asked, and the rows) to these tables

tables == <<metrics, alerts, health, summary>>
apiVars   == <<pool, tables, answer>>

MetricRow == [component : Component, day : Day, total : 1..MaxCount, anomalies : 0..MaxCount]
NoAnswer  == [to |-> "nobody"]
AlertRow  == [component : Component, severity : Severity, time : Day \cup {Null}]

-----------------------------------------------------------------------------
(* The writers.  An answer is forgotten when a table changes.              *)

AppendMetrics ==
    /\ Len(metrics) < MaxMetrics
    /\ \E r \in MetricRow : r.anomalies <= r.total /\ metrics' = Append(metrics, r)
    /\ answer' = NoAnswer /\ UNCHANGED <<pool, alerts, health, summary>>

InsertAlert ==
    /\ Len(alerts) < MaxAlerts
    /\ \E r \in AlertRow : alerts' = Append(alerts, r)
    /\ answer' = NoAnswer /\ UNCHANGED <<pool, metrics, health, summary>>

UpsertHealth ==
    /\ \E c \in Component : health[c] < MaxHealth /\ health' = [health EXCEPT ![c] = @ + 1]
    /\ answer' = NoAnswer /\ UNCHANGED <<pool, metrics, alerts, summary>>

-----------------------------------------------------------------------------
(* The queries.                                                            *)

\* Every order of the rows that an ORDER BY with this comparison allows.
OrderedBy(S, before(_, _)) ==
    {s \in SetToSeqs(S) : \A i, j \in DOMAIN s : before(s[i], s[j]) => i < j}

\* "all" stands for a filter that was not given.
Passes(filter, value) == filter = "all" \/ filter = value

\* Mutant of SumOf: rows that are alike are summed once.
SumOfDistinct(table, I, field) == MapThenSumSet(LAMBDA r : r[field], {table[i] : i \in I})

SumOf(table, I, field) == MapThenSumSet(LAMBDA i : table[i][field], I)

Percentage == 0..10000 \* in hundredths of a percent

\* ROUND(anomalies / total * 100, 2), half up.
Rate(anomalies, total) == (20000 * anomalies + total) \div (2 * total)

Summary(component) ==
    LET I == {i \in DOMAIN metrics : Passes(component, metrics[i].component)}
        Of(c, d) == {i \in I : metrics[i].component = c /\ metrics[i].day = d}
        Row(c, d) == LET t == SumOf(metrics, Of(c, d), "total")
                         a == SumOf(metrics, Of(c, d), "anomalies")
                     IN [component |-> c, day |-> d, total |-> t, anomalies |-> a,
                         rate |-> Rate(a, t)]
        before(r, s) == r.day > s.day \/ (r.day = s.day /\ r.anomalies > s.anomalies)
    IN OrderedBy({Row(metrics[i].component, metrics[i].day) : i \in I}, before)

\* Mutant of Newer: without NULLS LAST, PostgreSQL sorts nulls first.
NewerNullsFirst(r, s) == r.time # s.time /\ (r.time = Null \/ (s.time # Null /\ r.time > s.time))

\* event_time DESC NULLS LAST.
Newer(r, s) == r.time > s.time

\* severity.upper().
AskedSeverity(severity) ==
    IF \E s \in Severity : severity = Lower[s]
    THEN CHOOSE s \in Severity : severity = Lower[s] ELSE severity

Recent(limit, component, severity) ==
    LET I == {i \in DOMAIN alerts : /\ Passes(component, alerts[i].component)
                                    /\ Passes(AskedSeverity(severity), alerts[i].severity)}
        newer(i, j) == Newer(alerts[i], alerts[j])
    IN {SubSeq(s, 1, IF limit < Len(s) THEN limit ELSE Len(s)) : s \in OrderedBy(I, newer)}

-----------------------------------------------------------------------------
(* The endpoints.  Without a pool each answers 503.                        *)

Respond(answers) ==
    /\ \/ pool /\ answer' \in answers
       \/ ~pool /\ answer' = [to |-> "unavailable"]
    /\ UNCHANGED <<pool, tables>>

\* The parameter days is used by no query, here and in GetAlertSummary.
GetMetricsSummary ==
    \E c \in Component \cup {"all"} :
       Respond({[to |-> "metrics", component |-> c, rows |-> r] : r \in Summary(c)})

GetRecentAlerts ==
    \E limit \in 1..MaxAlerts, c \in Component \cup {"all"},
       s \in Severity \cup {Lower[t] : t \in Severity} \cup {"all"} :
       Respond({[to |-> "recent", limit |-> limit, component |-> c, severity |-> s, rows |-> r] :
                   r \in Recent(limit, c, s)})

GetComponentHealth ==
    Respond({[to |-> "health", rows |-> r] :
                r \in OrderedBy(Component, LAMBDA c, d : health[c] > health[d])})

GetAlertSummary ==
    Respond({[to |-> "summary", rows |-> s] : s \in OrderedBy(summary,
        LAMBDA q, r : q.day > r.day \/ (q.day = r.day /\ q.alerts > r.alerts))})

ApiInit == /\ pool \in BOOLEAN /\ metrics = <<>> /\ alerts = <<>> /\ summary = {}
        /\ health = [c \in Component |-> 0] /\ answer = NoAnswer

\* What goes on at anomaly_alerts_pg, and at the other tables.
AlertsNext  == InsertAlert \/ GetRecentAlerts
MetricsNext == \/ AppendMetrics \/ UpsertHealth
               \/ GetMetricsSummary \/ GetComponentHealth \/ GetAlertSummary

ApiNext == AlertsNext \/ MetricsNext

ApiSpec == ApiInit /\ [][ApiNext]_apiVars

-----------------------------------------------------------------------------
(* Properties.                                                             *)

\* The events or anomalies of a component's rows in a table, added up row by row.
Counted(table, component, field) ==
    FoldLeft(LAMBDA n, r : IF Passes(component, r.component) THEN n + r[field] ELSE n, 0, table)

\* The rows r of a summary count what the rows of the table t count for component c.
Summarises(r, t, c) ==
    /\ \A field \in {"total", "anomalies"} : Counted(r, "all", field) = Counted(t, c, field)
    /\ \A i, j \in DOMAIN r : i < j =>
          /\ <<r[i].component, r[i].day>> # <<r[j].component, r[j].day>>
          /\ r[i].day >= r[j].day
    /\ \A i \in DOMAIN r :
          /\ r[i].rate \in Percentage
          /\ r[i].total < 20000 => /\ r[i].rate = 0 <=> r[i].anomalies = 0
                                  /\ r[i].rate = 10000 <=> r[i].anomalies = r[i].total

\* batch_metrics is append-only, so several rows of the table may be alike: the
\* summary counts each of them, every (component, day) once, and its days are
\* newest first; below 20000 events the rounding hides neither the first anomaly
\* nor the last normal row (main.py:372 to 389).
SummaryCountsEveryRow ==
    answer.to = "metrics" => Summarises(answer.rows, metrics, answer.component)

\* /alerts/recent never leaves out an alert for one that is older or has no
\* time, whatever the limit, the filters and the ties, nor answers with fewer
\* rows than there are (main.py:429 to 454).
RecentIsNewest == answer.to = "recent" =>
    LET rows == ToSet(answer.rows)
        left == {i \in DOMAIN alerts \ rows :
                    /\ Passes(answer.component, alerts[i].component)
                    /\ answer.severity \in {"all", alerts[i].severity, Lower[alerts[i].severity]}}
    IN /\ left # {} => Cardinality(rows) = answer.limit
       /\ \A i \in left, j \in rows : alerts[j].time >= alerts[i].time

=============================================================================
