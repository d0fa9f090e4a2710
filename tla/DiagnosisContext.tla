-------------------------- MODULE DiagnosisContext --------------------------
(***************************************************************************)
(* What one diagnosis collects and makes of it: metrics and logs of the    *)
(* data sources, the collectors that run in a pool of threads, the index   *)
(* of evidence, the timeline drawn from the same data, and the report of   *)
(* the AI, whose citations are scored against the index.                   *)
(*                                                                         *)
(* Each of these makes the references on its own: a prefix and a position, *)
(* or the data source and the name of a metric, which nobody checks to be  *)
(* unique.  An item is a section or a source, and a position.              *)
(***************************************************************************)
EXTENDS Naturals, FiniteSets

CONSTANTS
    MetricSource,    \* selected metric data sources
    LogSource,       \* selected log data sources
    Section,         \* lists of the collectors that may hold items
    MetricName,      \* names in service.metric_queries
    MaxItems,        \* bound: items of a list of a collector
    MaxLines,        \* bound: items of each data source
    PoolSize,        \* SRE_DIAGNOSIS_COLLECTOR_WORKERS
    Attempts         \* executions of the task: the first and max_retries

VARIABLES
    phase,           \* where run_timepoint_diagnosis is
    source,          \* each data source: skipped, todo, success or failed
    lines,           \* the names of the items each data source gave
    first,           \* the sources copied to context['metrics'] and ['logs']
    collector,       \* each collector: off, pending, running, success, failed
    data,            \* items of each list
    target,          \* context['ci_cd_context']['pipeline_run']
    warned,          \* sources and collectors named in a warning
    evidence,        \* context['evidence_index']: reference and item
    timeline,        \* context['timeline']: reference and item
    report,          \* the references cited and the share that is valid
    attempt

vars == <<phase, source, lines, first, collector, data, target, warned,
          evidence, timeline, report, attempt>>

None   == "none"
Source == MetricSource \cup LogSource
Collector == {"ansflow_events", "ci_cd_context", "runtime_context"}
Bogus  == <<"unknown", 0>>

SectionsOf(c) ==
    Section \cap
    CASE c = "ansflow_events"  -> {"ALERT", "PIPELINE", "ANSIBLE", "APPROVAL"}
      [] c = "ci_cd_context"   -> {"NODE", "NODELOG", "TASKLOG",
                                   "RELATED-ALERT"}
      [] c = "runtime_context" -> {"HOST", "K8S-POD", "K8S-EVENT"}

\* The context at the start of an attempt: the template says which
\* collectors run, and without a service no data source is asked.
Fresh(on, service) ==
    /\ phase = "sources"
    /\ source = [s \in Source |-> IF service THEN "todo" ELSE "skipped"]
    /\ lines = [s \in Source |-> <<>>]
    /\ first = [metrics |-> None, logs |-> None]
    /\ collector = [c \in Collector |-> IF c \in on THEN "pending" ELSE "off"]
    /\ data = [s \in Section |-> 0]
    /\ target = 0 /\ warned = {} /\ evidence = {} /\ timeline = {}
    /\ report = [cited |-> {}, valid |-> 0]

Init ==
    /\ \E on \in SUBSET Collector, service \in BOOLEAN :
         "ansflow_events" \in on /\ Fresh(on, service)
    /\ attempt = 1

-----------------------------------------------------------------------------
\* _collect_metric_contexts and _collect_log_contexts: one source after the
\* other; a failing one is warned about.  The first list of metrics that is
\* not empty, and the first list of logs, are copied to the old fields.
Kind(s)  == IF s \in MetricSource THEN "metrics" ELSE "logs"
Named(s) == IF s \in MetricSource THEN MetricName ELSE {None}
Lines(s) == UNION {[1..n -> Named(s)] : n \in 0..MaxLines[s]}
CopyFirst(s, q) ==
    first' = IF /\ first[Kind(s)] = None
                /\ s \in LogSource \/ DOMAIN q # {}
             THEN [first EXCEPT ![Kind(s)] = s] ELSE first
QuerySource(s) ==
    /\ phase = "sources" /\ source[s] = "todo"
    /\ s \in LogSource => \A m \in MetricSource : source[m] # "todo"
    /\ \/ \E q \in Lines(s) :
            /\ source' = [source EXCEPT ![s] = "success"]
            /\ lines' = [lines EXCEPT ![s] = q] /\ CopyFirst(s, q)
            /\ UNCHANGED warned
       \/ /\ source' = [source EXCEPT ![s] = "failed"]
          /\ warned' = warned \cup {s} /\ UNCHANGED <<lines, first>>
    /\ UNCHANGED <<phase, collector, data, target, evidence, timeline, report,
                   attempt>>
StartCollectors ==
    /\ phase = "sources" /\ \A s \in Source : source[s] # "todo"
    /\ phase' = "collect"
    /\ UNCHANGED <<source, lines, first, collector, data, target, warned,
                   evidence, timeline, report, attempt>>

\* DiagnosisCollectorManager: at most PoolSize run at once, and whatever one
\* raises becomes its own 'failed' outcome.
Running == {c \in Collector : collector[c] = "running"}
Collect(c) ==
    /\ phase = "collect" /\ collector[c] = "pending"
    /\ Cardinality(Running) < PoolSize
    /\ collector' = [collector EXCEPT ![c] = "running"]
    /\ UNCHANGED <<phase, source, lines, first, data, target, warned, evidence,
                   timeline, report, attempt>>
Fill(c, items) == data' = [s \in Section |->
                             IF s \in SectionsOf(c) THEN items[s] ELSE data[s]]
\* collect: the CI/CD collector also looks up the run the diagnosis is about,
\* which may be one of those in the window (its number) or an older one.
CollectorReturns(c) ==
    /\ phase = "collect" /\ collector[c] = "running"
    /\ collector' = [collector EXCEPT ![c] = "success"]
    /\ \E items \in [SectionsOf(c) -> 0..MaxItems] : Fill(c, items)
    /\ IF c = "ci_cd_context" THEN target' \in 0..MaxItems + 1
       ELSE UNCHANGED target
    /\ UNCHANGED <<phase, source, lines, first, warned, evidence, timeline,
                   report, attempt>>
CollectorRaises(c) ==
    /\ phase = "collect" /\ collector[c] = "running"
    /\ collector' = [collector EXCEPT ![c] = "failed"]
    /\ warned' = warned \cup {c}
    /\ UNCHANGED <<phase, source, lines, first, data, target, evidence,
                   timeline, report, attempt>>

-----------------------------------------------------------------------------
\* DiagnosisEvidenceBuilder.build: the copied lists under the old references,
\* every source's list under its own, and the collectors' lists.
Items(s) == 1..data[s]
SourceItems(s) == DOMAIN lines[s]
Copied(prefix, kind) ==
    IF first[kind] = None THEN {}
    ELSE {<<<<prefix, i>>, <<first[kind], i>>>> :
             i \in SourceItems(first[kind])}
\* evidence_id: a metric goes by its name, a log line by its position.
Label(s, i) == IF s \in MetricSource THEN lines[s][i] ELSE i
\* Variant: references carry the kind of source instead of the source.
SourcedByKind(s) ==
    {<<<<Kind(s), Label(s, i)>>, <<s, i>>>> : i \in SourceItems(s)}
Sourced(s) == {<<<<s, Label(s, i)>>, <<s, i>>>> : i \in SourceItems(s)}
Listed(s)  == {<<<<s, i>>, <<s, i>>>> : i \in Items(s)}
Built == Copied("LOG", "logs") \cup Copied("METRIC", "metrics")
         \cup (UNION {Sourced(s) : s \in Source})
         \cup (UNION {Listed(s) : s \in Section})

\* build_diagnosis_timeline: the deployment stands first, under the reference
\* of the first run of the window.
Deployment == IF target = 0 THEN {}
              ELSE {<<<<"PIPELINE", 1>>, <<"PIPELINE", target>>>>}
Drawn == Deployment
         \cup (UNION {Listed(s) : s \in Section \cap
                                        {"NODE", "ALERT", "K8S-EVENT"}})
         \cup (UNION {Sourced(s) : s \in LogSource})

BuildContext ==
    /\ phase = "collect"
    /\ \A c \in Collector : collector[c] \in {"off", "success", "failed"}
    /\ evidence' = Built /\ timeline' = Drawn /\ phase' = "ask"
    /\ UNCHANGED <<source, lines, first, collector, data, target, warned,
                   report, attempt>>

\* The prompt shows some of the evidence and the timeline; the AI cites what it
\* likes of it, or a reference of its own making.
Shown == {e[1] : e \in evidence \cup timeline}
\* score_structured_report.
Valid(cited) == Cardinality(cited \cap {e[1] : e \in evidence})
Report ==
    /\ phase = "ask" /\ phase' = "saved"
    /\ \E r, q \in Shown \cup {Bogus} : \E cited \in {{}, {r, q}} :
         report' = [cited |-> cited, valid |-> Valid(cited)]
    /\ UNCHANGED <<source, lines, first, collector, data, target, warned,
                   evidence, timeline, attempt>>

\* The AI fails: the attempt is given up with all it collected, and the next
\* one starts from an empty context.
GiveUp ==
    /\ phase = "ask"
    /\ IF attempt < Attempts
       THEN /\ attempt' = attempt + 1 /\ phase' = "sources"
            /\ source' = [s \in Source |-> IF source[s] = "skipped"
                                           THEN "skipped" ELSE "todo"]
            /\ lines' = [s \in Source |-> <<>>]
            /\ first' = [metrics |-> None, logs |-> None]
            /\ collector' = [c \in Collector |-> IF collector[c] = "off"
                                                 THEN "off" ELSE "pending"]
            /\ data' = [s \in Section |-> 0]
            /\ target' = 0 /\ warned' = {} /\ evidence' = {}
            /\ timeline' = {} /\ UNCHANGED report
       ELSE /\ phase' = "failed"
            /\ UNCHANGED <<source, lines, first, collector, data, target,
                           warned, evidence, timeline, report, attempt>>

Next == \/ \E s \in Source : QuerySource(s)
        \/ StartCollectors
        \/ \E c \in Collector : Collect(c) \/ CollectorReturns(c)
                                \/ CollectorRaises(c)
        \/ BuildContext \/ Report \/ GiveUp

Spec == Init /\ [][Next]_vars

-----------------------------------------------------------------------------
\* Types.
ContextTypeOK ==
    /\ phase \in {"sources", "collect", "ask", "saved", "failed"}
    /\ DOMAIN source = Source
    /\ first.metrics \in MetricSource \cup {None}
    /\ first.logs \in LogSource \cup {None}
    /\ collector \in [Collector -> {"off", "pending", "running", "success",
                                    "failed"}]
    /\ data \in [Section -> 0..MaxItems] /\ target \in 0..MaxItems + 1
    /\ warned \subseteq Source \cup Collector
    /\ report.valid \in 0..2 /\ attempt \in 1..Attempts

\* Whatever failed is warned about and takes nothing else with it: the index
\* of a saved diagnosis has every item of every source and collector that
\* answered, in whatever order they ended and however many attempts it took.
Complete ==
    phase = "saved" =>
      /\ warned = {s \in Source : source[s] = "failed"}
                  \cup {c \in Collector : collector[c] = "failed"}
      /\ \A s \in Source : \A i \in SourceItems(s) :
            \E e \in evidence : e[2] = <<s, i>>
      /\ \A c \in Collector : \A s \in SectionsOf(c) :
            Items(s) # {} => /\ collector[c] = "success"
                             /\ Listed(s) \subseteq evidence

\* Two items of one metric source that have one name.
Namesakes(x, y) ==
    \E m \in MetricSource : \E i, j \in SourceItems(m) :
        x = <<m, i>> /\ y = <<m, j>> /\ lines[m][i] = lines[m][j]

\* A reference means one item wherever it stands: in the index, on the
\* timeline and in the score; only metrics of one source that the service
\* gives one name share a reference.  The entry of the deployment is left out:
\* its reference is that of whatever run is first in the window.
RefsResolve ==
    phase \in {"ask", "saved"} =>
      /\ \A e, d \in evidence :
            e[1] = d[1] => e = d \/ Namesakes(e[2], d[2])
      /\ timeline \ Deployment \subseteq evidence
      /\ report.cited \subseteq {e[1] : e \in evidence} \cup
                              {e[1] : e \in timeline \ Deployment} =>
            report.valid = Cardinality(report.cited)
ContextSound == Complete /\ RefsResolve
=============================================================================
