--------------------------- MODULE DeliverySystem ---------------------------
(***************************************************************************)
(* The components around the pipelines, side by side.  They share no       *)
(* state: a behaviour is one of the component that part names, and the     *)
(* variables of the others are Off.                                        *)
(***************************************************************************)
EXTENDS Integers, FiniteSets, Sequences

CONSTANTS
    Handler, Editor,                                     \* of several
    Graph, Expr, Edits, MaxSaves, SaveFaults,            \* PipelineVersions
    Item, Arrows,                                        \* GraphBuild
    Task, Draft, Content, Promoter, MaxNodes,            \* DraftAssets
    Run, First, Fixed, WorkPlans,                        \* NodeWork
    Delivery, HookEdits, HookFaults,                     \* PipelineWebhooks
    View, BeatEntry,                                     \* AnsibleSchedule
    Exec, MaxFaults,                                     \* AnsibleExecution
    Celery, Node, PulseFaults,                           \* TaskPulse
    Release, App, Chart, Revision, Name(_), AppSync,     \* HelmReleases
    Budgets,
    Baseline, Clause, Parent, Top, Covers, Check,        \* HostChecks
    CheckFaults, BaselineEdits,
    Ip, HostName, Report, Syncer, MaxHosts,              \* HostInventory
    InventoryBudgets

VARIABLES
    part,
    template, versions, entry, nextId, save, revived, settled, savesLeft,
    saveFaults,
    origin, given, nodes, excluded, edges, level, frontier, phase,
    task, draft, analysis, promotion, taskEdit, sweep, kept,
    run, node, image, dir, pushed, artifact, temp, built, shipped, stated,
    mixed, plan, workFaults, rounds,
    hook, delivery, hookEdit, triggered, off, hookCrossed, hookEdits,
    hookFaults,
    sched, beat, used, view, crossed,
    execution, launch, execTask, terminate, faultsLeft, late, forsaken,
    track, wire, real, worker, told, unheard, up, pulseFaults,
    store, release, past, handler, branch, app, appSync, meant, last, excused,
    appCrossed, drifted, left,
    base, check, verdict, alarm, fixing, baseEdit, checkFaults, baselineEdits,
    hosts, nextHost, owned, sync, probe, hostEdit, taken, touched, budget

Versions == INSTANCE PipelineVersions WITH row <- template
Build == INSTANCE GraphBuild
Drafts == INSTANCE DraftAssets WITH edit <- taskEdit
Work == INSTANCE NodeWork
Hooks == INSTANCE PipelineWebhooks WITH edit <- hookEdit,
       crossed <- hookCrossed
Schedule == INSTANCE AnsibleSchedule WITH Entry <- BeatEntry
Executions == INSTANCE AnsibleExecution WITH row <- execution,
       task <- execTask
Pulse == INSTANCE TaskPulse WITH Pulse <- Celery, node <- worker
Helm == INSTANCE HelmReleases WITH Syncer <- AppSync, row <- app,
       syncer <- appSync, crossed <- appCrossed
Checks == INSTANCE HostChecks WITH edit <- baseEdit
Hosts == INSTANCE HostInventory WITH nextId <- nextHost, edit <- hostEdit

\* An update sends a graph and a cron expression, of five fields or not.
\* The ids of beat entries, tasks, checks and syncs are none of the marks that
\* stand for 'no id', those of runs none of the marks for a source or an image
\* that is not a run's, no configured tag stands for 'no tag', no process is
\* both a delivery and an editor, and the application's release is one of the
\* cluster's.  Beside that, there are finitely many deliveries, nodes of a
\* graph and clauses, edges join nodes, a clause covers baselines of the inventory, no clause is below itself (its
\* rank is its height), and a platform reports an address once.
ASSUME EditTypes ==
    Edits \subseteq [graph : Graph \cup {Versions!Empty}, on : BOOLEAN,
                     expr : Expr \cup {Versions!Blank, Versions!BadExpr}]
ASSUME ExprNames == Expr \cap {Versions!Blank, Versions!BadExpr} = {}
ASSUME GraphBounds == Arrows \subseteq Item \X Item /\ IsFiniteSet(Item)
ASSUME EntryNames == Schedule!NoEntry \notin BeatEntry
ASSUME RunNames == {Work!NoRun, "part", "default", "missing"} \cap Run = {}
ASSUME TagNames == Work!NoTag \notin Fixed
ASSUME TaskNames == "none" \notin Task
ASSUME CheckNames == Checks!NoCheck \notin Check
ASSUME DeliveriesFinite == IsFiniteSet(Delivery)
ASSUME HandlersApart == Delivery \cap Editor = {}
ASSUME AppNames == App \in Release
ASSUME SyncerNames == "none" \notin Syncer
ASSUME ReportTypes ==
    /\ Report \subseteq Seq(Hosts!Row)
    /\ \A report \in Report : \A a, b \in Hosts!Range(report) :
          a.ip = b.ip => a = b
ASSUME ClausesFinite == IsFiniteSet(Clause)
ASSUME ClausesOrdered ==
    \E rank \in [Clause -> 0..Checks!Depth] :
       \A k \in Clause : \A j \in Checks!Children(k) : rank[j] < rank[k]
ASSUME CoverTypes == Covers \in [Clause -> SUBSET Baseline]

versionVars == <<template, versions, entry, nextId, save, revived, settled,
                 savesLeft, saveFaults>>
buildVars == <<origin, given, nodes, excluded, edges, level, frontier, phase>>
draftVars == <<task, draft, analysis, promotion, taskEdit, sweep, kept>>
workVars == <<run, node, image, dir, pushed, artifact, temp, built, shipped,
              stated, mixed, plan, workFaults, rounds>>
hookVars == <<hook, delivery, hookEdit, triggered, off, hookCrossed, hookEdits,
              hookFaults>>
scheduleVars == <<sched, beat, used, view, crossed>>
executionVars == <<execution, launch, execTask, terminate, faultsLeft, late,
                   forsaken>>
pulseVars == <<track, wire, real, worker, told, unheard, up, pulseFaults>>
helmVars == <<store, release, past, handler, branch, app, appSync, meant, last,
              excused, appCrossed, drifted, left>>
checkVars == <<base, check, verdict, alarm, fixing, baseEdit, checkFaults,
               baselineEdits>>
hostVars == <<hosts, nextHost, owned, sync, probe, hostEdit, taken, touched,
              budget>>

vars == <<part, versionVars, buildVars, draftVars, workVars, hookVars,
          scheduleVars, executionVars, pulseVars, helmVars, checkVars,
          hostVars>>

-----------------------------------------------------------------------------
Off == 0
VersionsOff ==
    /\ template = Off /\ versions = Off /\ entry = Off /\ nextId = Off
    /\ save = Off /\ revived = Off /\ settled = Off /\ savesLeft = Off
    /\ saveFaults = Off
BuildOff ==
    /\ origin = Off /\ given = Off /\ nodes = Off /\ excluded = Off
    /\ edges = Off /\ level = Off /\ frontier = Off /\ phase = Off
DraftsOff ==
    /\ task = Off /\ draft = Off /\ analysis = Off /\ promotion = Off
    /\ taskEdit = Off /\ sweep = Off /\ kept = Off
WorkOff ==
    /\ run = Off /\ node = Off /\ image = Off /\ dir = Off /\ pushed = Off
    /\ artifact = Off /\ temp = Off /\ built = Off /\ shipped = Off
    /\ stated = Off
    /\ mixed = Off /\ plan = Off /\ workFaults = Off /\ rounds = Off
HooksOff ==
    /\ hook = Off /\ delivery = Off /\ hookEdit = Off /\ triggered = Off
    /\ off = Off /\ hookCrossed = Off /\ hookEdits = Off /\ hookFaults = Off
ScheduleOff ==
    /\ sched = Off /\ beat = Off /\ used = Off /\ view = Off /\ crossed = Off
ExecutionsOff ==
    /\ execution = Off /\ launch = Off /\ execTask = Off /\ terminate = Off
    /\ faultsLeft = Off /\ late = Off /\ forsaken = Off
PulseOff ==
    /\ track = Off /\ wire = Off /\ real = Off /\ worker = Off /\ told = Off
    /\ unheard = Off /\ up = Off /\ pulseFaults = Off
HelmOff ==
    /\ store = Off /\ release = Off /\ past = Off /\ handler = Off
    /\ branch = Off /\ app = Off /\ appSync = Off /\ meant = Off /\ last = Off
    /\ excused = Off /\ appCrossed = Off /\ drifted = Off /\ left = Off
ChecksOff ==
    /\ base = Off /\ check = Off /\ verdict = Off /\ alarm = Off
    /\ fixing = Off /\ baseEdit = Off /\ checkFaults = Off
    /\ baselineEdits = Off
HostsOff ==
    /\ hosts = Off /\ nextHost = Off /\ owned = Off /\ sync = Off
    /\ probe = Off /\ hostEdit = Off /\ taken = Off /\ touched = Off
    /\ budget = Off

Init ==
    /\ part \in {"versions", "build", "drafts", "work", "webhooks", "schedule",
                "executions", "pulse", "helm", "checks", "hosts"}
    /\ IF part = "versions" THEN Versions!Init ELSE VersionsOff
    /\ IF part = "build" THEN Build!Init ELSE BuildOff
    /\ IF part = "drafts" THEN Drafts!Init ELSE DraftsOff
    /\ IF part = "work" THEN Work!Init ELSE WorkOff
    /\ IF part = "webhooks" THEN Hooks!Init ELSE HooksOff
    /\ IF part = "schedule" THEN Schedule!Init ELSE ScheduleOff
    /\ IF part = "executions" THEN Executions!Init ELSE ExecutionsOff
    /\ IF part = "pulse" THEN Pulse!Init ELSE PulseOff
    /\ IF part = "helm" THEN Helm!Init ELSE HelmOff
    /\ IF part = "checks" THEN Checks!Init ELSE ChecksOff
    /\ IF part = "hosts" THEN Hosts!Init ELSE HostsOff

Next ==
    /\ UNCHANGED part
    /\ IF part = "versions" THEN Versions!Next ELSE UNCHANGED versionVars
    /\ IF part = "build" THEN Build!Next ELSE UNCHANGED buildVars
    /\ IF part = "drafts" THEN Drafts!Next ELSE UNCHANGED draftVars
    /\ IF part = "work" THEN Work!Next ELSE UNCHANGED workVars
    /\ IF part = "webhooks" THEN Hooks!Next ELSE UNCHANGED hookVars
    /\ IF part = "schedule" THEN Schedule!Next ELSE UNCHANGED scheduleVars
    /\ IF part = "executions" THEN Executions!Next ELSE UNCHANGED executionVars
    /\ IF part = "pulse" THEN Pulse!Next ELSE UNCHANGED pulseVars
    /\ IF part = "helm" THEN Helm!Next ELSE UNCHANGED helmVars
    /\ IF part = "checks" THEN Checks!Next ELSE UNCHANGED checkVars
    /\ IF part = "hosts" THEN Hosts!Next ELSE UNCHANGED hostVars

Spec == Init /\ [][Next]_vars

-----------------------------------------------------------------------------
\* Every component keeps its types.
DeliveryTypeOK ==
    /\ part = "versions" => Versions!VersionTypeOK
    /\ part = "build" => Build!GraphTypeOK
    /\ part = "drafts" => Drafts!DraftTypeOK
    /\ part = "work" => Work!WorkTypeOK
    /\ part = "webhooks" => Hooks!HookTypeOK
    /\ part = "schedule" => Schedule!ScheduleTypeOK
    /\ part = "executions" => Executions!ExecTypeOK
    /\ part = "pulse" => Pulse!PulseTypeOK
    /\ part = "helm" => Helm!HelmTypeOK
    /\ part = "checks" => Checks!CheckTypeOK
    /\ part = "hosts" => Hosts!InventoryTypeOK

\* Each of the following properties is that of the component; the comments
\* there name the exceptions.

\* The template has one current version, the current one holds its graph, and
\* the beat entry follows its schedule.  Code: Pipeline.save.
VersionsSound ==
    part = "versions" => Versions!OneCurrent /\ Versions!CronFollows

\* A graph built from a model's answer or a YAML file keeps what waits for
\* what.  Code: normalize_and_filter_ai_dag, yaml_parser.py.
GraphFaithful == part = "build" => Build!GraphFaithful

\* A promoted pipeline keeps its tasks, whatever the clean-up of expired
\* drafts deletes.  Code: promote, cleanup_expired_ai_drafts.
PromotedKept == part = "drafts" => Drafts!PromotedKept

\* A run builds from a complete source of its own and, when its node names no
\* image, deploys its own or what has been pushed under the same tag since.
\* Code: execute_pipeline_node, retry, the clean-ups of workspaces.
WorkSound == part = "work" => Work!WorkSound

\* The counter of a webhook agrees with the runs, and a webhook that was
\* disabled is disabled.  Code: PipelineWebhookViewSet.trigger.
HookSound == part = "webhooks" => Hooks!HookSound

\* Beat runs a schedule exactly when it is enabled.  Code:
\* AnsibleScheduleViewSet, sync_ansible_schedule_to_beat.
BeatFollows == part = "schedule" => Schedule!BeatFollows

\* A task shown as revoked does nothing more.  Code: TaskPulseViewSet.revoke.
RevokedIsOver == part = "pulse" => Pulse!RevokedIsOver

\* Charts are kept under their own names, and 'Synced' is true.  Code:
\* helm_views.py, sync_k8s_application.
ReleasesSound == part = "helm" => Helm!ReleasesSound

\* A baseline shows the outcome of its own last check; alerts, remediations
\* and clauses follow it.  Code: check_host_baseline, compliance_status.
ChecksSound == part = "checks" => Checks!ChecksSound

\* Hosts taken out of use stay so, and a finished sync has left what it
\* reported.  Code: sync_platform_assets, check_host_connectivity.
HostsSound == part = "hosts" => Hosts!HostsSound

=============================================================================
