# ansflow-backend in TLA+

This directory models the parts of ansflow-backend (Django, Celery, Redis)
whose correctness depends on the order in which concurrent tasks and request
handlers read and write shared rows. TLC checks the models on small instances;
TLAPS proves the main safety theorems for every value of the constants.
File references are relative to the repository root, `src/` omitted.

## 1. The system

| Component | State | Operations | Interacts with |
|---|---|---|---|
| **Pipeline engine** `apps/pipeline_management/{tasks,views,models}.py` | `PipelineRun`, one `PipelineNodeRun` per node, workspaces, images, artifacts | `advance_pipeline_engine`, `execute_pipeline_node`, run `stop` and `retry`, node `approve`, `execute`, clean-ups | Celery, Ansible tasks, Helm, alerts (signal on `PipelineRun`) |
| **Templates and versions**, same app | `Pipeline`, `PipelineVersion`, beat entry, `PipelineWebhook`, drafts | save (snapshot, cron), rollback, promote, filter of generated graphs, YAML parser, webhook trigger | runs take the template's graph |
| **Approval centre** `apps/approval_center` | `ApprovalTicket`, policies | interception, `approve` with replay, `reject`, expiry | replays any intercepted view; signal into alerts |
| **Alerts and self-healing** `apps/sre_management` | `AlertEvent`, debounce lock in Redis | receive, analyse, breaker, trigger, bind, rediagnose | pipelines, approval centre, signals from both |
| **Diagnosis**, same app | `DiagnosisRun`, templates and versions, replays, AI breaker | create, claim, finish, retry, recover; edit, rollback, replay | Celery, data sources, AI |
| **Ansible tasks** `apps/task_management` | `AnsibleTask`, `AnsibleExecution`, `AnsibleSchedule`, beat | run, task, terminate, delete; schedule views | pipeline nodes, baseline checks |
| **Task monitor** `apps/task_pulse` | `TaskPulse`, `WorkerNode` | Celery events, revoke, maintenance | pipeline runs, executions |
| **Configuration centre** `apps/config_center`, `utils/config_*.py` | `ConfigItem`, three cached forms, subscribers | create, update, delete, rollback, set, broadcast | every reader of settings |
| **RBAC** `apps/rbac_permission`, `utils/rbac_permission.py` | roles, grants, per-user cache; projects, members, shares | signals, refresh tasks, permission and scope checks | every view |
| **Authentication** `apps/auth` | `User`, tokens | logins of four kinds, refresh, binding | RBAC's user rows |
| **AI engine** `apps/ai_engine` | documents, chunks, vector store | upload, index, reindex, edit, delete | Celery, Chroma |
| **Hosts** `apps/host_management` | `Host`, baselines, clauses | check, alert, remediate; sync, probe, import, edit | Ansible, alerts, cloud providers |
| **Kubernetes** `apps/k8s_management` | Helm releases, kept charts, `K8sApplication` | deploy, roll back, uninstall, GitOps sync | helm, git |
| **Backup** `apps/system_management` | backup files, every table | generate, upload, restore | the database |
| Credentials, status push, HTTP layer, deployment, scripts | rows and plumbing | | |

What is hard in this system is the same everywhere. Tasks and handlers read an
ORM object once, work for a while and write it back, often with every column,
without a lock or a version. There is no `ATOMIC_REQUESTS`: each statement of a
view commits by itself unless the view opens a transaction. Redis as a broker
with Celery's default early acknowledgement means that a task that dies is
gone, and that a message that waits too long in a busy worker is delivered
again. Rows are saved before or after the message that belongs to them, and a
failure between the two leaves one without the other. Signals write into other
apps' rows; caches, beat entries, vectors and charts live beside the database
and take part in no transaction. `PROJECT.json` lists each such place
("hazards") with the properties that watch it.

What makes each component correct:

* **Pipeline engine**: no node before its upstream nodes; a run that says
  *success* passed every node; every run ends, also with a cycle in its graph;
  a stop holds; a verdict is final; a graph from `.ansflow-ci.yml` is the one
  that is executed. What a node builds comes from its own run's source, and
  what it deploys is its own run's image.
* **Templates**: one current version, the beat entry follows the schedule; a
  generated graph keeps the order of its actions; a promoted draft keeps its
  tasks; webhook counters agree with the runs.
* **Approval centre**: one open ticket per request; a request is replayed by
  one approver at a time and succeeds at most once; tickets end.
* **Self-healing**: one automatic run per debounce window; what an alert shows
  as running does run and ends; the breaker stops loops.
* **Diagnosis**: no two workers make it at once; what is made stays made; every
  run ends; its evidence can be cited; a version number names its content.
* **Ansible, task monitor**: executions end; a revoked task is over; beat runs
  what is enabled; what is shown of a worker follows the worker.
* **Configuration, RBAC, accounts**: caches agree with the database, or will;
  an identity has one account; a removed member stays out.
* **Knowledge base, hosts, Helm, backup**: an indexed document has its
  vectors; a baseline shows its own last outcome; a chart is kept under its own
  name; a restored reference leads to the row it meant.

## 2. Modules

| Module | What it is |
|---|---|
| `PipelineEngine` | one pipeline run: engine, executor, stop, node approval, step by step |
| `DagRun` | the abstract promise: nodes begin in order while the run is open; it succeeds when all have passed |
| `NodeWork` | what the nodes of several runs do: clone, build, push, record, deploy, clean up |
| `PipelineVersions` | save of a template: row, version snapshot, beat entry |
| `GraphBuild` | generated graphs: bypass of nodes that are no actions, levels, YAML jobs |
| `DraftAssets` | drafts of analyses, promotion, clean-up of old drafts |
| `PipelineWebhooks` | deliveries that trigger runs, edits of the webhook |
| `ApprovalTicket` | submitters, approvers, rejections, expiry |
| `AlertHealing` | the alerts of one fingerprint, analyses, tickets and healing runs |
| `DiagnosisRun` | one point-in-time diagnosis: enqueue, claim, retries, recovery |
| `DiagnosisTemplates` | a diagnosis template, its versions, replays, the AI breaker |
| `DiagnosisContext`, `DiagnosisPrompt` | evidence of one diagnosis; cutting it to the prompt's budget |
| `AnsibleExecution`, `AnsibleSchedule` | executions; schedules and their beat entries |
| `TaskPulse` | the task monitor |
| `ConfigCenter` | one configuration item, its cached forms and subscribers |
| `PermissionCache`, `ProjectAccess` | roles and the cache of what they give; projects, members, decisions |
| `Accounts` | identities and first logins |
| `KnowledgeBase` | documents, chunks, vectors |
| `HostChecks`, `HostInventory` | baseline checks and clauses; hosts under syncs, probes and edits |
| `HelmReleases` | releases, kept charts, GitOps |
| `BackupRestore` | restoring a backup |
| `DeliverySystem`, `OperationsSystem` | components that share no state side by side, with the assumptions on their constants |
| `MCPipelineEngine`, `MCApprovalTicket`, `MCDiagnosisRun`, `MCAlertHealing` | instances of one component for TLC |
| `MCDelivery`, `MCOperations` | values for the two systems; `MCLives` adds four components to a diagnosis under fairness |
| `PipelineEngineProofs`, `ApprovalTicketProofs`, `DiagnosisRunProofs` | TLAPS proofs of these modules (section 4) |
| `DeliveryProofs`, `AssetProofs`, `PlatformProofs`, `AccessProofs`, `OperationsProofs` | TLAPS proofs of components of the two systems |

An action is one database access, cache access or external call, or several
that no other process can tell apart, with the code around it. Handlers and
tasks have a program counter and the objects they read. A full `save()` writes
back every column the holder read; a `save(update_fields=...)` writes only
those named. That difference is the core of most modules. Which code each
definition stands for is in `PROJECT.json` ("map"), line by line.

### 2.1 PipelineEngine

State. `run` and `node` are the database rows, `ids` the `celery_task_id`
columns (only as far as they name a task that is still running, which is all a
revoke can reach), `engineQ` and `nodeQ` the queued Celery messages. Each
worker has a program counter and the objects its task read: `seenRun`,
`seenNode`, and `todo`, the ready nodes the engine has still to dispatch. The
stop handler and each approve handler keep the objects they read in `stop` and
`approval`. `doomed` holds the workers a `revoke(terminate=True)` was sent to.
`begun` and `done` are history: nodes ever dispatched, nodes ever passed.

| Code | Actions |
|---|---|
| `tasks.py` `advance_pipeline_engine` | `AdvanceBegin` (read run, early return), `AdvanceEmpty`, `AdvanceLoad` (snapshot of the graph, missing rows, read rows), `AdvanceJudge` ('running', readiness), `AdvanceDispatch` per ready node, `AdvanceFinalize`; `AdvanceFault` (the except branch), `AdvanceLost` (row saved, message not queued) |
| `tasks.py` `execute_pipeline_node` | `NodeBegin`, `NodeRefuse` (run cancelled), `NodeStart`, `NodeSave` (full saves in the middle), `NodeSyncYaml` (a `git_clone` replaces the graph), `NodeFinish`, `NodeRetry`, `RetryLost`, `NodeNotify` |
| `views.py` run `stop` | `StopBegin`, `StopMark`, `StopList`, `StopNode`, `StopFault` |
| `views.py` node `approve` | `ApproveBegin`, `ApproveSave`, `ApproveAdvance`, `ApproveFault` |
| `views.py` run `retry`, `execute`; cron | `Init`: a fresh run without rows, or with the ancestors of the start node 'skipped' |
| Celery | `TaskDies` (killed, crashed, or an exception outside the executor's try), `Redeliver` (visibility timeout) |

Abstracted: logs, notifications and websocket pushes, timestamps; the retry
delay is any delay. Assumed: the template is not edited while a run of it is
open (a run keeps its own snapshot of the graph, but the executor reads node
configurations, among them `max_retries`, from the live template).

`NodeWork` is what the nodes do. `dir` says whose source each run's workspace
holds and how old it is, `image`, `pushed` and `artifact` what was built and
recorded, `shipped` what was deployed. A retry (`Retry`, `AdvanceCopy`) is
meant to copy its parent's workspace, but in fact every retry of a run works in
the first run's directory (`Base`), which the run's end and
`cleanup_old_workspaces` remove. `OwnSource` therefore excepts two retries of
one run at the same time and a git process left over by a timeout (`mixed`).

### 2.2 Templates

`PipelineVersions`: `Pipeline.save` saves the row, reads the last version
number, unmarks the current version, inserts the new one and brings the beat
entry in step, each a statement of its own (`SaveRow`, `Snapshot*`, `Cron*`);
`Update`, `Rollback`, `Destroy` start or end it. `settled` says that the last
save was alone. A row deleted within a save is inserted again by its full save
(`revived`), which `OneCurrent` excepts. `GraphBuild` has the two ways to a
graph, with an exact reference for the bypass: who reached whom before must
reach them after. `DraftAssets` has the analysis that reuses or creates tasks
by their content's hash, `promote` and `cleanup_expired_ai_drafts`, which lists
before it deletes; `kept` is history, what each promotion committed.
`PipelineWebhooks`: a delivery reads the webhook, checks, creates a run, saves
the webhook in full, queues the engine. Overlapping handlers (`crossed`) lose
counts and may enable a disabled webhook again.

### 2.3 ApprovalTicket

State. `ticket` holds each row's status, fingerprint and whether its deadline
has passed; `lock` the row locks of `select_for_update`; `submit` and `answer`
where each handler is; `ran` counts the successful replays of each ticket.

| Code | Actions |
|---|---|
| `engine.py` `intercept_if_needed` | `InterceptSweep`, `InterceptFind` (get_or_create finds a pending ticket), `InterceptInsert` (or the partial unique constraint refuses) |
| `views.py` `approve` | `ApproveCheck` (lock and checks), `ApproveExpired`, `ApproveCommit` |
| `engine.py` `resume_execution` | `ResumeRun`, `ResumeSave` |
| `views.py` `reject` | `Reject` |
| `tasks.py` `expire_approval_tickets` | `ExpireTickets` |
| environment | `Elapse` (a deadline passes), `ApproverDies` (open transaction rolled back, committed state stays) |

The unique constraint `uniq_active_approval_fingerprint` is the guard
`ActiveFor(...)` of `InterceptInsert` and `ApproveCommit`. Abstracted: policy
matching, approver roles, notifications, what the replayed view does beyond
succeeding or failing. Left out: tickets with a blank fingerprint, which only
an early migration left behind.

### 2.4 AlertHealing

State. `alert` are the rows of one fingerprint (`receive` reuses the open one;
no constraint keeps two from being created by webhooks that overlap), `key` the
debounce lock, `policy` the matched self-healing policy and whether an approval
policy covers it, `run` and `ticket` what the healing starts. `handler` and
`worker` hold copies of alerts: receive, rediagnose, bind; analyses and healing
tasks. The steps of `ApprovalTicket` and `PipelineEngine` appear here only as
the statuses that the two signals copy (`Approve`, `Replay`, `LinkRun`,
`FinishTicket`, `RejectTicket`, `ExpireTicket`; `RunBegin`, `RunEnd`,
`RunStop`), with the full saves the signals make. `overtaken` names alerts to
which a copy read earlier was written back over a newer state;
`ExecutingIsLive`, `AnalysisEnds` and `HealingEnds` except those, healings
whose replay failed, and runs committed but never queued (`Forsaken`).
`windows` and `autoRuns` count debounce windows and automatic runs.

### 2.5 Diagnosis

`DiagnosisRun`. `row` is the `DiagnosisRun` row: status, `celery_task_id`, and
whether its heartbeat is younger than `SRE_DIAGNOSIS_STALE_MINUTES`. `queue`
counts the queued messages by task id and retry number, `exec` says where each
worker's task is, `call` where each HTTP handler or sweep is and what it read,
`sent` which ids were handed out. The `*Left` variables are budgets.

| Code (`sre_management`) | Actions |
|---|---|
| `views.py` `perform_create` | `Init`: the row is inserted, its handler about to enqueue it |
| `tasks.py` `enqueue_diagnosis_run` | `Enqueue`, `SaveId`; `EnqueueFails` (the broker refuses) |
| `tasks.py` `run_timepoint_diagnosis` | `Claim` (under the row's lock, or `Ignored`), `Check` (outcome, id read again without lock), `SaveSuccess`, `SaveFailure`, `Retry`, `RetryLost` |
| `tasks.py` `recover_stale_diagnosis_runs` | `SweepList`, `SweepReset`, `Enqueue`, `SaveId` |
| `views.py` `retry` | `RetryRead`, `RetryReset`, `Enqueue`, `SaveId` |
| `DiagnosisRunViewSet` update | `EditRead`, `EditSave`: a full save of the row read |
| environment | `TaskDies`, `Redeliver`, `GrowStale` |

`Timely` is an assumption on speeds that the code makes without stating it: a
task and a handler take less than the stale period (30 minutes by default; a
diagnosis bounds its collectors and the AI call by seconds or minutes and never
renews its heartbeat), and a caller saves the id its message got before the
task it started is over. With `Timely = FALSE` none of this holds.

`DiagnosisTemplates`: an edit saves the template with the next number and then
inserts the version row, which the unique constraint may refuse; only the
rollback is a transaction. Versions hold their content with secrets masked, so
a rollback puts the masks in the template. `torn` says that edits overlapped or
one died between its writes. Replays are labelled with the number the request
saw and run with the content the worker finds; one whose worker dies stays
'running'. The AI breaker counts failures by a read and a write.
`DiagnosisContext`: data sources are queried one by one, collectors in a
thread pool in any order; every list numbers its own items, and the first list
of each kind is copied to older fields under older references (`CopyFirst`).
The deployment's entry on the timeline has the reference of the first run of
the window, whichever run it is (`Deployment`, an exception of `RefsResolve`).
`DiagnosisPrompt`: the budgets of the sections, the cuts, the counts.

### 2.6 Ansible tasks and the task monitor

`AnsibleExecution`: `Launch*` creates the row, queues the task, saves the row
in full; `Task*` and `Terminate*` save it too, `PulseRevoke` and `BatchDelete`
come from elsewhere. `late` holds executions whose launcher saved 'pending'
over a task that had begun, `forsaken` those whose task was refused or died.
`terminate` writes 'cancelled', which the model's choices do not list.
`AnsibleSchedule`: each view writes the row and then syncs the beat entry from
its copy (`SyncOn`, `Link`, `SyncOff`); `crossed` says two views overlapped.
`TaskPulse`: `wire` are the events of each task in the order sent, `real` the
last one that happened, `track` the row that is shown. SUCCEEDED, FAILED and
RETRIED come from event names, are no choices of the model, and never get an
end time. `Revoke` tells Celery first and saves then; a command that could not
be sent is only logged (`unheard`). Worker nodes age (`Age`) and are marked and
pruned by `RefreshWorkerLifecycle`.

### 2.7 Configuration, roles, projects, accounts

`ConfigCenter`: one item and its three cached forms (item, category, all);
writers change the row, clear the forms one by one, notify their own process
and publish to the others; readers fill what they read. `marred` names causes
after which the forms may differ until they expire: overlapping reads or
changes, Redis failing, a listener that ended, `set` (tells nobody), a category
deleted with its items. `PermissionCache`: signals find the users of a changed
role and of its descendants and queue a refresh per user; `excused` are a
refused message, rows deleted (no signal sees the cascade) and a value stored
after a newer one. `ProjectAccess`: memberships and shares, and the decision on
a request in the order of the code (global codes, project role, object
ownership). `crossed` are memberships two requests were at. `Accounts`: `Login`,
`FindUser`, `NameUser`, `CreateUser`, `Enter` are the steps of a first sign-in;
`Unique` are the providers whose column is unique (not LDAP), `moved` the
identities whose account was bound to another one since. A POST login leaves the refresh
cookie of an earlier account in place.

### 2.8 Knowledge, hosts, Helm, backup

`KnowledgeBase`: an upload is parsed, split, its vectors added, then its chunk
rows; a reindex lists the chunks, clears their vectors and indexes document by
document. `spoilt` and `doomed` are documents edited, failed or deleted
meanwhile (deletions go to another collection, so vectors stay).
`HostChecks`: `CheckBegin` reads the baseline, `CheckMark` writes two fields,
`CheckSave` the whole row; then the alert and the remediation. A clause's
status is computed from its children or its baselines, not both: a clause with
children ignores its own mappings. `HostInventory`: a sync writes what the
provider reported, host by host, and aborts at the first name clash; the probe
lists hosts in use and updates status alone; edits save whole rows. `taken` are
hosts taken out of use, `touched` addresses somebody else wrote during a sync.
`HelmReleases`: install and upgrade deploy, then look the release up again and
file the chart under the listed name; a later upgrade without upload takes the
chart of that name. The GitOps sync clones, compares, upgrades and saves a row
it read before. `excused`, `crossed` and `drifted` name the overlaps.
`BackupRestore`: records are matched by natural key or created, `idMap`
rewrites foreign keys and ids embedded in graphs and versions, once; errors of
single records are kept, and the transaction commits or rolls back.

## 3. Runs

Components that share no state are checked side by side: in `DeliverySystem`,
`OperationsSystem` and `MCLives` the variable `part` picks a component in the
initial state and stays, each behaviour is one of that component, and the
variables of the others are `Off`. A property of a component is stated there as
`part = "..." => ...` over the instance of its module, so that one run checks
it and a theorem about the same specification proves it. `MCOperations`
narrows the initial states (`MCInit`: which faults go with which alerts); the
theorems are about the wider `Spec` of the system. The composition of
components that do interact is inside a module, where the interaction is:
alerts with tickets and runs, executions with the monitor's revoke, templates
with beat, node work with several runs.

| Run | Instance | What it shows |
|---|---|---|
| `PipelineSchedule` | diamond, cycle, branches with an approval, clone first; 2 workers, 2 approvers; fair | `DependencyOrder`, `SuccessMeansPassed`, `YamlFollowed`; every run `Settles`; `CycleFails` |
| `PipelineLine` | chain, gate and a template without nodes, fresh and retry runs, one node retry; fair | `SingleExecution`, `VerdictIsFinal`, and the refinement `ImplementsDagRun` |
| `PipelineStop` | branches with approval and node retry under one stop and one fault; diamond and gate with one message delivered twice; 1.2 M states | `IndInv`, `CancelSticks` |
| `Tickets` | 3 tickets for one request, 2 submitters, 2 approvers, one crash; fair; 134 k states | `OneActive`, `NoOverlap`, `SucceedsOnce`, `TicketsEnd` |
| `Diagnosis` | 3 task ids, 2 workers, 2 callers, one retry request, one update, every kind of fault once; not `Timely`; 1.6 M states | `SuccessStands` |
| `Delivery` | eleven parts: versions, graphs, drafts, node work, webhooks, schedules, executions, monitor, Helm, checks, hosts; 1.3 M states | one safety property for each (executions: types), and `DeliveryTypeOK` |
| `Operations` | ten parts: alerts, diagnosis templates, context, prompt, knowledge, restore, configuration, roles, accounts, projects; 1.2 M states | one safety property for each (context and prompt share `EvidenceSound`), and `OperationsTypeOK` |
| `Lives` | five parts under fairness: alerts, executions, monitor, configuration, a diagnosis with two workers killed at work; 125 k states | `WorkEnds`, `StateFollows`; `CalmInv`, `WorkIsHeld` |
| `StopRevived` | chain, one stop | violates `StopHolds` |
| `RetryWindow` | fork, one node retry | violates `VerdictIsFinal` |
| `YamlDropped` | clone beside another node | violates `YamlComplete` |
| `BreakerTrips` | one alert that fires four times, debounce window over in between | violates `BreakerHolds` |

Four runs end in a counterexample, because the code disagrees with its own
comments:

* **StopRevived.** The stop handler says its mark blocks the engine's next
  scheduling (`views.py:243`). An engine that read the run as 'pending' before
  the stop saves 'running' after it (`tasks.py:798`) and dispatches nodes. What
  does hold is `CancelSticks`: once every task and handler that read the run
  before the stop is gone, nothing revives it.
* **RetryWindow.** A node with retries left is first saved 'failed' (l. 665)
  and then set back to 'running' (l. 685), although it is retried "until it has
  really failed" (l. 690). An engine called by a parallel branch in between
  ends the run as failed while the node is still retried. On graphs without
  parallel branches the verdict is final (`PipelineLine`).
* **YamlDropped.** The run's own graph has priority (l. 743), but an engine
  that read the run before a `git_clone` replaced it judges with the old one;
  if all rows have passed by then it saves 'success' and the YAML jobs never
  run. With the clone as only root this cannot happen (`PipelineSchedule`).
* **BreakerTrips.** The breaker counts the automatic healings of the last hour
  (`sre_management/tasks.py:776`), but what it counts are alert rows created
  within the hour, and `receive` reuses the one open row of a fingerprint
  (`views.py:365`). The same alert firing again and again is healed
  automatically every time; only rows created anew count.

Bounds. Two workers are the least at which a stale copy can be held across
another task's whole life; a third adds only more of the same, since all
interactions are pairwise through a row. The same holds of two handlers, two
editors, two syncers. Four nodes are enough for a join, a cycle with a node
outside it and a clone beside a branch. Stops, faults and doubled messages are
each placed at every step. Three tickets are a failed one, the one submitted
after it and one more. The diagnosis needs three task ids: one lost with each
killed worker and one that ends. Requests, edits and faults of the components
in `MCDelivery` and `MCOperations` are bounded by budgets picked in the initial
state (`Budgets`, `WorkPlans`, `HookEdits`, `MaxSaves`, ...): a state with few
of one kind and several of another is reached without the product of all. The
bounds are constants of the modules and appear in guards only; the proofs hold
for every value of them.

Where a property can fail by a race the code really has, the race is in the
model and the property names it as an exception, as narrow as the state that
causes it (`crossed`, `overtaken`, `excused`, `marred`, `torn`, ... of section
2). What is claimed is that nothing else breaks it.

Deadlock is checked where a run must end (`PipelineSchedule`, `PipelineLine`:
the step `Over` stutters only in quiescent states with a verdict). It is
switched off where a stop or a fault may leave a run without a task, and where
the budgets of requests end.

Fairness. `FairSpec` of `PipelineEngine` asks of each worker that it takes
messages and ends tasks, of the stop and approve handlers that they finish, and
of people that a waiting approval is answered some day: Celery workers run in
a loop and the container restarts them. No fault, stop request, mid-work save
or revoke is ever owed. `ApprovalTicket` asks that handlers which have started
go on, that time passes and that the beat (`config/settings/base.py`, every
60 s) runs the sweep; nobody owes an answer. `DiagnosisRun` asks that workers
take messages and end tasks, that a started handler goes on, that time passes
and that the beat (every 10 minutes) runs the recovery sweep. `AlertHealing`
and `AnsibleExecution` ask that begun handlers, tasks, replays and runs go on;
nobody owes an alert, an approval or a termination. `TaskPulse` asks for the
heartbeats of live workers, time and the maintenance task; `ConfigCenter` that
begun requests go on and that Redis drops entries at their time.

`WorkIsHeld` and the end of a diagnosis (`WorkEnds`) are not claimed with racing
retry requests or refused messages: two requests at once can leave the row with the
id of a message a worker has already ignored, and a sweep whose message is
refused has reset the row already. Such a row stays 'pending', which the sweep
does not look at. One task at work at most (`CalmInv`) is not claimed when a task
outlives the stale period. `SingleExecution`, `VerdictIsFinal` and `ImplementsDagRun` are not
claimed beyond their run's graphs: behind a join two engines can dispatch the
same node twice (each from its own snapshot, `tasks.py:849`). `Settles` is not
claimed with faults: a message lost after its row was saved leaves the run open
for ever, no code sweeps such runs; and a first engine message delivered twice
can set a finished run back to 'running'.

## 4. Proofs

Assumed are the types of the constants (`GraphAssumption`, `NodeAssumption`,
`ActorAssumption`, `TicketAssumption`, `DiagnosisAssumption`; `EditTypes`,
`ReportTypes`, `CoverTypes`, `ResourceType` of the two systems), that a value
standing for "none" is no member of the set beside it (`ExprNames`,
`EntryNames`, `TaskNames`, `CheckNames`, `SyncerNames`, `HandlersApart`,
`AlertNames`, `AccountNames`, `DocNames`, `RunNames`), that the application's
release is one of the cluster's (`AppNames`), that there are finitely many
deliveries, clauses, passwords and nodes of a graph (`DeliveriesFinite`,
`ClausesFinite`, `AccountNames`, `GraphBounds`), that the bounds of the
template model are numbers (`TemplateBounds`), that a database has ids for the
rows here and those of a backup (`RestoreBounds`), that the references of the
old fields of a context are no source's or section's (`ContextNames`), that
lists of the prompt have scores and lengths and no list is also counted as a
payload (`PromptTypes`), and that no clause is below itself (`ClausesOrdered`:
the code follows children without a bound). TLC evaluates each of them on the
instances it checks. Where a theorem holds on some graphs or without some
faults only, its hypothesis is a named definition (`OneAtATime`, `Calm`, `CloneLeads`) that instances of the runs satisfy.

`PipelineEngineProofs`:

* `TypeCorrect`: `Spec => []TypeOK`, one step per action.
* `Inductive`: `Spec => []IndInv`. Neither the order nor the verdict is
  inductive alone, because both are decided on copies. `IndInv` says what the
  copies may contain: every row, in the database or held by a worker, that says
  *passed* belongs to a node in `done` (`PassedRecorded`); messages and
  executions exist only for dispatched nodes, and an execution at work holds
  its row as 'running' (`OnlyBegun`); until a `git_clone` begins every graph
  held is the template and every node an engine is about to dispatch has passed
  upstream nodes (`OrderInv`); once any graph has been recorded the template's
  rows exist, so that a snapshot that is judged is complete, and one about to
  be finalized has no active row (`CreatedInv`). Each part has a lemma that
  every action keeps it.
* From it `OrderKept` (`DependencyOrder`) and `SuccessSound`
  (`SuccessMeansPassed`), for all graphs, pools, and numbers of stops, faults
  and doubled messages; and `CancelHolds` (`CancelSticks`), an action property
  proved from `TypeOK` and from `CancelledRead`: a task that read a cancelled
  run is an executor about to refuse its node, so that in a drained cancelled
  run only steps that change neither the run nor make a row active are enabled.
* `LineInductive`: on graphs where no node has two downstream nodes and every
  node is reached from the first (`Line`, under `OneAtATime`) the run is moved
  by one thing at a time: the engine's message, a node's message, a task, a
  waiting approval or its answer (`QueueAlone`, `TaskAlone`, `AnswerAlone`), and
  the rows that thing has read are the rows as they are (`EngineAt`, `NodeAt`).
  At most one node has its turn (`OneNext`), for a retry run because the walk
  that marks ancestors 'skipped' leaves the start node only (`RetryFront`).
  From it `OneExecution` (`SingleExecution`), also when tasks die and messages
  are lost; and without faults `VerdictHolds` (`VerdictIsFinal`) and
  `Refinement` (`ImplementsDagRun`): every step of the engine, an executor or
  an approver is a step of `DagRun` or changes nothing it speaks of.
* `YamlKept` (`YamlFollowed`): where every node waits for the `git_clone`
  (`CloneLeads`) the graph it puts in place is the one followed, also with
  faults and retries. A clone's row is replaced while another engine may hold
  the old graph; `YamlInv` excludes that: before anything is dispatched there is
  one engine (`FirstEngine`), until the clone has passed no other node is ready
  (`CloneWaits`), while it is queued or at work nothing else is (`CloneAlone`);
  so every engine holds the graph of the run (`GraphHeld`), which `Followed`
  turns into order and completeness.

`ApprovalTicketProofs`: `TypeCorrect`; `Inductive` for `IndInv == OneActive /\
Claims /\ SucceedsOnce`, where `Claims` ties each approver's program counter to
the row (a checked ticket is locked by its approver, a claimed one is
'approved' and claimed once, and its approver knows whether its request has
succeeded); from it `OneTicket`, `OneSuccess`, `NoTwoExecute`.

`DiagnosisRunProofs`: `TypeCorrect`; `MadeStays` (`SuccessStands`), from the
claim's first guard alone, under every fault; `CalmAlways` (`CalmInv`) and from
it `OneAtWork` (`SingleWork`) and `NotForgotten` (`WorkIsHeld`) when `Calm`
holds, the latter when no message is refused. Two tasks at work do not follow
from the claim's guards directly: the sweep resets a row, so the proof needs
that an overdue row is nobody's. `CalmInv` treats the right to make the
diagnosis as a token that is with a caller about to enqueue, in one message or
with one busy worker (`OneToken`), or, when the row is 'running' and nobody is
busy, waits for the sweep (`RunningInv`).

The other five modules prove properties of `DeliverySystem` and
`OperationsSystem` as `Delivery` and `Operations` check them. Each has an
invariant of one component, kept by every action of that component; since
`part` never changes (`PartStays`), it is one of the system.

`DeliveryProofs`:

* `BeatInStep` (`BeatFollows`) from `ScheduleInv`: as long as views have not
  overlapped one at most is at work, and what it knows at each step
  (`ViewKnows`) is what it still has to bring in step.
* `RevokedStaysOver` (`RevokedIsOver`) from `WireTrue`: an event 'revoked' on
  the wire is true, since Celery sends nothing after it.
* `HookHolds` (`HookSound`) from `HookInv`: no copy of the webhook, in whatever
  handler's hands, counts more than the deliveries that are past their save
  (`CountedPast`), hence neither does the row; as long as nothing crossed every
  copy is the row (`CopiesFresh`) and no run is left uncounted.
* `WorkHolds` (`WorkSound`) from `WorkInv`: a workspace belongs to the first run
  and its retries. Unless two writers have used it at once, one run that is not
  over works in it (`OneWorker`), its source is incomplete only while that run
  clones, and otherwise is a run's whose clone passed, the worker's own if it
  has cloned (`SourceWhole`). A retry also has a workspace by its own id, a copy
  nobody works in, which goes when the retry is over (`Copied`). What is built
  stays a run's own because nodes run in order (`NodesKnown`).

`AssetProofs`:

* `VersionsHold` (`VersionsSound`) from `VersionsInv`. That one version is
  current, although saves overlap and take the same number, rests on numbers
  without gaps: the mark is on the latest (`NumbersCounted`), a save that has a
  number has counted all below it, and one about to insert has unmarked them
  (`AheadOf`). That the next number is free of gaps needs the greatest number
  of a bounded set, which `Least` and `MaxFound` derive from the
  well-foundedness of `<`. What a save that is alone has done so far
  (`SaveDone`) gives the current version's graph and the beat entry.
* `PromotedStays` (`PromotedKept`) from `KeptInv`: neither the list a clean-up
  holds nor the row an edit holds can change a kept task.
* `GraphHolds` (`GraphFaithful`) from `GraphInv`, for every graph. "Reaches" is
  membership in every closed set, so no induction over paths is needed: a set
  closed in the graph before a bypass is closed after it, and one closed after
  it is closed before it once the bypassed node joins what leads there
  (`BypassReaches`). That a refused graph has a cycle follows from a node with
  the fewest predecessors, which `FirstFound` derives from the cardinality of a
  finite set; the same lemma gives the highest level of a layout.

`PlatformProofs`:

* `ChecksHold` (`ChecksSound`) from `CheckInv`: every copy of a baseline's row,
  in a check's or an editor's hands, names an execution of that baseline with
  its outcome (`RowsNamed`), and what a check knows at each step (`CheckSteps`).
  The third part, that a clause is judged by the baselines at its bottom, is a
  fact about the recursive `StatusAt` for every tree: that its levels exist is
  proved by a least level at which they would not, and the judgement by a
  clause of least rank judged wrongly, whose children are judged rightly.
* `HostsHold` (`HostsSound`) from `HostInv`: an id keeps its address also in an
  editor's copy (`IpsStay`), a host out of use is not about to be probed
  (`TakenRest`), and what a sync has been through is in the inventory or noted
  as touched (`Passed`).
* `ReleasesHold` (`ReleasesSound`) from `HelmInv`: a request no other deployment
  overtook finds the chart it deployed and keeps it under that chart's name
  (`HandlersKnow`); as long as nothing crossed a sync it is alone, its copy of
  the application has the setting last edited, and what it is about to save as
  'Synced' is deployed (`SyncAlone`); hence the row that says 'Synced' is true
  or known to be doubtful, and a sync about to upgrade finds no such row
  (`RowTrue`).

`AccessProofs`:

* `AccessHolds` (`AccessSound`): the rules agree in every state, which is a fact
  about the decision alone (`RulesHold`); memberships hold because requests
  that are alone on a membership know its row.
* `CacheFollows` (`PermissionsFollow`), which is inductive with the types. The
  work is in inheritance, which may have cycles: `Ancestors` is the least closed
  set, a change of a role that is not among a role's ancestors leaves them as
  they are (`AncestorsSame`), so the users the signals do not find keep their
  permissions (`Unaffected`); the others are in a refresh queue or excused
  (`DispatchKeeps`, `ChangeKeeps`).

* `AccountsHold` (`AccountsSound`) from `AccountInv`. Two accounts for one
  identity come from two first logins that both looked before either inserted;
  `FirstLogins` says what a login past its look may rely on: no account has its
  identity, or the column is unique, or the meeting is noted. `HeldOnce` is
  then kept by an insert, `TokensTrue` by a binding, which notes what it moved.

`OperationsProofs`:

* `TemplatesHold` (`TemplatesSound`) from `TemplateInv`: a request about to
  save takes the number after the one it read or keeps number and content
  (`EditorKnows`); hence, while nothing is torn, there is no row above the
  template's number and the row of that number has the template's content or is
  about to be inserted with it (`InOrder`); a replay no edit overtook is of the
  template as it is (`ReplaysFollow`); a caller about to count a failure has
  read less than the failures there were (`FailuresCounted`). `Numbered` keeps
  the numbers inside the model's table.
* `AlertsHold` (`AlertsSound`) from `AlertInv`. Both parts treat a right as a
  token. A debounce window is with the handler that won it, in the message it
  queued, with the task it became or spent in the run (`WindowsSpent`); an
  alert shown as executing has a run linked or about to be, or an answer under
  way, or a late write is noted (`ExecutingHeld`).
* `ConfigHolds` (`ConfigAgrees`) from `ConfigInv`: as long as no changes
  overlapped one writer is past its save (`OneWriter`); what a reader loaded is
  the value and a stale entry is one the writer is still to clear
  (`EntriesHeld`); the last message on a process's wire, or what it was told
  last, is the value, unless the writer is still to publish (`ProcessesTold`).
* `IndexHolds` (`IndexComplete`) from `IndexInv`: all tasks at a document that
  nothing has spoilt agree on its text, hence on the number of its chunks
  (`Agree`). A reindex may clear vectors while another task is between its
  vectors and its rows, so no order of steps of one task is enough: either some
  task is still to write the document's vectors and then its rows (`Rewrites`),
  or every row has its vector and every task about to write rows has its
  vectors in place (`HeldIn`).
* `RestoreHolds` (`RestoreSound`) from `RestoreInv`: rows that were here keep
  their ids and imported ones get ids nobody has (`RowsKept`), so the id map
  leads from an old id to the row of its asset (`MapTrue`). The references of
  the imported pipeline are copied first and mapped once at the end
  (`PipelineKnown`): until then they are the old ids, and an old id that is
  also an id here is never mapped a second time.

Only model-checked: all liveness (`Settles`, `CycleFails`, `TicketsEnd`,
`WorkEnds`, `StateFollows`), which is out of the prover's reach;
and `DeliveryTypeOK` and `OperationsTypeOK`, as far as they hold the bounds of
counters.

## 5. Behaviour worth knowing

Met while modelling, true of the code, and contradicted by no document, so no
run claims otherwise:

* A row deleted while a handler holds it is inserted again by the handler's
  full save (pipelines, hosts, members by PATCH).
* A restored pipeline that existed already can end with two current versions.
* `host_deploy` nodes fail on an unbound `TaskLog` after the deployment
  (`pipeline_management/tasks.py:401`, `:635`) and leave a temporary
  `AnsibleTask` behind.
* The `error_message` of a GitOps application is cleared by the last save of a
  sync, also when its upgrade failed; the status stays 'Error'.
* Charts are kept by name and version, so two builds of one version share a
  file.
* In `ai_engine`, `RAGService.summarize_pipeline_run` and `suggest_node_params` are called and
  do not exist.
* An asset sync overwrites a host's environment each time; one name clash
  aborts the rest of the sync. A host deleted during a check aborts the check.
* An alert of a baseline check stays 'executing' after its remediation.
* Two racing retries of a diagnosis can leave a pending row nobody sweeps.

## 6. Plan

Done: the modules of section 2 and the proofs of section 4. What would add most
from here:

1. A revoke by the task monitor of a finished engine task, composed with
   `PipelineEngine` instead of with an execution.
2. Retention clean-ups of diagnoses and alerts; the Ansible executions a
   pipeline stop closes.

## 7. Not modelled

See "components" in `PROJECT.json`. Credentials, status push, HTTP plumbing,
deployment and scripts are CRUD over rows, presentation or configuration; they
were read as far as the modelled parts call them: transaction settings, the
workers' acknowledgement mode and the beat's schedule come from `config/`.
Within modelled components the following is left out because it is I/O, text
or data conversion without shared state: calls to language models and their
answers' wording, Prometheus and log queries, terminal streams, websocket
pushes, serializers' representation, statistics, menus' tree, cloud provider
APIs, notifications and reports.
