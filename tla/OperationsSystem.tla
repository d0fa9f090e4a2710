-------------------------- MODULE OperationsSystem --------------------------
(***************************************************************************)
(* The components of operations and administration, side by side in the    *)
(* way of DeliverySystem: part names the component of a behaviour, the     *)
(* variables of the others are Off.                                        *)
(***************************************************************************)
EXTENDS Integers, Sequences, FiniteSets

CONSTANTS
    Handler, Worker, Editor,                             \* of several
    Alert, Run, Ticket, AlertKind, Gate, BreakerLimit,   \* AlertHealing
    Budgets,
    Text, Result, Caller, AiLimit, Changes, AiFaults,    \* DiagnosisTemplates
    TemplateBudgets,
    MetricSource, LogSource, Section, MetricName,        \* DiagnosisContext
    MaxItems, MaxLines,
    PoolSize, Attempts,
    Trimmed, Untrimmed, Ranked, Raw, Room, MaxChars,     \* DiagnosisPrompt
    Contexts, Lengths,
    Doc, Messages, KbEdits, KbFaults,                    \* KnowledgeBase
    Key, MaxId, RestoreFaults,                           \* BackupRestore
    Item, Category, ConfigKey, System,                   \* ConfigCenter
    Reader, Writer, Process, Value, ConfigChanges, ConfigFaults,
    User, RbacRole, RoleRequest, Refresher,              \* PermissionCache
    RoleChanges, CacheFaults,
    Provider, Identity, Unique, Base(_, _), Password,    \* Accounts
    Session, MaxUsers, AccountBudgets,
    Person, SuperUser, Project, MemberId, Asset, Home,   \* ProjectAccess
    Creator, Resource, Granted, Scope, AccessBudget

VARIABLES
    part,
    alert, key, policy, handler, worker, alertQueue, run, ticket, alertsLeft,
    windows, autoRuns, overtaken,
    template, versions, editor, result, messages, caller, count, open, failed,
    torn, changesLeft, aiFaultsLeft,
    phase, source, lines, first, collector, data, target, warned, evidence,
    timeline, report, attempt,
    given, rest, todo, form, shown, counts, summary,
    doc, rows, vec, ownHome, job, indexQueue, doomed, kb, spoilt, deleted,
    indexMessages, kbEdits, kbFaults,
    backup, db, saved, sharing, sharingHere, idMap, shareMap, restoreTodo,
    mapped, errors, unresolved, file, restorePhase, restoreFaults,
    item, categories, logged, cache, reader, writer, wire, listening, level,
    stranded, marred, configLeft, configFaultsLeft,
    roles, parents, holds, active, cached, request, untold, queued,
    refresher, excused, roleChangesLeft, cacheFaultsLeft,
    user, session, cookie, access, overlapped, accountsLeft,
    owner, member, shares, accessHandler, removed, crossed, strayed,
    accessBudget

Alerts == INSTANCE AlertHealing WITH Kind <- AlertKind, queue <- alertQueue,
       left <- alertsLeft
Templates == INSTANCE DiagnosisTemplates
Context == INSTANCE DiagnosisContext
Prompt == INSTANCE DiagnosisPrompt
Knowledge == INSTANCE KnowledgeBase WITH queue <- indexQueue,
       messages <- indexMessages
Restore == INSTANCE BackupRestore WITH todo <- restoreTodo,
       phase <- restorePhase
Config == INSTANCE ConfigCenter WITH Changes <- ConfigChanges, Key <- ConfigKey,
       row <- item, changesLeft <- configLeft
Rbac == INSTANCE PermissionCache WITH Role <- RbacRole, Request <- RoleRequest
Login == INSTANCE Accounts WITH left <- accountsLeft
Access == INSTANCE ProjectAccess WITH User <- Person, handler <- accessHandler

\* "none" stands for no run; the policies have one of three kinds.
ASSUME AlertNames ==
    /\ Alerts!None \notin Run
    /\ AlertKind \subseteq {"none", "manual", "auto"}

\* How many changes a behaviour makes at most, and its faults; the limit of
\* the breaker is a count.
ASSUME TemplateBounds ==
    /\ Changes \in Nat /\ AiLimit \in Nat
    /\ TemplateBudgets \subseteq (0..Changes) \X Nat

\* The providers the views know; "none" is no identity and no provider, and the
\* accounts with a password are finitely many.
ASSUME AccountNames ==
    /\ {"github", "wechat", "ldap"} \subseteq Provider
    /\ Unique \subseteq Provider
    /\ Login!NoIdentity \notin Identity \cup Provider
    /\ IsFiniteSet(Password)

\* A queued message is a document or "all"; "none" is no document.
ASSUME DocNames == {Knowledge!None, "all"} \cap Doc = {}

\* The ids there are hold the two rows here and two of a backup; "none" is no
\* asset's key.
ASSUME RestoreBounds ==
    /\ MaxId \in Nat /\ MaxId >= 4
    /\ Restore!NoAsset \notin Key

\* The references of the old fields are no source's and no section's, and the
\* lists are bounded.
ASSUME ContextNames ==
    /\ {"LOG", "METRIC"} \cap (Context!Source \cup Section) = {}
    /\ Context!Source \cap Section = {}
    /\ MaxItems \in Nat
    /\ MaxLines \in [Context!Source -> Nat]

\* A key counts the items of a list or payloads, not both; scores and lengths
\* are numbers.
ASSUME PromptTypes ==
    /\ Trimmed \in Seq(STRING) /\ Untrimmed \in Seq(STRING)
    /\ Raw \in Seq(STRING) /\ Prompt!Lists \cap Prompt!Bare = {}
    /\ \A c \in Contexts : \A l \in Prompt!Lists \cup Prompt!Bare :
          c[l] \in Seq([score : Nat, length : Nat])
    /\ \A l \in Prompt!Lists : Room[l] \in Nat
    /\ MaxChars \in Nat
    /\ \A r \in Lengths : \A f \in Prompt!Forms : r[f] \in Nat

\* The code of a resource is a list of strings.
ASSUME ResourceType == Resource \in Seq(STRING)

alertVars == <<alert, key, policy, handler, worker, alertQueue, run, ticket,
               alertsLeft, windows, autoRuns, overtaken>>
templateVars == <<template, versions, editor, result, messages, caller, count,
                  open, failed, torn, changesLeft, aiFaultsLeft>>
contextVars == <<phase, source, lines, first, collector, data, target, warned,
                 evidence, timeline, report, attempt>>
promptVars == <<given, rest, todo, form, shown, counts, summary>>
knowledgeVars == <<doc, rows, vec, ownHome, job, indexQueue, doomed, kb,
                   spoilt, deleted, indexMessages, kbEdits, kbFaults>>
restoreVars == <<backup, db, saved, sharing, sharingHere, idMap, shareMap,
                 restoreTodo, mapped, errors, unresolved, file, restorePhase,
                 restoreFaults>>
configVars == <<item, categories, logged, cache, reader, writer, wire,
                listening, level, stranded, marred, configLeft,
                configFaultsLeft>>
rbacVars == <<roles, parents, holds, active, cached, request, untold, queued,
              refresher, excused, roleChangesLeft, cacheFaultsLeft>>
accountVars == <<user, session, cookie, access, overlapped, accountsLeft>>
accessVars == <<owner, member, shares, accessHandler, removed, crossed,
                strayed, accessBudget>>

vars == <<part, alertVars, templateVars, contextVars, promptVars,
          knowledgeVars, restoreVars, configVars, rbacVars, accountVars,
          accessVars>>

-----------------------------------------------------------------------------
Off == 0
AlertsOff ==
    /\ alert = Off /\ key = Off /\ policy = Off /\ handler = Off
    /\ worker = Off /\ alertQueue = Off /\ run = Off /\ ticket = Off
    /\ alertsLeft = Off /\ windows = Off /\ autoRuns = Off /\ overtaken = Off
TemplatesOff ==
    /\ template = Off /\ versions = Off /\ editor = Off /\ result = Off
    /\ messages = Off /\ caller = Off /\ count = Off /\ open = Off
    /\ failed = Off /\ torn = Off /\ changesLeft = Off /\ aiFaultsLeft = Off
ContextOff ==
    /\ phase = Off /\ source = Off /\ lines = Off /\ first = Off
    /\ collector = Off /\ data = Off /\ target = Off /\ warned = Off
    /\ evidence = Off /\ timeline = Off /\ report = Off /\ attempt = Off
PromptOff ==
    /\ given = Off /\ rest = Off /\ todo = Off /\ form = Off /\ shown = Off
    /\ counts = Off /\ summary = Off
KnowledgeOff ==
    /\ doc = Off /\ rows = Off /\ vec = Off /\ ownHome = Off /\ job = Off
    /\ indexQueue = Off /\ doomed = Off /\ kb = Off /\ spoilt = Off
    /\ deleted = Off /\ indexMessages = Off /\ kbEdits = Off /\ kbFaults = Off
RestoreOff ==
    /\ backup = Off /\ db = Off /\ saved = Off /\ sharing = Off
    /\ sharingHere = Off /\ idMap = Off /\ shareMap = Off
    /\ restoreTodo = Off /\ mapped = Off /\ errors = Off /\ unresolved = Off
    /\ file = Off /\ restorePhase = Off /\ restoreFaults = Off
ConfigOff ==
    /\ item = Off /\ categories = Off /\ logged = Off /\ cache = Off
    /\ reader = Off /\ writer = Off /\ wire = Off /\ listening = Off
    /\ level = Off /\ stranded = Off /\ marred = Off /\ configLeft = Off
    /\ configFaultsLeft = Off
RbacOff ==
    /\ roles = Off /\ parents = Off /\ holds = Off /\ active = Off
    /\ cached = Off /\ request = Off /\ untold = Off /\ queued = Off
    /\ refresher = Off /\ excused = Off /\ roleChangesLeft = Off
    /\ cacheFaultsLeft = Off
LoginOff ==
    /\ user = Off /\ session = Off /\ cookie = Off /\ access = Off
    /\ overlapped = Off /\ accountsLeft = Off
AccessOff ==
    /\ owner = Off /\ member = Off /\ shares = Off /\ accessHandler = Off
    /\ removed = Off /\ crossed = Off /\ strayed = Off
    /\ accessBudget = Off

Init ==
    /\ part \in {"alerts", "templates", "context", "prompt", "knowledge",
                "restore", "config", "rbac", "accounts", "access"}
    /\ IF part = "alerts" THEN Alerts!Init ELSE AlertsOff
    /\ IF part = "templates" THEN Templates!Init ELSE TemplatesOff
    /\ IF part = "context" THEN Context!Init ELSE ContextOff
    /\ IF part = "prompt" THEN Prompt!Init ELSE PromptOff
    /\ IF part = "knowledge" THEN Knowledge!Init ELSE KnowledgeOff
    /\ IF part = "restore" THEN Restore!Init ELSE RestoreOff
    /\ IF part = "config" THEN Config!Init ELSE ConfigOff
    /\ IF part = "rbac" THEN Rbac!Init ELSE RbacOff
    /\ IF part = "accounts" THEN Login!Init ELSE LoginOff
    /\ IF part = "access" THEN Access!Init ELSE AccessOff

Next ==
    /\ UNCHANGED part
    /\ IF part = "alerts" THEN Alerts!Next ELSE UNCHANGED alertVars
    /\ IF part = "templates" THEN Templates!Next ELSE UNCHANGED templateVars
    /\ IF part = "context" THEN Context!Next ELSE UNCHANGED contextVars
    /\ IF part = "prompt" THEN Prompt!Next ELSE UNCHANGED promptVars
    /\ IF part = "knowledge" THEN Knowledge!Next ELSE UNCHANGED knowledgeVars
    /\ IF part = "restore" THEN Restore!Next ELSE UNCHANGED restoreVars
    /\ IF part = "config" THEN Config!Next ELSE UNCHANGED configVars
    /\ IF part = "rbac" THEN Rbac!Next ELSE UNCHANGED rbacVars
    /\ IF part = "accounts" THEN Login!Next ELSE UNCHANGED accountVars
    /\ IF part = "access" THEN Access!Next ELSE UNCHANGED accessVars

Spec == Init /\ [][Next]_vars

-----------------------------------------------------------------------------
\* Every component keeps its types.
OperationsTypeOK ==
    /\ part = "alerts" => Alerts!AlertTypeOK
    /\ part = "templates" => Templates!TemplateTypeOK
    /\ part = "context" => Context!ContextTypeOK
    /\ part = "prompt" => Prompt!PromptTypeOK
    /\ part = "knowledge" => Knowledge!KbTypeOK
    /\ part = "restore" => Restore!RestoreTypeOK
    /\ part = "config" => Config!ConfigTypeOK
    /\ part = "rbac" => Rbac!RbacTypeOK
    /\ part = "accounts" => Login!AccountTypeOK
    /\ part = "access" => Access!AccessTypeOK

\* Each of the following properties is that of the component; the comments
\* there name the exceptions.

\* Each automatic run has a debounce window of its own, and an alert shown as
\* 'executing' has something that will end it.  Code: receive, the tasks and
\* signals of sre_management.
AlertsSound ==
    part = "alerts" => Alerts!OneRunPerWindow /\ Alerts!ExecutingIsLive

\* The number of a diagnosis template names its content, and the breaker of
\* the AI calls opens on real failures only.  Code: DiagnosisTemplateViewSet,
\* run_diagnosis_template_replay.
TemplatesSound ==
    part = "templates" => Templates!NumbersName /\ Templates!OpensOnFailures

\* Evidence references resolve whatever failed, and the prompt and its counts
\* are true after all cuts.  Code: run_timepoint_diagnosis, diagnosis_prompt.
EvidenceSound ==
    /\ part = "context" => Context!ContextSound
    /\ part = "prompt"  => Prompt!PromptSound

\* Every chunk of a ready document has its vector.  Code: ai_engine/tasks.py.
IndexComplete == part = "knowledge" => Knowledge!IndexComplete

\* References lead to the rows restored, or are reported.  Code: backup.py.
RestoreSound == part = "restore" => Restore!RestoreSound

\* Redis and the subscribers agree with the item.  Code: config_manager.py.
ConfigAgrees == part = "config" => Config!ConfigAgrees

\* Cached permissions are those the roles give.  Code: the signals and tasks
\* of rbac_permission.
PermissionsFollow == part = "rbac" => Rbac!PermissionsFollow

\* An identity has one account, and its tokens are for that account.  Code:
\* auth/views.py.
AccountsSound == part = "accounts" => Login!AccountsSound

\* Removed members stay out, and the rules of access agree.  Code:
\* rbac_permission/views.py, project_middleware.py.
AccessSound == part = "access" => Access!AccessSound

=============================================================================
