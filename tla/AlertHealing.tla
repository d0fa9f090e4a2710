---------------------------- MODULE AlertHealing ----------------------------
(***************************************************************************)
(* Self-healing of the alerts of ONE fingerprint (apps/sre_management):    *)
(* webhooks store the alert and queue its analysis, the analysis proposes  *)
(* or starts a healing run, approval tickets and pipeline runs write their *)
(* state back into the alert.  The tasks save whole rows from copies read  *)
(* earlier, so every read that is used after another call is kept.         *)
(***************************************************************************)
EXTENDS Integers, FiniteSets

CONSTANTS
    Alert,         \* ids of the alert rows that may be created (a bound)
    Run,           \* ids of the pipeline runs that may be created (a bound)
    Ticket,        \* ids of the approval tickets that may be created (a bound)
    Handler,       \* HTTP handlers of AlertEventViewSet
    Worker,        \* Celery workers
    Kind,          \* which policy matches: a subset of {"none","manual","auto"}
    Gate,          \* approval policies: a subset of {"open","verified","closed"}
    BreakerLimit,  \* automatic rows that trip the breaker
    Budgets        \* bounds: how many webhooks, requests of users and faults

None == "none"

VARIABLES
    alert,         \* AlertEvent rows
    key,           \* alert_analysis_lock_<fingerprint> is in the cache
    policy,        \* the active healing policy and approval policy, ignored names
    handler,       \* per HTTP handler: where it is and what it has read
    worker,        \* per worker: its task, where it is, its copy of the row
    queue,         \* messages waiting, per task name and alert
    run,           \* PipelineRun status ("queued": 'pending', engine queued)
    ticket,        \* ApprovalTicket rows and where their replay is
    left,          \* what remains of the bounds
    windows,       \* history: analyses the debounce has let through
    autoRuns,      \* history: runs linked by trigger_self_healing
    overtaken      \* history: alerts whose healing state was written late

vars == <<alert, key, policy, handler, worker, queue, run, ticket, left,
          windows, autoRuns, overtaken>>

Healing == {"none", "analyzing", "suggested", "awaiting_approval",
            "executing", "success", "failed", "ignored"}
Ended   == {"success", "failed", "cancelled"}
Job     == {"boot", "analyze", "heal"}

NoRow   == [status |-> "absent", healing |-> "none", plan |-> FALSE,
            trigger |-> None, run |-> None]
AtRest  == [pc |-> "idle", alert |-> None, status |-> "firing",
            analyse |-> FALSE, healing |-> "none"]
Free    == [pc |-> "idle", alert |-> None, copy |-> NoRow, run |-> None]
NoTicket == [status |-> "absent", alert |-> None, verified |-> FALSE,
             run |-> None]

Rows == {a \in Alert : alert[a].status # "absent"}

Init ==
    /\ alert = [a \in Alert |-> NoRow]
    /\ key = FALSE
    /\ policy \in [kind : Kind, gate : Gate, ignored : BOOLEAN]
    /\ handler = [h \in Handler |-> AtRest]
    /\ worker = [w \in Worker |-> Free]
    /\ queue = [m \in Job \X Alert |-> 0]
    /\ run = [r \in Run |-> "absent"]
    /\ ticket = [t \in Ticket |-> NoTicket]
    /\ left \in Budgets
    /\ windows = 0 /\ autoRuns = 0 /\ overtaken = {}

Spend(what) == left[what] > 0 /\ left' = [left EXCEPT ![what] = @ - 1]

\* A message is queued, or the broker refuses it.
Post(name, a) ==
    /\ queue' = [queue EXCEPT ![<<name, a>>] = @ + 1]
    /\ UNCHANGED left
Refused == Spend("faults") /\ UNCHANGED queue

Heal(a, state) == alert' = [alert EXCEPT ![a].healing = state]

-----------------------------------------------------------------------------
(* AlertEventViewSet.receive, for one alert of a webhook.                  *)

\* The row of the fingerprint is looked up; whether to analyse is decided
\* from what it says now.
ReceiveRead(h, status) ==
    /\ handler[h].pc = "idle" /\ Spend("webhooks")
    /\ \E old \in IF Rows = {} THEN {NoRow} ELSE {alert[a] : a \in Rows} :
          handler' = [handler EXCEPT ![h] =
             [AtRest EXCEPT
                !.pc = "store", !.status = status,
                !.analyse = /\ status = "firing" /\ ~policy.ignored
                            /\ \/ old.status # "firing"
                               \/ old.healing \in {"none", "failed"}]]
    /\ UNCHANGED <<alert, key, policy, worker, queue, run, ticket, windows,
                   autoRuns, overtaken>>

\* update_or_create with the one row there is; with two it raises.
Stored(h, a) ==
    handler' = [handler EXCEPT
                  ![h] = IF @.analyse
                         THEN [@ EXCEPT !.pc = "debounce", !.alert = a]
                         ELSE AtRest]
ReceiveStore(h) ==
    /\ handler[h].pc = "store"
    /\ \/ Rows = {} /\ handler' = [handler EXCEPT ![h].pc = "create"]
          /\ UNCHANGED alert
       \/ \E a \in Rows :
             /\ Rows = {a} /\ Stored(h, a)
             /\ alert' = [alert EXCEPT
                            ![a].status = handler[h].status,
                            ![a].healing = IF policy.ignored THEN "ignored"
                                           ELSE @]
       \/ Cardinality(Rows) > 1 /\ handler' = [handler EXCEPT ![h] = AtRest]
          /\ UNCHANGED alert
    /\ UNCHANGED <<key, policy, worker, queue, run, ticket, left, windows,
                   autoRuns, overtaken>>

\* update_or_create when its lookup found nothing: no constraint refuses a
\* second row.  The new row's post_save queues analyze_alert_event_task; if
\* that is refused the handler ends with the error.
ReceiveCreate(h) ==
    /\ handler[h].pc = "create"
    /\ \E a \in Alert \ Rows :
          /\ \/ /\ Stored(h, a) /\ Post("boot", a)
                /\ alert' = [alert EXCEPT
                      ![a].status = handler[h].status,
                      ![a].healing = IF policy.ignored THEN "ignored" ELSE @]
             \/ /\ handler' = [handler EXCEPT ![h] = AtRest] /\ Refused
                /\ alert' = [alert EXCEPT ![a].status = handler[h].status]
    /\ UNCHANGED <<key, policy, worker, run, ticket, windows, autoRuns,
                   overtaken>>

\* cache.add lets one analysis through per 300 s; a failing cache lets all
\* through.
ReceiveDebounce(h) ==
    /\ handler[h].pc = "debounce"
    /\ \/ /\ key /\ handler' = [handler EXCEPT ![h] = AtRest]
          /\ UNCHANGED <<alert, key, left, windows>>
       \/ /\ \/ ~key /\ key' = TRUE /\ UNCHANGED left
             \/ Spend("faults") /\ UNCHANGED key
          /\ windows' = windows + 1
          /\ handler' = [handler EXCEPT ![h].pc = "queue"]
          /\ Heal(handler[h].alert, "analyzing")
    /\ UNCHANGED <<policy, worker, queue, run, ticket, autoRuns, overtaken>>

\* analyze_alert_event.delay; when it fails the alert is 'failed' and the key
\* stays.
ReceiveQueueLost(h) ==         \* variant: the failure is not recorded
    /\ handler[h].pc = "queue"
    /\ Post("analyze", handler[h].alert) \/ Refused
    /\ handler' = [handler EXCEPT ![h] = AtRest]
    /\ UNCHANGED <<alert, key, policy, worker, run, ticket, windows, autoRuns,
                   overtaken>>
ReceiveQueue(h) ==
    LET a == handler[h].alert
    IN  /\ handler[h].pc = "queue"
        /\ \/ Post("analyze", a) /\ UNCHANGED alert
           \/ Refused /\ Heal(a, "failed")
        /\ handler' = [handler EXCEPT ![h] = AtRest]
        /\ UNCHANGED <<key, policy, worker, run, ticket, windows, autoRuns,
                       overtaken>>

KeyExpires ==
    /\ key /\ key' = FALSE
    /\ UNCHANGED <<alert, policy, handler, worker, queue, run, ticket, left,
                   windows, autoRuns, overtaken>>

-----------------------------------------------------------------------------
(* Tasks: a worker takes a message; its copy of the row is saved whole.    *)

Take(w, name, a, next) ==
    /\ worker[w].pc = "idle" /\ queue[name, a] > 0
    /\ queue' = [queue EXCEPT ![<<name, a>>] = @ - 1]
    /\ worker' = [worker EXCEPT ![w] = next]

\* A save that takes back the run linked since the copy was read is noted.
Save(w, row) ==
    LET a == worker[w].alert
    IN  /\ alert' = [alert EXCEPT ![a] = row]
        /\ overtaken' = IF alert[a].run # row.run THEN overtaken \cup {a}
                        ELSE overtaken

\* analyze_alert_event_task reads alert.alert_content, which AlertEvent does
\* not have, and rolls the state back to 'none'.
BootBegin(w, a) ==
    /\ Take(w, "boot", a, [Free EXCEPT !.pc = "boot", !.alert = a])
    /\ Heal(a, "analyzing")
    /\ UNCHANGED <<key, policy, handler, run, ticket, left, windows, autoRuns,
                   overtaken>>
BootEnd(w) ==
    /\ worker[w].pc = "boot"
    /\ Heal(worker[w].alert, "none")
    /\ worker' = [worker EXCEPT ![w] = Free]
    /\ UNCHANGED <<key, policy, handler, queue, run, ticket, left, windows,
                   autoRuns, overtaken>>

\* analyze_alert_event reads the row and saves it as 'analyzing' ...
AnalyzeBegin(w, a) ==
    LET copy == [alert[a] EXCEPT !.healing = "analyzing"]
    IN  /\ Take(w, "analyze", a, [Free EXCEPT !.pc = "rag", !.alert = a,
                                              !.copy = copy])
        /\ alert' = [alert EXCEPT ![a] = copy]
        /\ UNCHANGED <<key, policy, handler, run, ticket, left, windows,
                       autoRuns, overtaken>>

\* ... the answer of the model and the policies give the proposal: the
\* policy's pipeline, a pipeline drafted by the model, or none ...
Proposals(copy) ==
    LET plan(by) == [copy EXCEPT !.healing = "suggested", !.plan = TRUE,
                                 !.trigger = by]
    IN  IF policy.kind # "none" THEN {plan(policy.kind)}
        ELSE {plan("manual"), [copy EXCEPT !.healing = "suggested"]}
AnalyzePropose(w) ==
    /\ worker[w].pc = "rag"
    /\ \E row \in Proposals(worker[w].copy) :
          /\ Save(w, row)
          /\ worker' = [worker EXCEPT
                ![w] = IF policy.kind = "auto" /\ row.status = "firing"
                       THEN [@ EXCEPT !.pc = "breaker", !.copy = row]
                       ELSE Free]
    /\ UNCHANGED <<key, policy, handler, queue, run, ticket, left, windows,
                   autoRuns>>

\* ... and an exception on the way ends in 'failed'.
AnalyzeFail(w) ==
    /\ worker[w].pc = "rag"
    /\ Save(w, [worker[w].copy EXCEPT !.healing = "failed"])
    /\ worker' = [worker EXCEPT ![w] = Free]
    /\ UNCHANGED <<key, policy, handler, queue, run, ticket, left, windows,
                   autoRuns>>

\* intercept_if_needed: an approval policy that applies gets a ticket, the
\* active one of the same request if there is one.
Blocked(verified) == policy.gate = "closed" \/ (policy.gate = "verified" /\ ~verified)
Intercept(a, verified) ==
    \/ /\ \E t \in Ticket : /\ ticket[t].status \in {"pending", "approved"}
                            /\ ticket[t].alert = a
                            /\ ticket[t].verified = verified
       /\ UNCHANGED ticket
    \/ /\ \A t \in Ticket : ~ /\ ticket[t].status \in {"pending", "approved"}
                              /\ ticket[t].alert = a
                              /\ ticket[t].verified = verified
       /\ \E t \in Ticket :
             /\ ticket[t].status = "absent"
             /\ ticket' = [ticket EXCEPT
                             ![t] = [NoTicket EXCEPT !.status = "pending",
                                                     !.alert = a,
                                                     !.verified = verified]]

\* The breaker counts the rows of the fingerprint marked 'auto', this one
\* included; below its limit the healing task is queued, else the alert waits
\* for an approval.
Automatic == {a \in Alert : alert[a].trigger = "auto"}
AnalyzeBreaker(w) ==
    LET a == worker[w].alert IN
    /\ worker[w].pc = "breaker"
    /\ \/ /\ Cardinality(Automatic) < BreakerLimit
          /\ worker' = [worker EXCEPT ![w] = Free]
          /\ \/ Post("heal", a) /\ UNCHANGED <<alert, overtaken>>
             \/ /\ Refused
                /\ Save(w, [worker[w].copy EXCEPT !.healing = "failed"])
          /\ UNCHANGED ticket
       \/ /\ Cardinality(Automatic) >= BreakerLimit
          /\ worker' = [worker EXCEPT ![w].pc = "await",
                                      ![w].copy.trigger = "manual"]
          /\ \/ Blocked(FALSE) /\ Intercept(a, FALSE) /\ UNCHANGED left
             \/ ~Blocked(FALSE) /\ UNCHANGED <<ticket, left>>
             \/ Spend("faults") /\ UNCHANGED ticket
          /\ UNCHANGED <<alert, queue, overtaken>>
    /\ UNCHANGED <<key, policy, handler, run, windows, autoRuns>>

\* The row is saved as 'awaiting_approval' after the ticket was made.
AwaitSave(w) ==
    /\ worker[w].pc = "await"
    /\ Save(w, [worker[w].copy EXCEPT !.healing = "awaiting_approval"])
    /\ worker' = [worker EXCEPT ![w] = Free]
    /\ UNCHANGED <<key, policy, handler, queue, run, ticket, left, windows,
                   autoRuns>>

-----------------------------------------------------------------------------
(* trigger_self_healing                                                    *)

\* Without a pipeline there is nothing to do; the interceptor lets the run
\* through, makes a ticket or fails.
HealBegin(w, a) ==
    LET held(at) == [Free EXCEPT !.pc = at, !.alert = a, !.copy = alert[a]]
    IN  /\ \/ /\ ~alert[a].plan /\ Take(w, "heal", a, Free)
              /\ UNCHANGED <<alert, ticket, left>>
           \/ /\ alert[a].plan /\ Blocked(TRUE) /\ Intercept(a, TRUE)
              /\ Take(w, "heal", a, held("await")) /\ UNCHANGED <<alert, left>>
           \/ /\ alert[a].plan /\ ~Blocked(TRUE)
              /\ Take(w, "heal", a, held("start"))
              /\ UNCHANGED <<alert, ticket, left>>
           \/ /\ alert[a].plan /\ Take(w, "heal", a, Free)
              /\ Heal(a, "failed") /\ Spend("faults") /\ UNCHANGED ticket
        /\ UNCHANGED <<key, policy, handler, run, windows, autoRuns, overtaken>>

\* The row is saved as 'executing' and a run is created ...
HealStart(w) ==
    /\ worker[w].pc = "start"
    /\ \E r \in Run :
          /\ run[r] = "absent"
          /\ run' = [run EXCEPT ![r] = "pending"]
          /\ worker' = [worker EXCEPT ![w].pc = "link", ![w].run = r]
    /\ Save(w, [worker[w].copy EXCEPT !.healing = "executing"])
    /\ UNCHANGED <<key, policy, handler, queue, ticket, left, windows,
                   autoRuns>>

\* A late write: the run it announces has ended.
Overtaken(a, r) ==
    overtaken' = IF r # None /\ run[r] \in Ended
                 THEN overtaken \cup {a} ELSE overtaken

\* ... linked to the alert ...
HealLink(w) ==
    LET a == worker[w].alert
    IN  /\ worker[w].pc = "link"
        /\ alert' = [alert EXCEPT ![a].run = worker[w].run,
                                  ![a].trigger = "auto",
                                  ![a].healing = "executing"]
        /\ worker' = [worker EXCEPT ![w].pc = "launch"]
        /\ autoRuns' = autoRuns + 1
        /\ Overtaken(a, worker[w].run)
        /\ UNCHANGED <<key, policy, handler, queue, run, ticket, left, windows>>

\* ... and its engine is queued; when that fails the alert is read again and
\* saved as 'failed', the run stays 'pending'.
Launch(r) == run' = [run EXCEPT ![r] = IF @ = "pending" THEN "queued" ELSE @]
HealLaunch(w) ==
    /\ worker[w].pc = "launch"
    /\ worker' = [worker EXCEPT ![w] = Free]
    /\ \/ Launch(worker[w].run) /\ UNCHANGED <<alert, left>>
       \/ Spend("faults") /\ Heal(worker[w].alert, "failed") /\ UNCHANGED run
    /\ UNCHANGED <<key, policy, handler, queue, ticket, windows, autoRuns,
                   overtaken>>

-----------------------------------------------------------------------------
(* Views of an alert.                                                      *)

\* trigger_healing: run and link are one transaction; the engine is queued
\* after it, and if that fails nobody takes the run back.
TriggerHealing(a) ==
    /\ alert[a].plan /\ left.views > 0
    /\ \E r \in Run, queued \in BOOLEAN :
          /\ run[r] = "absent"
          /\ queued \/ left.faults > 0
          /\ run' = [run EXCEPT ![r] = IF queued THEN "queued" ELSE "pending"]
          /\ alert' = [alert EXCEPT ![a].run = r, ![a].trigger = "manual",
                                    ![a].healing = "executing"]
          /\ left' = [left EXCEPT !.views = @ - 1,
                                  !.faults = @ - (IF queued THEN 0 ELSE 1)]
    /\ UNCHANGED <<key, policy, handler, worker, queue, ticket, windows,
                   autoRuns, overtaken>>

\* re_diagnose: the model explains the failed run, then the alert is
\* 'suggested' whatever happened to it meanwhile; a model error changes
\* nothing.
RediagnoseBegin(h, a) ==
    /\ handler[h].pc = "idle" /\ Spend("views")
    /\ alert[a].run # None /\ run[alert[a].run] = "failed"
    /\ handler' = [handler EXCEPT ![h] = [AtRest EXCEPT !.pc = "rediagnose",
                                                        !.alert = a]]
    /\ UNCHANGED <<alert, key, policy, worker, queue, run, ticket, windows,
                   autoRuns, overtaken>>
RediagnoseSave(h) ==
    /\ handler[h].pc = "rediagnose"
    /\ Heal(handler[h].alert, "suggested") \/ UNCHANGED alert
    /\ handler' = [handler EXCEPT ![h] = AtRest]
    /\ UNCHANGED <<key, policy, worker, queue, run, ticket, left, windows,
                   autoRuns, overtaken>>

\* bind_healing_pipeline reads the alert and writes its healing state back
\* together with the pipeline.
BindRead(h, a) ==
    /\ handler[h].pc = "idle" /\ a \in Rows /\ Spend("views")
    /\ handler' = [handler EXCEPT ![h] =
                     [AtRest EXCEPT !.pc = "bind", !.alert = a,
                                    !.healing = alert[a].healing]]
    /\ UNCHANGED <<alert, key, policy, worker, queue, run, ticket, windows,
                   autoRuns, overtaken>>
BindSave(h) ==
    LET a == handler[h].alert
        read == handler[h].healing
    IN  /\ handler[h].pc = "bind"
        /\ alert' = [alert EXCEPT
              ![a].plan = TRUE,
              ![a].healing = IF read = "none" THEN "suggested" ELSE read]
        /\ overtaken' = IF read \in {"analyzing", "executing"}
                           /\ alert[a].healing # read
                        THEN overtaken \cup {a} ELSE overtaken
        /\ handler' = [handler EXCEPT ![h] = AtRest]
        /\ UNCHANGED <<key, policy, worker, queue, run, ticket, left, windows,
                       autoRuns>>

-----------------------------------------------------------------------------
(* Approval tickets and their post_save receiver; pipeline runs and theirs. *)

\* approve saves 'approved', and the receiver marks the alert 'executing'.
Approve(t) ==
    /\ ticket[t].status \in {"pending", "failed"}
    /\ ticket' = [ticket EXCEPT ![t].status = "approved", ![t].run = None]
    /\ Heal(ticket[t].alert, "executing")
    /\ UNCHANGED <<key, policy, handler, worker, queue, run, left, windows,
                   autoRuns, overtaken>>

\* resume_execution replays PipelineViewSet.execute: a run with its engine
\* queued, or an error that ends the ticket as 'failed', which the receiver
\* ignores.
Replay(t) ==
    /\ ticket[t].status = "approved"
    /\ \/ \E r \in Run :
             /\ run[r] = "absent"
             /\ run' = [run EXCEPT ![r] = "queued"]
             /\ ticket' = [ticket EXCEPT ![t].status = "replayed",
                                         ![t].run = r]
       \/ /\ \/ UNCHANGED run
             \/ \E r \in Run : /\ run[r] = "absent"
                               /\ run' = [run EXCEPT ![r] = "pending"]
          /\ ticket' = [ticket EXCEPT ![t].status = "failed"]
    /\ UNCHANGED <<alert, key, policy, handler, worker, queue, left, windows,
                   autoRuns, overtaken>>

\* Then the run is linked to the alert, and the save of the finished ticket
\* makes the receiver mark the alert 'executing' once more.
LinkRun(t) ==
    /\ ticket[t].status = "replayed"
    /\ alert' = [alert EXCEPT ![ticket[t].alert].run = ticket[t].run]
    /\ ticket' = [ticket EXCEPT ![t].status = "linked"]
    /\ UNCHANGED <<key, policy, handler, worker, queue, run, left, windows,
                   autoRuns, overtaken>>
FinishTicket(t) ==
    /\ ticket[t].status = "linked"
    /\ ticket' = [ticket EXCEPT ![t].status = "finished"]
    /\ Heal(ticket[t].alert, "executing")
    /\ Overtaken(ticket[t].alert, alert[ticket[t].alert].run)
    /\ UNCHANGED <<key, policy, handler, worker, queue, run, left, windows,
                   autoRuns>>

RejectTicket(t) ==
    /\ ticket[t].status = "pending"
    /\ ticket' = [ticket EXCEPT ![t].status = "rejected"]
    /\ Heal(ticket[t].alert, "failed")
    /\ UNCHANGED <<key, policy, handler, worker, queue, run, left, windows,
                   autoRuns, overtaken>>

\* The sweep of expired tickets is a batch update: no receiver runs.
ExpireTicketMisspelt(t) ==     \* variant: the spelling pipeline runs use
    /\ ticket[t].status = "pending"
    /\ ticket' = [ticket EXCEPT ![t].status = "cancelled"]
    /\ UNCHANGED <<alert, key, policy, handler, worker, queue, run, left,
                   windows, autoRuns, overtaken>>
ExpireTicket(t) ==
    /\ ticket[t].status = "pending"
    /\ ticket' = [ticket EXCEPT ![t].status = "canceled"]
    /\ UNCHANGED <<alert, key, policy, handler, worker, queue, run, left,
                   windows, autoRuns, overtaken>>

\* sync_pipeline_status_to_alert, at each save of a run.
SyncState(status) ==
    CASE status = "success" -> "success"
      [] status \in {"failed", "cancelled"} -> "failed"
      [] OTHER -> "executing"
SyncSuccessOnly(r, status) ==  \* variant: failures are not mirrored
    /\ run' = [run EXCEPT ![r] = status]
    /\ alert' = [a \in Alert |->
                   IF alert[a].run = r /\ status \notin {"failed", "cancelled"}
                   THEN [alert[a] EXCEPT !.healing = SyncState(status)]
                   ELSE alert[a]]
    /\ UNCHANGED <<key, policy, handler, worker, queue, ticket, left, windows,
                   autoRuns, overtaken>>
SaveRun(r, status) ==
    /\ run' = [run EXCEPT ![r] = status]
    /\ alert' = [a \in Alert |->
                   IF alert[a].run = r
                   THEN [alert[a] EXCEPT !.healing = SyncState(status)]
                   ELSE alert[a]]
    /\ UNCHANGED <<key, policy, handler, worker, queue, ticket, left, windows,
                   autoRuns, overtaken>>

\* The pipeline engine (PipelineEngine.tla), as far as the alert sees it.
RunBegin(r) == run[r] = "queued" /\ SaveRun(r, "running")
RunEnd(r, status) == run[r] = "running" /\ SaveRun(r, status)
RunStop(r) == run[r] \in {"pending", "queued", "running"} /\ SaveRun(r, "cancelled")

-----------------------------------------------------------------------------

HandlerStep(h) ==
    \/ ReceiveStore(h) \/ ReceiveCreate(h) \/ ReceiveDebounce(h)
    \/ ReceiveQueue(h) \/ RediagnoseSave(h) \/ BindSave(h)

TaskStep(w) ==
    \/ BootEnd(w) \/ AnalyzePropose(w) \/ AnalyzeFail(w) \/ AnalyzeBreaker(w)
    \/ AwaitSave(w) \/ HealStart(w) \/ HealLink(w) \/ HealLaunch(w)
    \/ \E a \in Alert : BootBegin(w, a) \/ AnalyzeBegin(w, a) \/ HealBegin(w, a)

TicketStep(t) == Replay(t) \/ LinkRun(t) \/ FinishTicket(t)

RunStep(r) ==
    RunBegin(r) \/ \E status \in {"success", "failed"} : RunEnd(r, status)

Next ==
    \/ \E h \in Handler :
          \/ HandlerStep(h)
          \/ \E status \in {"firing", "resolved"} : ReceiveRead(h, status)
          \/ \E a \in Alert : RediagnoseBegin(h, a) \/ BindRead(h, a)
    \/ \E w \in Worker : TaskStep(w)
    \/ \E a \in Alert : TriggerHealing(a)
    \/ \E t \in Ticket :
          TicketStep(t) \/ Approve(t) \/ RejectTicket(t) \/ ExpireTicket(t)
    \/ \E r \in Run : RunStep(r) \/ RunStop(r)
    \/ KeyExpires

Spec == Init /\ [][Next]_vars

\* What has begun goes on: handlers, tasks, the replay of an approved ticket
\* and the runs.  Nobody owes an approval, a webhook or a stop.
Fairness ==
    /\ \A h \in Handler : WF_vars(HandlerStep(h))
    /\ \A w \in Worker : WF_vars(TaskStep(w))
    /\ \A t \in Ticket : WF_vars(TicketStep(t))
    /\ \A r \in Run : WF_vars(RunStep(r))

FairSpec == Spec /\ Fairness

-----------------------------------------------------------------------------
(* Properties.                                                             *)

AlertRow == [status : {"absent", "firing", "resolved"}, healing : Healing,
             plan : BOOLEAN, trigger : {None, "manual", "auto"},
             run : Run \cup {None}]
Held     == [pc : {"idle", "boot", "rag", "breaker", "await", "start", "link",
                   "launch"},
             alert : Alert \cup {None}, copy : AlertRow,
             run : Run \cup {None}]
Request  == [pc : {"idle", "store", "create", "debounce", "queue",
                   "rediagnose", "bind"},
             alert : Alert \cup {None}, status : {"firing", "resolved"},
             analyse : BOOLEAN, healing : Healing]
TicketRow == [status : {"absent", "pending", "approved", "replayed", "linked",
                        "finished", "failed", "rejected", "canceled"},
              alert : Alert \cup {None}, verified : BOOLEAN,
              run : Run \cup {None}]

AlertTypeOK ==
    /\ alert \in [Alert -> AlertRow]
    /\ key \in BOOLEAN
    /\ policy \in [kind : Kind, gate : Gate, ignored : BOOLEAN]
    /\ handler \in [Handler -> Request]
    /\ worker \in [Worker -> Held]
    /\ queue \in [Job \X Alert -> Nat]
    /\ run \in [Run -> Ended \cup {"absent", "pending", "queued", "running"}]
    /\ ticket \in [Ticket -> TicketRow]
    /\ windows \in Nat /\ autoRuns \in Nat /\ overtaken \subseteq Alert

\* Each automatic run needs a debounce window of its own, whatever webhooks,
\* analyses and tasks overlap.  Code: cache.add in receive, one analysis per
\* key, one trigger_self_healing.delay per analysis.
OneRunPerWindow == autoRuns <= windows

Writing(a) == \E w \in Worker :
                 worker[w].alert = a /\ worker[w].pc \in {"link", "launch", "start"}
Answering(a) == \E t \in Ticket :
                 ticket[t].alert = a
                 /\ ticket[t].status \in {"approved", "replayed", "linked", "failed"}

\* An alert shown as 'executing' has a run that has not ended, or a task or a
\* replay at work on it, but for the late writes that overtaken names.
ExecutingIsLive ==
    \A a \in Alert :
        alert[a].healing = "executing" =>
            \/ a \in overtaken
            \/ Writing(a) \/ Answering(a)
            \/ alert[a].run # None /\ run[alert[a].run] \notin Ended

\* No analysis is announced for ever: each 'analyzing' is followed by a
\* proposal or a failure, also when the queue refuses the task, unless a bind
\* wrote back an 'analyzing' it had read before.
AnalysisEnds ==
    \A a \in Alert :
        [](alert[a].healing = "analyzing"
           => <>(alert[a].healing # "analyzing" \/ a \in overtaken))

\* Nor is a healing, unless a late write hid its end, the replay of its ticket
\* failed, or its run was committed but never queued.
Forsaken(a) ==
    \/ \E t \in Ticket : ticket[t].alert = a /\ ticket[t].status = "failed"
    \/ alert[a].run # None /\ run[alert[a].run] = "pending"
HealingEnds ==
    \A a \in Alert :
        [](alert[a].healing = "executing"
           => <>(\/ alert[a].healing # "executing"
                \/ a \in overtaken \/ Forsaken(a)))

\* The breaker bounds the automatic runs of a fingerprint within its hour.
BreakerHolds == autoRuns <= BreakerLimit
=============================================================================
