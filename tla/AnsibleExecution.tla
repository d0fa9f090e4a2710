-------------------------- MODULE AnsibleExecution --------------------------
(***************************************************************************)
(* Executions of Ansible templates (apps/task_management) and what the     *)
(* task monitor's revoke does to them (apps/task_pulse/views.py).  The     *)
(* launching view, the Celery task, terminate, revoke and batch_delete     *)
(* write the same AnsibleExecution row, each from its own copy.            *)
(***************************************************************************)
EXTENDS Integers, FiniteSets

CONSTANTS
    Exec,        \* ids of the executions that may be created (a bound)
    MaxFaults    \* bound: refused messages, killed workers

VARIABLES
    row,         \* AnsibleExecution: status, is celery_task_id recorded
    launch,      \* the handler that created the execution
    task,        \* its Celery task
    terminate,   \* the handler of terminate, and what it has read
    faultsLeft,
    late,        \* history: launchers that saved after their task had begun
    forsaken     \* history: executions whose task was refused or killed alone

vars == <<row, launch, task, terminate, faultsLeft, late, forsaken>>

Final  == {"success", "failed", "cancelled"}
Absent == [status |-> "absent", known |-> FALSE]
Asleep == [pc |-> "idle", known |-> FALSE]

Init ==
    /\ row = [e \in Exec |-> Absent]
    /\ launch = [e \in Exec |-> "none"]
    /\ task = [e \in Exec |-> "none"]
    /\ terminate = [e \in Exec |-> Asleep]
    /\ faultsLeft = MaxFaults
    /\ late = {} /\ forsaken = {}

\* save() of a whole row: an UPDATE, or an INSERT if the row was deleted.
Save(e, status, known) ==
    row' = [row EXCEPT ![e] = [status |-> status, known |-> known]]

-----------------------------------------------------------------------------
(* AnsibleTaskViewSet.run, perform_create with run_now, trigger of a       *)
(* schedule and run_ansible_schedule launch an execution the same way.     *)

LaunchCreate(e) ==
    /\ launch[e] = "none"
    /\ Save(e, "pending", FALSE)
    /\ launch' = [launch EXCEPT ![e] = "created"]
    /\ UNCHANGED <<task, terminate, faultsLeft, late, forsaken>>

\* run_ansible_task.delay; when the broker refuses it the view fails and the
\* row stays 'pending'.
LaunchQueue(e) ==
    /\ launch[e] = "created"
    /\ \/ /\ task' = [task EXCEPT ![e] = "queued"]
          /\ launch' = [launch EXCEPT ![e] = "queued"]
          /\ UNCHANGED <<faultsLeft, forsaken>>
       \/ /\ faultsLeft > 0 /\ faultsLeft' = faultsLeft - 1
          /\ launch' = [launch EXCEPT ![e] = "done"]
          /\ forsaken' = forsaken \cup {e}
          /\ UNCHANGED task
    /\ UNCHANGED <<row, terminate, late>>

\* The task's id is recorded by saving the whole copy made before delay.
LaunchSave(e) ==
    /\ launch[e] = "queued"
    /\ Save(e, "pending", TRUE)
    /\ launch' = [launch EXCEPT ![e] = "done"]
    /\ late' = IF row[e].status = "pending" THEN late ELSE late \cup {e}
    /\ UNCHANGED <<task, terminate, faultsLeft, forsaken>>

-----------------------------------------------------------------------------
(* run_ansible_task                                                        *)

\* The row is read and saved as 'running'; a deleted one ends the task.
TaskBegin(e) ==
    /\ task[e] = "queued"
    /\ \/ /\ row[e].status # "absent" /\ Save(e, "running", TRUE)
          /\ task' = [task EXCEPT ![e] = "preparing"]
       \/ /\ row[e].status = "absent" /\ UNCHANGED row
          /\ task' = [task EXCEPT ![e] = "ended"]
    /\ UNCHANGED <<launch, terminate, faultsLeft, late, forsaken>>

\* Inventory, keys, variables and playbook are written; any error ends the
\* execution as 'failed'.
TaskPrepare(e) ==
    /\ task[e] = "preparing"
    /\ \/ /\ task' = [task EXCEPT ![e] = "running"] /\ UNCHANGED row
       \/ /\ task' = [task EXCEPT ![e] = "ended"] /\ Save(e, "failed", TRUE)
    /\ UNCHANGED <<launch, terminate, faultsLeft, late, forsaken>>

\* ansible_runner returns, or its timeout ends it: the copy read at the start
\* is saved with the outcome, whatever the row says now.
TaskEnd(e, outcome) ==
    /\ task[e] = "running"
    /\ task' = [task EXCEPT ![e] = "ended"]
    /\ Save(e, outcome, TRUE)
    /\ UNCHANGED <<launch, terminate, faultsLeft, late, forsaken>>

Alive(e) == task[e] \in {"queued", "preparing", "running"}

\* The worker's process is lost with its task.
TaskDies(e) ==
    /\ Alive(e) /\ faultsLeft > 0 /\ faultsLeft' = faultsLeft - 1
    /\ task' = [task EXCEPT ![e] = "killed"]
    /\ forsaken' = forsaken \cup {e}
    /\ UNCHANGED <<row, launch, terminate, late>>

-----------------------------------------------------------------------------
(* AnsibleExecutionViewSet.terminate and batch_delete, TaskPulse's revoke. *)

TerminateRead(e) ==
    /\ terminate[e].pc = "idle" /\ row[e].status \in {"pending", "running"}
    /\ terminate' = [terminate EXCEPT
                       ![e] = [pc |-> "checked", known |-> row[e].known]]
    /\ UNCHANGED <<row, launch, task, faultsLeft, late, forsaken>>

\* A task whose id was recorded when the row was read is revoked: it is
\* killed, unless it ends before the signal comes.
TerminateRevoke(e) ==
    /\ terminate[e].pc = "checked"
    /\ terminate' = [terminate EXCEPT ![e].pc = "revoked"]
    /\ \/ /\ terminate[e].known /\ Alive(e)
          /\ task' = [task EXCEPT ![e] = "killed"]
       \/ UNCHANGED task
    /\ UNCHANGED <<row, launch, faultsLeft, late, forsaken>>

TerminateSaveNothing(e) ==     \* variant: the row is left to the killed task
    /\ terminate[e].pc = "revoked"
    /\ terminate' = [terminate EXCEPT ![e] = Asleep]
    /\ UNCHANGED <<row, launch, task, faultsLeft, late, forsaken>>
TerminateSave(e) ==
    /\ terminate[e].pc = "revoked"
    /\ Save(e, "failed", terminate[e].known)
    /\ terminate' = [terminate EXCEPT ![e] = Asleep]
    /\ UNCHANGED <<launch, task, faultsLeft, late, forsaken>>

\* TaskPulseViewSet.revoke finds the execution by the recorded id; the state
\* 'cancelled' is not one of AnsibleExecution.STATUS_CHOICES.
PulseRevoke(e) ==
    /\ task[e] \notin {"none"}
    /\ \/ Alive(e) /\ task' = [task EXCEPT ![e] = "killed"]
       \/ UNCHANGED task
    /\ row' = [row EXCEPT ![e].status =
                 IF row[e].known /\ @ # "absent" THEN "cancelled" ELSE @]
    /\ forsaken' = IF row[e].known THEN forsaken ELSE forsaken \cup {e}
    /\ UNCHANGED <<launch, terminate, faultsLeft, late>>

\* batch_delete does not ask whether the execution has ended.
BatchDelete(E) ==
    /\ \A e \in E : row[e].status # "absent"
    /\ row' = [e \in Exec |-> IF e \in E THEN Absent ELSE row[e]]
    /\ UNCHANGED <<launch, task, terminate, faultsLeft, late, forsaken>>

-----------------------------------------------------------------------------

LaunchStep(e) == LaunchQueue(e) \/ LaunchSave(e)
TaskStep(e) ==
    \/ TaskBegin(e) \/ TaskPrepare(e)
    \/ \E outcome \in {"success", "failed"} : TaskEnd(e, outcome)
TerminateStep(e) == TerminateRevoke(e) \/ TerminateSave(e)

Next ==
    \/ \E e \in Exec :
          \/ LaunchCreate(e) \/ LaunchStep(e) \/ TaskStep(e) \/ TaskDies(e)
          \/ TerminateRead(e) \/ TerminateStep(e) \/ PulseRevoke(e)
    \/ \E E \in (SUBSET Exec) \ {{}} : BatchDelete(E)

Spec == Init /\ [][Next]_vars

\* Handlers and tasks that have begun go on; the queue is served.
Fairness ==
    \A e \in Exec : /\ WF_vars(LaunchStep(e)) /\ WF_vars(TaskStep(e))
                    /\ WF_vars(TerminateStep(e))

FairSpec == Spec /\ Fairness

-----------------------------------------------------------------------------
(* Properties.                                                             *)

ExecTypeOK ==
    /\ row \in [Exec -> [status : {"absent", "pending", "running"} \cup Final,
                         known : BOOLEAN]]
    /\ launch \in [Exec -> {"none", "created", "queued", "done"}]
    /\ task \in [Exec -> {"none", "queued", "preparing", "running", "ended",
                          "killed"}]
    /\ terminate \in [Exec -> [pc : {"idle", "checked", "revoked"},
                               known : BOOLEAN]]
    /\ faultsLeft \in 0..MaxFaults
    /\ late \subseteq Exec /\ forsaken \subseteq Exec

\* Whatever terminate, revoke, deletion and the task's own saves overtake, an
\* execution does not stay 'pending' or 'running' for ever; the exceptions are
\* a launcher's save that comes after its task began (it writes 'pending'
\* back) and a task that was refused or lost with its worker.
ExecutionsEnd ==
    \A e \in Exec :
        [](row[e].status \in {"pending", "running"}
           => <>(\/ row[e].status \notin {"pending", "running"}
                \/ e \in late \cup forsaken))
=============================================================================
