---------------------------- MODULE DiagnosisRun ----------------------------
(***************************************************************************)
(* One time-point diagnosis of apps/sre_management: the Celery task that   *)
(* claims and runs it, the handlers that enqueue it (create, retry), the   *)
(* periodic sweep that recovers overdue runs, and the update endpoint.     *)
(*                                                                         *)
(* celery_task_id names the task the row belongs to.  It is saved after    *)
(* the message has been sent; a task begins with a claim under the row's   *)
(* lock and looks at the id again, without lock, before it saves.          *)
(***************************************************************************)
EXTENDS Integers, FiniteSets

CONSTANTS
    Task,        \* Celery task ids that may be handed out (a bound)
    Worker,      \* worker processes of the Celery pool
    Caller,      \* HTTP handlers, and runs of the periodic sweep
    MaxRetries,  \* max_retries of run_timepoint_diagnosis
    Timely,      \* no task or handler outlives the stale period, no task is
                 \* over before the caller that sent it has saved its id
    MaxAsks,     \* bound: calls of the retry endpoint
    MaxEdits,    \* bound: calls of the update endpoint
    MaxStale,    \* bound: heartbeats that grow old
    MaxFaults    \* bounds: [crashed: workers killed at work,
                 \*          lost: messages not sent, doubled: sent twice]

CONSTANT NoTask

Budget == [crashed : Nat, lost : Nat, doubled : Nat]

ASSUME DiagnosisAssumption ==
    /\ NoTask \notin Task
    /\ MaxRetries \in Nat
    /\ Timely \in BOOLEAN
    /\ MaxAsks \in Nat /\ MaxEdits \in Nat /\ MaxStale \in Nat
    /\ MaxFaults \in Budget

VARIABLES
    row,         \* DiagnosisRun row: status, celery_task_id, and whether the
                 \* heartbeat is younger than SRE_DIAGNOSIS_STALE_MINUTES
    queue,       \* queued messages, per task id and retry count
    exec,        \* per worker: where its task is, the task id, its retries
    call,        \* per caller: where it is, the id it got, the row it read
    sent,        \* task ids handed out
    asksLeft, editsLeft, staleLeft, faultsLeft

vars == <<row, queue, exec, call, sent, asksLeft, editsLeft, staleLeft,
          faultsLeft>>
bounds == <<asksLeft, editsLeft, staleLeft, faultsLeft>>

Status  == {"pending", "running", "success", "failed"}
Over    == {"success", "failed"}
Row     == [status : Status, id : Task \cup {NoTask}, fresh : BOOLEAN]
Message == Task \X (0..MaxRetries)
New     == [status |-> "pending", id |-> NoTask, fresh |-> FALSE]
NoExec  == [pc |-> "idle", task |-> NoTask, retries |-> 0]
NoCall  == [pc |-> "idle", task |-> NoTask, row |-> New]

\* Steps of a task at which it is carrying out the diagnosis.
AtWork  == {"work", "checked", "failing"}

\* The create handler has inserted the row and is about to enqueue it.
Init ==
    /\ row = New
    /\ queue = [m \in Message |-> 0]
    /\ exec = [w \in Worker |-> NoExec]
    /\ \E c \in Caller :
          call = [x \in Caller |->
                    IF x = c THEN [NoCall EXCEPT !.pc = "enqueue"] ELSE NoCall]
    /\ sent = {}
    /\ asksLeft = MaxAsks /\ editsLeft = MaxEdits /\ staleLeft = MaxStale
    /\ faultsLeft = MaxFaults

Spend(fault) ==
    /\ faultsLeft[fault] > 0
    /\ faultsLeft' = [faultsLeft EXCEPT ![fault] = @ - 1]

-----------------------------------------------------------------------------
(* enqueue_diagnosis_run and its callers                                   *)

\* The retry endpoint read a run that is not running ...
RetryRead(c) ==
    /\ call[c].pc = "idle" /\ asksLeft > 0 /\ row.status # "running"
    /\ asksLeft' = asksLeft - 1
    /\ call' = [call EXCEPT ![c].pc = "reset"]
    /\ UNCHANGED <<row, queue, exec, sent, editsLeft, staleLeft, faultsLeft>>

\* ... and resets the row, whatever has become of it.
RetryReset(c) ==
    /\ call[c].pc = "reset"
    /\ row' = [row EXCEPT !.status = "pending", !.id = NoTask]
    /\ call' = [call EXCEPT ![c].pc = "enqueue"]
    /\ UNCHANGED <<queue, exec, sent, bounds>>

\* The sweep lists the overdue runs ...
SweepListAll(c) ==             \* variant: every running run
    /\ call[c].pc = "idle" /\ row.status = "running"
    /\ call' = [call EXCEPT ![c].pc = "listed"]
    /\ UNCHANGED <<row, queue, exec, sent, bounds>>
SweepList(c) ==
    /\ call[c].pc = "idle" /\ row.status = "running" /\ ~row.fresh
    /\ call' = [call EXCEPT ![c].pc = "listed"]
    /\ UNCHANGED <<row, queue, exec, sent, bounds>>

\* ... and resets each one that is still running.
SweepReset(c) ==
    /\ call[c].pc = "listed"
    /\ IF row.status = "running"
       THEN /\ row' = [row EXCEPT !.status = "pending", !.id = NoTask]
            /\ call' = [call EXCEPT ![c].pc = "requeue"]
       ELSE /\ call' = [call EXCEPT ![c] = NoCall]
            /\ UNCHANGED row
    /\ UNCHANGED <<queue, exec, sent, bounds>>

Enqueue(c, t) ==
    /\ call[c].pc \in {"enqueue", "requeue"} /\ t \notin sent
    /\ queue' = [queue EXCEPT ![<<t, 0>>] = @ + 1]
    /\ sent' = sent \cup {t}
    /\ call' = [call EXCEPT ![c] = [@ EXCEPT !.pc = "sent", !.task = t]]
    /\ UNCHANGED <<row, exec, bounds>>

\* The broker refuses the message: a handler reports the run as failed, the
\* sweep breaks off.
EnqueueFails(c) ==
    /\ call[c].pc \in {"enqueue", "requeue"} /\ Spend("lost")
    /\ row' = IF call[c].pc = "enqueue"
              THEN [row EXCEPT !.status = "failed"] ELSE row
    /\ call' = [call EXCEPT ![c] = NoCall]
    /\ UNCHANGED <<queue, exec, sent, asksLeft, editsLeft, staleLeft>>

SaveId(c) ==
    /\ call[c].pc = "sent"
    /\ row' = [row EXCEPT !.id = call[c].task]
    /\ call' = [call EXCEPT ![c] = NoCall]
    /\ UNCHANGED <<queue, exec, sent, bounds>>

\* The update endpoint saves every column of the row it read.
EditRead(c) ==
    /\ call[c].pc = "idle" /\ editsLeft > 0
    /\ editsLeft' = editsLeft - 1
    /\ call' = [call EXCEPT ![c] = [@ EXCEPT !.pc = "edit", !.row = row]]
    /\ UNCHANGED <<row, queue, exec, sent, asksLeft, staleLeft, faultsLeft>>

EditSave(c) ==
    /\ call[c].pc = "edit"
    /\ row' = call[c].row
    /\ call' = [call EXCEPT ![c] = NoCall]
    /\ UNCHANGED <<queue, exec, sent, bounds>>

-----------------------------------------------------------------------------
(* run_timepoint_diagnosis                                                 *)

\* The guards of the claim, in the order of the code.
IgnoredUnlessDone(t) ==        \* variant: a completed run is claimed again
    \/ row.id \notin {NoTask, t}
    \/ row.status = "running" /\ row.fresh
Ignored(t) ==
    \/ row.status = "success"
    \/ row.id \notin {NoTask, t}
    \/ row.status = "running" /\ row.fresh

\* A task starts: under the row's lock it claims the run or ends.
Claim(w, t, r) ==
    /\ exec[w].pc = "idle" /\ queue[<<t, r>>] > 0
    /\ queue' = [queue EXCEPT ![<<t, r>>] = @ - 1]
    /\ IF Ignored(t)
       THEN UNCHANGED <<row, exec>>
       ELSE /\ row' = [row EXCEPT !.status = "running", !.fresh = TRUE]
            /\ exec' = [exec EXCEPT ![w] = [pc |-> "work", task |-> t,
                                            retries |-> r]]
    /\ UNCHANGED <<call, sent, bounds>>

\* The diagnosis is made or an exception raised; the id is read again and a
\* task the row no longer belongs to ends without a word.
Check(w, made) ==
    /\ exec[w].pc = "work"
    /\ Timely => \A c \in Caller : call[c].pc = "sent" =>
                                      call[c].task # exec[w].task
    /\ exec' = [exec EXCEPT ![w] =
                  IF row.id # exec[w].task THEN NoExec
                  ELSE [@ EXCEPT !.pc = IF made THEN "checked" ELSE "failing"]]
    /\ UNCHANGED <<row, queue, call, sent, bounds>>

SaveSuccess(w) ==
    /\ exec[w].pc = "checked"
    /\ row' = [row EXCEPT !.status = "success", !.fresh = TRUE]
    /\ exec' = [exec EXCEPT ![w] = NoExec]
    /\ UNCHANGED <<queue, call, sent, bounds>>

\* An exception: 'pending' if Celery is to retry the task, else 'failed'.
SaveFailureSilent(w) ==        \* variant: the last failure is not saved
    /\ exec[w].pc = "failing"
    /\ IF exec[w].retries < MaxRetries
       THEN /\ row' = [row EXCEPT !.status = "pending", !.fresh = TRUE]
            /\ exec' = [exec EXCEPT ![w].pc = "retry"]
       ELSE exec' = [exec EXCEPT ![w] = NoExec] /\ UNCHANGED row
    /\ UNCHANGED <<queue, call, sent, bounds>>
SaveFailure(w) ==
    /\ exec[w].pc = "failing"
    /\ IF exec[w].retries < MaxRetries
       THEN /\ row' = [row EXCEPT !.status = "pending", !.fresh = TRUE]
            /\ exec' = [exec EXCEPT ![w].pc = "retry"]
       ELSE /\ row' = [row EXCEPT !.status = "failed", !.fresh = TRUE]
            /\ exec' = [exec EXCEPT ![w] = NoExec]
    /\ UNCHANGED <<queue, call, sent, bounds>>

\* self.retry: the message is sent again under the same task id.
Retry(w) ==
    /\ exec[w].pc = "retry"
    /\ queue' = [queue EXCEPT ![<<exec[w].task, exec[w].retries + 1>>] = @ + 1]
    /\ exec' = [exec EXCEPT ![w] = NoExec]
    /\ UNCHANGED <<row, call, sent, bounds>>

RetryLost(w) ==
    /\ exec[w].pc = "retry" /\ Spend("lost")
    /\ exec' = [exec EXCEPT ![w] = NoExec]
    /\ UNCHANGED <<row, queue, call, sent, asksLeft, editsLeft, staleLeft>>

TaskDies(w) ==
    /\ exec[w].pc \in AtWork /\ Spend("crashed")
    /\ exec' = [exec EXCEPT ![w] = NoExec]
    /\ UNCHANGED <<row, queue, call, sent, asksLeft, editsLeft, staleLeft>>

-----------------------------------------------------------------------------
(* Time and the broker                                                     *)

\* A running row's heartbeat, which nobody renews, grows old.
GrowStale ==
    /\ row.status = "running" /\ row.fresh /\ staleLeft > 0
    /\ Timely => /\ \A w \in Worker : exec[w].pc \notin AtWork
                 /\ \A c \in Caller : call[c].pc = "idle"
    /\ row' = [row EXCEPT !.fresh = FALSE]
    /\ staleLeft' = staleLeft - 1
    /\ UNCHANGED <<queue, exec, call, sent, asksLeft, editsLeft, faultsLeft>>

\* A waiting message (a retry waits for its countdown in a worker) is
\* delivered once more.
Redeliver(m) ==
    /\ queue[m] > 0 /\ Spend("doubled")
    /\ queue' = [queue EXCEPT ![m] = @ + 1]
    /\ UNCHANGED <<row, exec, call, sent, asksLeft, editsLeft, staleLeft>>

-----------------------------------------------------------------------------
CallStep(c) ==
    \/ RetryReset(c) \/ SweepList(c) \/ SweepReset(c)
    \/ \E t \in Task : Enqueue(c, t)
    \/ SaveId(c) \/ EditSave(c)

TaskStep(w) ==
    \/ \E t \in Task, r \in 0..MaxRetries : Claim(w, t, r)
    \/ \E made \in BOOLEAN : Check(w, made)
    \/ SaveSuccess(w) \/ SaveFailure(w) \/ Retry(w)

Next ==
    \/ \E c \in Caller : \/ CallStep(c) \/ RetryRead(c) \/ EditRead(c)
                         \/ EnqueueFails(c)
    \/ \E w \in Worker : TaskStep(w) \/ RetryLost(w) \/ TaskDies(w)
    \/ GrowStale
    \/ \E m \in Message : Redeliver(m)

Spec == Init /\ [][Next]_vars

\* Workers take messages and end their tasks, handlers end, the sweep runs
\* every ten minutes and time passes; nobody has to ask, edit or fail.
Fairness ==
    /\ \A c \in Caller : WF_vars(CallStep(c))
    /\ \A w \in Worker : WF_vars(TaskStep(w))
    /\ WF_vars(GrowStale)

FairSpec == Spec /\ Fairness

-----------------------------------------------------------------------------
(* Properties.                                                             *)

TypeOK ==
    /\ row \in Row
    /\ queue \in [Message -> Nat]
    /\ exec \in [Worker -> [pc : {"idle", "retry"} \cup AtWork,
                            task : Task \cup {NoTask}, retries : 0..MaxRetries]]
    /\ \A w \in Worker : exec[w].pc # "idle" => exec[w].task \in Task
    /\ \A w \in Worker : exec[w].pc = "retry" => exec[w].retries < MaxRetries
    /\ call \in [Caller -> [pc : {"idle", "reset", "listed", "enqueue",
                                  "requeue", "sent", "edit"},
                            task : Task \cup {NoTask}, row : Row]]
    /\ \A c \in Caller : call[c].pc = "sent" => call[c].task \in Task
    /\ sent \subseteq Task
    /\ asksLeft \in 0..MaxAsks /\ editsLeft \in 0..MaxEdits
    /\ staleLeft \in 0..MaxStale
    /\ faultsLeft \in Budget

\* No two tasks make the diagnosis at the same time, in calm conditions.
\* Code: the claim under the row's lock, the sweep's filter.
SingleWork ==
    \A v, w \in Worker : exec[v].pc \in AtWork /\ exec[w].pc \in AtWork => v = w

\* A pending run is not forgotten: a caller is about to enqueue it, or there
\* is a message, queued or about to be sent, that the claim will accept.
\* Code: the sweep looks at running rows only, so nobody else would.
Accepted(t) ==
    \/ row.id \in {NoTask, t}
    \/ \E c \in Caller : call[c].pc = "sent" /\ call[c].task = t
PendingIsQueued ==
    row.status = "pending" =>
        \/ \E c \in Caller : call[c].pc \in {"reset", "enqueue", "requeue"}
        \/ \E m \in Message : queue[m] > 0 /\ Accepted(m[1])
        \/ \E w \in Worker : exec[w].pc = "retry" /\ Accepted(exec[w].task)

\* A diagnosis is in good hands: made by one task at a time and, while it is
\* pending, not forgotten.
\* Code: enqueue_diagnosis_run, the claim and recover_stale_diagnosis_runs.
WorkIsHeld == SingleWork /\ PendingIsQueued

\* A diagnosis that is made and undisturbed stays made: with no task at work
\* and no handler under way, no message in any queue - retried, superseded or
\* delivered twice - and no sweep takes the success away.
\* Code: the first guard of the claim.
Undisturbed ==
    /\ \A w \in Worker : exec[w].pc \in {"idle", "retry"}
    /\ \A c \in Caller : call[c].pc \in {"idle", "listed", "sent"}
SuccessStands ==
    [][row.status = "success" /\ Undisturbed => row'.status = "success"]_vars

\* Every run ends and stays so, although a worker may be killed at work.
\* Code: recover_stale_diagnosis_runs.
DiagnosisEnds == <>[](row.status \in Over)
-----------------------------------------------------------------------------
(* The inductive invariant behind WorkIsHeld.                              *)

\* Timely tasks, one sweep at a time, no retry request, no update, no message
\* delivered twice; workers may be killed and messages refused.
Calm ==
    /\ Timely
    /\ MaxAsks = 0 /\ MaxEdits = 0 /\ MaxFaults.doubled = 0
    /\ \A c, d \in Caller : c = d

\* The right to make the diagnosis is in one place: with a caller about to
\* enqueue it, in one message, or with one busy worker.
Busy(w) == exec[w].pc # "idle"
ToEnqueue(c) == call[c].pc \in {"enqueue", "requeue"}
OneToken ==
    /\ \A v, w \in Worker : Busy(v) /\ Busy(w) => v = w
    /\ \A m, n \in Message : queue[m] > 0 /\ queue[n] > 0 => m = n
    /\ \A m \in Message : queue[m] <= 1
    /\ \A w \in Worker, m \in Message : ~(Busy(w) /\ queue[m] > 0)
    /\ \A c \in Caller : ToEnqueue(c) =>
          /\ \A w \in Worker : ~Busy(w)
          /\ \A m \in Message : queue[m] = 0

\* A running row is nobody's, or a worker's that is at work; an overdue one
\* is nobody's, and only an overdue one is listed by the sweep.
RunningInv ==
    /\ row.status = "running" =>
          /\ \A m \in Message : queue[m] = 0
          /\ \A w \in Worker : exec[w].pc # "retry"
          /\ \A c \in Caller : ~ToEnqueue(c)
    /\ row.status = "running" /\ ~row.fresh => \A w \in Worker : ~Busy(w)
    /\ \A c \in Caller : call[c].pc = "listed" =>
          row.status = "running" /\ ~row.fresh

\* The row belongs to the task that has the right, or its caller is still to
\* save the id; a task at work is making a running diagnosis.
Owned(t) ==
    \/ \E c \in Caller : call[c].pc = "sent" /\ call[c].task = t
    \/ row.id = t /\ \A c \in Caller : call[c].pc # "sent"
OwnerInv ==
    /\ \A m \in Message : queue[m] > 0 => Owned(m[1])
    /\ \A w \in Worker : Busy(w) => Owned(exec[w].task)
    /\ \A w \in Worker : exec[w].pc \in AtWork => row.status = "running"
    /\ \A c \in Caller : ToEnqueue(c) \/ call[c].pc = "sent" =>
          row.id = NoTask

\* Unless messages get lost, somebody has the right while the row is pending.
HeldInv ==
    MaxFaults.lost = 0 /\ row.status = "pending" =>
        \/ \E c \in Caller : ToEnqueue(c)
        \/ \E m \in Message : queue[m] > 0
        \/ \E w \in Worker : exec[w].pc = "retry"

\* Code: enqueue_diagnosis_run, the claim and recover_stale_diagnosis_runs.
CalmInv ==
    /\ OneToken /\ RunningInv /\ OwnerInv /\ HeldInv
    /\ asksLeft = 0 /\ editsLeft = 0 /\ faultsLeft.doubled = 0
    /\ faultsLeft.lost <= MaxFaults.lost
    /\ \A c \in Caller : call[c].pc \notin {"reset", "edit"}
=============================================================================
