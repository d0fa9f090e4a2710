------------------------- MODULE DiagnosisRunProofs -------------------------
(* Proofs about DiagnosisRun.                                              *)
EXTENDS DiagnosisRun, TLAPS

USE DiagnosisAssumption

ExecState == [pc : {"idle", "retry"} \cup AtWork,
              task : Task \cup {NoTask}, retries : 0..MaxRetries]
CallState == [pc : {"idle", "reset", "listed", "enqueue", "requeue", "sent",
                    "edit"},
              task : Task \cup {NoTask}, row : Row]

\* A task id and a retry count make a message.
LEMMA IsMessage ==
    ASSUME NEW t \in Task, NEW r \in 0..MaxRetries
    PROVE  <<t, r>> \in Message
BY DEF Message

\* The values a row, a worker and a caller start from have their types.
LEMMA RestType == New \in Row /\ NoExec \in ExecState /\ NoCall \in CallState
BY DEF New, Row, Status, NoExec, ExecState, NoCall, CallState

\* A budget that is spent stays a budget, and an empty one is not spent.
LEMMA SpendType ==
    ASSUME NEW fault \in {"crashed", "lost", "doubled"},
           faultsLeft \in Budget, Spend(fault)
    PROVE  /\ faultsLeft' \in Budget
           /\ faultsLeft'.doubled = IF fault = "doubled"
                                    THEN faultsLeft.doubled - 1
                                    ELSE faultsLeft.doubled
           /\ fault = "doubled" => faultsLeft.doubled > 0
           /\ faultsLeft'.lost <= faultsLeft.lost
           /\ fault = "lost" => faultsLeft.lost > 0
BY DEF Spend, Budget

\* One message more, or one less.
LEMMA QueueType ==
    ASSUME queue \in [Message -> Nat], NEW m \in Message,
           \/ queue' = [queue EXCEPT ![m] = @ + 1]
           \/ queue[m] > 0 /\ queue' = [queue EXCEPT ![m] = @ - 1]
    PROVE  queue' \in [Message -> Nat]
OBVIOUS

\* For every set of tasks, workers and callers and every bound: the variables
\* keep their types; in particular no task is retried more than MaxRetries
\* times.
THEOREM TypeCorrect == Spec => []TypeOK
<1>1. Init => TypeOK
  <2> SUFFICES ASSUME Init
               PROVE  TypeOK
    OBVIOUS
  <2>1. exec \in [Worker -> ExecState]
    BY RestType DEF Init
  <2>1a. \A w \in Worker : exec[w].pc = "idle"
    BY DEF Init, NoExec
  <2>2. call \in [Caller -> CallState] /\ \A c \in Caller : call[c].pc # "sent"
    <3>1. PICK c \in Caller :
             call = [x \in Caller |->
                       IF x = c THEN [NoCall EXCEPT !.pc = "enqueue"]
                       ELSE NoCall]
      BY DEF Init
    <3>2. [NoCall EXCEPT !.pc = "enqueue"] \in CallState
      BY RestType DEF CallState, NoCall
    <3> QED BY <3>1, <3>2, RestType DEF NoCall
  <2>3. queue \in [Message -> Nat]
    BY DEF Init
  <2>4. /\ row \in Row /\ sent \subseteq Task
        /\ asksLeft \in 0..MaxAsks /\ editsLeft \in 0..MaxEdits
        /\ staleLeft \in 0..MaxStale /\ faultsLeft \in Budget
    BY RestType DEF Init
  <2> QED BY <2>1, <2>1a, <2>2, <2>3, <2>4 DEF TypeOK, ExecState, CallState
<1>2. TypeOK /\ [Next]_vars => TypeOK'
  <2> SUFFICES ASSUME TypeOK, [Next]_vars
               PROVE  TypeOK'
    OBVIOUS
  <2> USE DEF TypeOK
  <2>1. ASSUME NEW c \in Caller, RetryRead(c)
        PROVE  TypeOK'
    BY <2>1 DEF RetryRead
  <2>2. ASSUME NEW c \in Caller, RetryReset(c)
        PROVE  TypeOK'
    <3>1. row' \in Row
      BY <2>2 DEF RetryReset, Row, Status
    <3>2. call' \in [Caller -> CallState]
      BY <2>2 DEF RetryReset, CallState
    <3>3. \A x \in Caller : call'[x].pc = "sent" => call'[x].task \in Task
      BY <2>2 DEF RetryReset
    <3>4. UNCHANGED <<queue, exec, sent, bounds>>
      BY <2>2 DEF RetryReset
    <3> QED BY <3>1, <3>2, <3>3, <3>4 DEF bounds, CallState
  <2>3. ASSUME NEW c \in Caller, SweepList(c)
        PROVE  TypeOK'
    BY <2>3 DEF SweepList, bounds
  <2>4. ASSUME NEW c \in Caller, SweepReset(c)
        PROVE  TypeOK'
    <3>1. call' \in [Caller -> CallState]
      BY <2>4, RestType DEF SweepReset, CallState
    <3>2. \A x \in Caller : call'[x].pc = "sent" => call'[x].task \in Task
      BY <2>4, <3>1 DEF SweepReset, CallState, NoCall
    <3>3. row' \in Row
      BY <2>4 DEF SweepReset, Row, Status
    <3>4. UNCHANGED <<queue, exec, sent, bounds>>
      BY <2>4 DEF SweepReset
    <3> QED BY <3>1, <3>2, <3>3, <3>4 DEF bounds, CallState
  <2>5. ASSUME NEW c \in Caller, NEW t \in Task, Enqueue(c, t)
        PROVE  TypeOK'
    <3>1. <<t, 0>> \in Message
      BY IsMessage
    <3>2. queue' \in [Message -> Nat]
      BY <2>5, <3>1, QueueType DEF Enqueue
    <3>3. call' \in [Caller -> CallState]
      BY <2>5 DEF Enqueue, CallState
    <3>4. \A x \in Caller : call'[x].pc = "sent" => call'[x].task \in Task
      BY <2>5, <3>3 DEF Enqueue, CallState
    <3>5. UNCHANGED <<row, exec, bounds>> /\ sent' \subseteq Task
      BY <2>5 DEF Enqueue
    <3> QED BY <3>2, <3>3, <3>4, <3>5 DEF bounds, CallState
  <2>6. ASSUME NEW c \in Caller, EnqueueFails(c)
        PROVE  TypeOK'
    <3>1. faultsLeft' \in Budget
      BY <2>6, SpendType DEF EnqueueFails
    <3>2. call' \in [Caller -> CallState]
      BY <2>6, RestType DEF EnqueueFails, CallState
    <3>3. \A x \in Caller : call'[x].pc = "sent" => call'[x].task \in Task
      BY <2>6, <3>2 DEF EnqueueFails, CallState, NoCall
    <3>4. row' \in Row
      BY <2>6 DEF EnqueueFails, Row, Status
    <3>5. UNCHANGED <<queue, exec, sent, asksLeft, editsLeft, staleLeft>>
      BY <2>6 DEF EnqueueFails
    <3> QED BY <3>1, <3>2, <3>3, <3>4, <3>5 DEF CallState
  <2>7. ASSUME NEW c \in Caller, SaveId(c)
        PROVE  TypeOK'
    BY <2>7, RestType DEF SaveId, bounds, Row, CallState, NoCall
  <2>8. ASSUME NEW c \in Caller, EditRead(c)
        PROVE  TypeOK'
    <3>1. call' \in [Caller -> CallState]
      BY <2>8 DEF EditRead, CallState
    <3>2. \A x \in Caller : call'[x].pc = "sent" => call'[x].task \in Task
      BY <2>8 DEF EditRead
    <3> QED BY <2>8, <3>1, <3>2 DEF EditRead, CallState
  <2>9. ASSUME NEW c \in Caller, EditSave(c)
        PROVE  TypeOK'
    BY <2>9, RestType DEF EditSave, bounds, CallState, NoCall
  <2>10. ASSUME NEW w \in Worker, NEW t \in Task, NEW r \in 0..MaxRetries,
                Claim(w, t, r)
         PROVE  TypeOK'
    <3>1. <<t, r>> \in Message
      BY IsMessage
    <3>2. queue' \in [Message -> Nat]
      BY <2>10, <3>1, QueueType DEF Claim
    <3>3. exec' \in [Worker -> ExecState]
      BY <2>10 DEF Claim, ExecState, AtWork
    <3>4. \A v \in Worker :
             /\ exec'[v].pc # "idle" => exec'[v].task \in Task
             /\ exec'[v].pc = "retry" => exec'[v].retries < MaxRetries
      BY <2>10, <3>3 DEF Claim, ExecState
    <3>5. row' \in Row
      BY <2>10 DEF Claim, Row, Status
    <3>6. UNCHANGED <<call, sent, bounds>>
      BY <2>10 DEF Claim
    <3> QED BY <3>2, <3>3, <3>4, <3>5, <3>6 DEF bounds, ExecState
  <2>11. ASSUME NEW w \in Worker, NEW made \in BOOLEAN, Check(w, made)
         PROVE  TypeOK'
    BY <2>11, RestType DEF Check, bounds, ExecState, NoExec, AtWork
  <2>12. ASSUME NEW w \in Worker, SaveSuccess(w)
         PROVE  TypeOK'
    BY <2>12, RestType DEF SaveSuccess, bounds, ExecState, NoExec, Row, Status
  <2>13. ASSUME NEW w \in Worker, SaveFailure(w)
         PROVE  TypeOK'
    <3>1. exec' \in [Worker -> ExecState]
      BY <2>13, RestType DEF SaveFailure, ExecState
    <3>2. \A v \in Worker :
             /\ exec'[v].pc # "idle" => exec'[v].task \in Task
             /\ exec'[v].pc = "retry" => exec'[v].retries < MaxRetries
      BY <2>13, <3>1 DEF SaveFailure, ExecState, NoExec
    <3>3. row' \in Row
      BY <2>13 DEF SaveFailure, Row, Status
    <3>4. UNCHANGED <<queue, call, sent, bounds>>
      BY <2>13 DEF SaveFailure
    <3> QED BY <3>1, <3>2, <3>3, <3>4 DEF bounds, ExecState
  <2>14. ASSUME NEW w \in Worker, Retry(w)
         PROVE  TypeOK'
    <3>1. <<exec[w].task, exec[w].retries + 1>> \in Message
      <4>1. exec[w].task \in Task /\ exec[w].retries + 1 \in 0..MaxRetries
        BY <2>14 DEF Retry
      <4> QED BY <4>1, IsMessage
    <3>2. queue' \in [Message -> Nat]
      BY <2>14, <3>1, QueueType DEF Retry
    <3>3. exec' \in [Worker -> ExecState]
      BY <2>14, RestType DEF Retry, ExecState
    <3> QED BY <2>14, <3>2, <3>3 DEF Retry, bounds, ExecState, NoExec
  <2>15. ASSUME NEW w \in Worker, RetryLost(w) \/ TaskDies(w)
         PROVE  TypeOK'
    <3>1. faultsLeft' \in Budget
      BY <2>15, SpendType DEF RetryLost, TaskDies
    <3>2. exec' \in [Worker -> ExecState]
      BY <2>15, RestType DEF RetryLost, TaskDies, ExecState
    <3> QED BY <2>15, <3>1, <3>2
            DEF RetryLost, TaskDies, ExecState, NoExec
  <2>16. ASSUME GrowStale
         PROVE  TypeOK'
    <3>1. staleLeft > 0 /\ staleLeft' = staleLeft - 1
      BY <2>16 DEF GrowStale
    <3>1a. staleLeft' \in 0..MaxStale
      BY <3>1
    <3>1b. row' = [row EXCEPT !.fresh = FALSE]
      BY <2>16 DEF GrowStale
    <3>1c. row' \in Row
      BY <3>1b DEF Row
    <3>2. UNCHANGED <<queue, exec, call, sent, asksLeft, editsLeft, faultsLeft>>
      BY <2>16 DEF GrowStale
    <3> QED BY <3>1a, <3>1c, <3>2
  <2>17. ASSUME NEW m \in Message, Redeliver(m)
         PROVE  TypeOK'
    <3>1. faultsLeft' \in Budget
      BY <2>17, SpendType DEF Redeliver
    <3>2. queue' \in [Message -> Nat]
      BY <2>17, QueueType DEF Redeliver
    <3> QED BY <2>17, <3>1, <3>2 DEF Redeliver
  <2>18. ASSUME UNCHANGED vars
         PROVE  TypeOK'
    BY <2>18 DEF vars
  <2> HIDE DEF TypeOK
  <2> QED BY <2>1, <2>2, <2>3, <2>4, <2>5, <2>6, <2>7, <2>8, <2>9, <2>10,
             <2>11, <2>12, <2>13, <2>14, <2>15, <2>16, <2>17, <2>18
          DEF Next, CallStep, TaskStep
<1> QED BY <1>1, <1>2, PTL DEF Spec

-----------------------------------------------------------------------------
\* A diagnosis that is made stays made while no task is at work and no
\* handler under way, whatever messages and overdue sweeps are left: the
\* claim's promise, for every schedule, fault, retry and update before.
THEOREM MadeStays == Spec => SuccessStands
<1>1. ASSUME TypeOK, [Next]_vars, row.status = "success", Undisturbed
      PROVE  row'.status = "success"
  <2> USE <1>1 DEF Undisturbed, TypeOK, AtWork
  <2>1. ASSUME NEW c \in Caller,
               CallStep(c) \/ RetryRead(c) \/ EditRead(c) \/ EnqueueFails(c)
        PROVE  row'.status = "success"
    <3>1. CASE SaveId(c)
      BY <3>1 DEF SaveId, Row
    <3>2. CASE ~SaveId(c)
      BY <2>1, <3>2 DEF CallStep, RetryRead, EditRead, EnqueueFails,
         RetryReset, SweepList, SweepReset, Enqueue, EditSave
    <3> QED BY <3>1, <3>2
  <2>2. ASSUME NEW w \in Worker, TaskStep(w) \/ RetryLost(w) \/ TaskDies(w)
        PROVE  row'.status = "success"
    BY <2>2 DEF TaskStep, RetryLost, TaskDies, Claim, Ignored, Check,
       SaveSuccess, SaveFailure, Retry
  <2>3. ASSUME GrowStale \/ \E m \in Message : Redeliver(m)
        PROVE  row'.status = "success"
    BY <2>3 DEF GrowStale, Redeliver
  <2> QED BY <2>1, <2>2, <2>3 DEF Next, vars
<1> QED BY <1>1, TypeCorrect, PTL DEF Spec, SuccessStands
-----------------------------------------------------------------------------
(* One task at a time, in calm conditions.                                 *)

\* A message added to an empty queue is the only one.
LEMMA FirstMessage ==
    ASSUME queue \in [Message -> Nat], NEW m \in Message,
           \A n \in Message : queue[n] = 0,
           queue' = [queue EXCEPT ![m] = @ + 1]
    PROVE  /\ \A n \in Message : n # m => queue'[n] = 0
           /\ queue'[m] = 1
OBVIOUS

\* Taking the only message leaves none.
LEMMA LastMessage ==
    ASSUME queue \in [Message -> Nat], NEW m \in Message, queue[m] > 0,
           \A n, o \in Message : queue[n] > 0 /\ queue[o] > 0 => n = o,
           \A n \in Message : queue[n] <= 1,
           queue' = [queue EXCEPT ![m] = @ - 1]
    PROVE  \A n \in Message : queue'[n] = 0
<1>1. queue'[m] = 0
  OBVIOUS
<1>2. ASSUME NEW n \in Message, n # m
      PROVE  queue'[n] = 0
  <2>1. queue[n] = 0
    BY <1>2
  <2> QED BY <2>1, <1>2
<1> QED BY <1>1, <1>2

\* The invariant behind WorkIsHeld is inductive: the right to make the
\* diagnosis moves from the caller to a message to a worker and back to a
\* message, and the row follows it; only a row nobody works for grows old and
\* is enqueued again.
LEMMA CalmInductive ==
    ASSUME Calm, TypeOK, CalmInv, [Next]_vars
    PROVE  CalmInv'
<1> USE DEF Calm, CalmInv, OneToken, RunningInv, OwnerInv, HeldInv, Owned,
            Busy, ToEnqueue
<1>1. ASSUME NEW c \in Caller, RetryRead(c) \/ RetryReset(c) \/ EditRead(c)
                               \/ EditSave(c)
      PROVE  FALSE
  BY <1>1 DEF RetryRead, RetryReset, EditRead, EditSave
<1>2. ASSUME NEW m \in Message, Redeliver(m)
      PROVE  FALSE
  BY <1>2 DEF Redeliver, Spend
<1>3. ASSUME NEW c \in Caller, SweepList(c)
      PROVE  CalmInv'
  <2>1. /\ row.status = "running" /\ ~row.fresh
        /\ UNCHANGED <<row, queue, exec, bounds>>
    BY <1>3 DEF SweepList
  <2>2. \A x \in Caller : call[x].pc = "idle" /\ call'[x].pc = "listed"
    BY <1>3 DEF SweepList, TypeOK
  <2>3. OneToken' /\ RunningInv'
    BY <2>1, <2>2
  <2>4. OwnerInv' /\ HeldInv'
    BY <2>1, <2>2
  <2> QED BY <2>1, <2>2, <2>3, <2>4 DEF bounds
<1>4. ASSUME NEW c \in Caller, SweepReset(c)
      PROVE  CalmInv'
  <2>1. row.status = "running"
    BY <1>4 DEF SweepReset
  <2>2. /\ row'.status = "pending" /\ row'.id = NoTask
        /\ call' = [call EXCEPT ![c].pc = "requeue"]
        /\ UNCHANGED <<queue, exec, bounds>>
    BY <1>4, <2>1 DEF SweepReset, TypeOK, Row
  <2>3. /\ \A w \in Worker : exec[w].pc = "idle"
        /\ \A m \in Message : queue[m] = 0
    BY <1>4, <2>1 DEF SweepReset
  <2>4. \A x \in Caller : call'[x].pc = "requeue"
    BY <2>2 DEF TypeOK
  <2>5. OwnerInv' /\ HeldInv'
    BY <2>2, <2>3, <2>4 DEF AtWork
  <2> QED BY <2>2, <2>3, <2>4, <2>5 DEF bounds
<1>5. ASSUME NEW c \in Caller, NEW t \in Task, Enqueue(c, t)
      PROVE  CalmInv'
  <2>1. /\ queue' = [queue EXCEPT ![<<t, 0>>] = @ + 1]
        /\ UNCHANGED <<row, exec, bounds>>
        /\ \A w \in Worker : exec[w].pc = "idle"
        /\ \A m \in Message : queue[m] = 0
        /\ row.status # "running" /\ row.id = NoTask
    BY <1>5 DEF Enqueue
  <2>2. <<t, 0>> \in Message
    BY IsMessage
  <2>3. /\ \A n \in Message : n # <<t, 0>> => queue'[n] = 0
        /\ queue'[<<t, 0>>] = 1
    BY <2>1, <2>2, FirstMessage DEF TypeOK
  <2>4. \A x \in Caller : call'[x].pc = "sent" /\ call'[x].task = t
    BY <1>5 DEF Enqueue, TypeOK
  <2>5. OneToken'
    BY <2>1, <2>2, <2>3, <2>4
  <2>6. OwnerInv' /\ HeldInv'
    <3>1. \A n \in Message : queue'[n] > 0 => n[1] = t
      BY <2>3
    <3> QED BY <3>1, <2>1, <2>2, <2>3, <2>4 DEF AtWork
  <2> QED BY <2>1, <2>4, <2>5, <2>6 DEF bounds
<1>6. ASSUME NEW c \in Caller, EnqueueFails(c)
      PROVE  CalmInv'
  <2>1. \A x \in Caller : call'[x].pc = "idle"
    BY <1>6 DEF EnqueueFails, TypeOK, NoCall
  <2>2. row'.status # "running"
    BY <1>6 DEF EnqueueFails, TypeOK, Row
  <2>3. /\ UNCHANGED <<queue, exec, asksLeft, editsLeft>>
        /\ faultsLeft'.doubled = 0 /\ faultsLeft.lost > 0
        /\ faultsLeft'.lost <= faultsLeft.lost
    BY <1>6, SpendType DEF EnqueueFails, TypeOK
  <2>4. /\ \A w \in Worker : exec[w].pc = "idle"
        /\ \A m \in Message : queue[m] = 0
    BY <1>6 DEF EnqueueFails
  <2>5. MaxFaults.lost # 0 /\ faultsLeft'.lost <= MaxFaults.lost
    BY <2>3, SpendType, <1>6 DEF TypeOK, Budget, EnqueueFails
  <2>6. OwnerInv' /\ HeldInv'
    BY <2>1, <2>3, <2>4, <2>5 DEF AtWork
  <2> QED BY <2>1, <2>2, <2>3, <2>4, <2>5, <2>6
<1>7. ASSUME NEW c \in Caller, SaveId(c)
      PROVE  CalmInv'
  <2>1. \A x \in Caller : call'[x].pc = "idle"
    BY <1>7 DEF SaveId, TypeOK, NoCall
  <2>2. /\ row'.status = row.status /\ row'.fresh = row.fresh
        /\ row'.id = call[c].task
    BY <1>7 DEF SaveId, TypeOK, Row
  <2>3. \A x \in Caller : x = c
    OBVIOUS
  <2>4. /\ call[c].pc = "sent"
        /\ UNCHANGED <<queue, exec, bounds>>
    BY <1>7 DEF SaveId
  <2>5. \A t : Owned(t) => Owned(t)'
    BY <2>1, <2>2, <2>3, <2>4
  <2>6. OwnerInv'
    BY <2>1, <2>2, <2>4, <2>5
  <2>7. HeldInv'
    BY <2>1, <2>2, <2>3, <2>4
  <2> QED BY <2>1, <2>2, <2>4, <2>6, <2>7 DEF bounds
<1>8. ASSUME NEW w \in Worker, NEW t \in Task, NEW r \in 0..MaxRetries,
             Claim(w, t, r)
      PROVE  CalmInv'
  <2>1. <<t, r>> \in Message
    BY IsMessage
  <2>2. /\ queue[<<t, r>>] > 0
        /\ queue' = [queue EXCEPT ![<<t, r>>] = @ - 1]
        /\ UNCHANGED <<call, bounds>>
    BY <1>8 DEF Claim
  <2>3. \A n \in Message : queue'[n] = 0
    BY <2>1, <2>2, LastMessage DEF TypeOK
  <2>4. /\ \A v \in Worker : ~Busy(v)
        /\ \A c \in Caller : ~ToEnqueue(c)
        /\ row.status # "running"
    <3>1. queue[<<t, r>>] # 0
      BY <2>2
    <3> QED BY <2>1, <2>2, <3>1
  <2>5. \A v \in Worker : v # w => exec'[v].pc = "idle"
    BY <1>8, <2>4 DEF Claim, TypeOK
  <2>6. exec'[w].pc # "retry"
    BY <1>8, <2>4 DEF Claim, TypeOK
  <2>7. /\ row'.id = row.id
        /\ \/ row' = row
           \/ row'.status = "running" /\ row'.fresh
    <3>1. \/ row' = row
          \/ row' = [row EXCEPT !.status = "running", !.fresh = TRUE]
      BY <1>8 DEF Claim
    <3>2. row \in Row
      BY DEF TypeOK
    <3> QED BY <3>1, <3>2 DEF Row
  <2>8. OneToken'
    BY <2>2, <2>3, <2>4, <2>5
  <2>9. RunningInv'
    BY <2>2, <2>3, <2>4, <2>5, <2>6, <2>7
  <2>10. Owned(t)
    BY <2>1, <2>2
  <2>11. CASE Ignored(t)
    <3>1. row.status # "pending"
      BY <2>10, <2>11 DEF Ignored
    <3>2. UNCHANGED <<row, exec>>
      BY <1>8, <2>11 DEF Claim
    <3>3. OwnerInv' /\ HeldInv'
      BY <2>2, <2>3, <3>1, <3>2
    <3> QED BY <2>2, <2>8, <2>9, <3>3 DEF bounds
  <2>12. CASE ~Ignored(t)
    <3>1. row'.status = "running" /\ exec'[w].task = t
      <4>1. /\ row' = [row EXCEPT !.status = "running", !.fresh = TRUE]
            /\ exec' = [exec EXCEPT ![w] = [pc |-> "work", task |-> t,
                                            retries |-> r]]
        BY <1>8, <2>12 DEF Claim
      <4> QED BY <4>1 DEF TypeOK, Row
    <3>2. Owned(t)'
      BY <2>2, <2>7, <2>10
    <3>3. OwnerInv' /\ HeldInv'
      BY <2>2, <2>3, <2>4, <2>5, <2>7, <3>1, <3>2
    <3> QED BY <2>2, <2>8, <2>9, <3>3 DEF bounds
  <2> QED BY <2>11, <2>12
<1>9. ASSUME NEW w \in Worker, \/ \E made \in BOOLEAN : Check(w, made)
                               \/ SaveSuccess(w) \/ SaveFailure(w)
      PROVE  CalmInv'
  <2>1. UNCHANGED <<queue, call, bounds>>
    BY <1>9 DEF Check, SaveSuccess, SaveFailure
  <2>2. Busy(w) /\ \A v \in Worker : v # w => exec'[v] = exec[v]
    BY <1>9 DEF Check, SaveSuccess, SaveFailure, TypeOK
  <2>2a. /\ exec[w].pc \in AtWork /\ row.status = "running"
         /\ row'.id = row.id
         /\ exec'[w].pc # "idle" => exec'[w].task = exec[w].task
    <3>1. exec[w].pc \in AtWork
      BY <1>9 DEF Check, SaveSuccess, SaveFailure, AtWork
    <3>2. row'.id = row.id
      <4>1. \/ row' = row
            \/ \E s \in {"pending", "success", "failed"} :
                  row' = [row EXCEPT !.status = s, !.fresh = TRUE]
        BY <1>9 DEF Check, SaveSuccess, SaveFailure
      <4> QED BY <4>1 DEF TypeOK, Row
    <3>3. exec'[w].pc # "idle" => exec'[w].task = exec[w].task
      BY <1>9 DEF Check, SaveSuccess, SaveFailure, TypeOK, NoExec
    <3> QED BY <3>1, <3>2, <3>3
  <2>3. \/ row' = row /\ exec'[w].pc # "retry"
        \/ /\ row'.status # "running"
           /\ exec'[w].pc \notin AtWork
           /\ row'.status = "pending" => exec'[w].pc = "retry"
    <3>1. ASSUME NEW made \in BOOLEAN, Check(w, made)
          PROVE  row' = row /\ exec'[w].pc # "retry"
      BY <3>1 DEF Check, TypeOK, NoExec
    <3>2. ASSUME SaveSuccess(w) \/ SaveFailure(w)
          PROVE  /\ row'.status # "running"
                 /\ exec'[w].pc \notin AtWork
                 /\ row'.status = "pending" => exec'[w].pc = "retry"
      <4>1. /\ exec' = [exec EXCEPT ![w] = NoExec]
                \/ exec' = [exec EXCEPT ![w].pc = "retry"]
            /\ \E s \in {"pending", "success", "failed"} :
                  /\ row' = [row EXCEPT !.status = s, !.fresh = TRUE]
                  /\ s = "pending" => exec' = [exec EXCEPT ![w].pc = "retry"]
        BY <3>2 DEF SaveSuccess, SaveFailure
      <4>2. exec'[w].pc \notin AtWork
        BY <4>1 DEF TypeOK, NoExec, AtWork
      <4>3. /\ row'.status # "running"
            /\ row'.status = "pending" =>
                  exec' = [exec EXCEPT ![w].pc = "retry"]
        BY <4>1 DEF TypeOK, Row
      <4> QED BY <4>2, <4>3 DEF TypeOK
    <3> QED BY <1>9, <3>1, <3>2
  <2>4. row.status = "running" => row.fresh
    BY <2>2
  <2>5. OneToken'
    BY <2>1, <2>2
  <2>6. RunningInv'
    BY <2>1, <2>2, <2>3, <2>4
  <2>7. \A v \in Worker : v # w => exec[v].pc = "idle"
    BY <2>2
  <2>8. OwnerInv'
    <3>1. \A u : Owned(u)' <=> Owned(u)
      BY <2>1, <2>2a
    <3>2. \A v \in Worker : exec'[v].pc \in AtWork => row'.status = "running"
      BY <2>2, <2>2a, <2>3, <2>7 DEF AtWork
    <3>3. \A m \in Message : queue'[m] > 0 => Owned(m[1])'
      BY <2>1, <3>1
    <3>4. \A v \in Worker : (Busy(v) => Owned(exec[v].task))'
      <4>1. Owned(exec[w].task)
        BY <2>2
      <4>2. (Busy(w) => Owned(exec[w].task))'
        <5>1. CASE exec'[w].pc = "idle"
          BY <5>1
        <5>2. CASE exec'[w].pc # "idle"
          <6>1. exec'[w].task = exec[w].task
            BY <2>2a, <5>2
          <6> QED BY <6>1, <2>1, <2>2a, <4>1
        <5> QED BY <5>1, <5>2
      <4> QED BY <2>2, <2>7, <4>2
    <3>5. \A x \in Caller : ToEnqueue(x)' \/ call'[x].pc = "sent" =>
             row'.id = NoTask
      BY <2>1, <2>2a
    <3> HIDE DEF Owned, Busy, ToEnqueue
    <3> QED BY <3>2, <3>3, <3>4, <3>5
  <2>9. HeldInv'
    BY <2>1, <2>2a, <2>3
  <2> QED BY <2>1, <2>5, <2>6, <2>8, <2>9 DEF bounds
<1>10. ASSUME NEW w \in Worker, Retry(w)
       PROVE  CalmInv'
  <2>1. PICK m \in Message : m = <<exec[w].task, exec[w].retries + 1>>
    <3>1. exec[w].task \in Task /\ exec[w].retries + 1 \in 0..MaxRetries
      BY <1>10 DEF Retry, TypeOK
    <3> QED BY <3>1, IsMessage
  <2>2. /\ queue' = [queue EXCEPT ![m] = @ + 1]
        /\ exec' = [exec EXCEPT ![w] = NoExec]
        /\ UNCHANGED <<row, call, bounds>>
        /\ Busy(w) /\ row.status # "running"
    BY <1>10, <2>1 DEF Retry
  <2>2a. Owned(m[1])
    BY <2>1, <2>2
  <2>3. /\ \A n \in Message : ~(queue[n] > 0)
        /\ \A c \in Caller : ~ToEnqueue(c)
    BY <2>2
  <2>4. \A n \in Message : queue[n] = 0
    BY <2>3 DEF TypeOK
  <2>5. /\ \A n \in Message : n # m => queue'[n] = 0
        /\ queue'[m] = 1
    BY <2>1, <2>2, <2>4, FirstMessage DEF TypeOK
  <2>6. \A v \in Worker : exec'[v].pc = "idle"
    BY <2>2 DEF TypeOK, NoExec
  <2>7. OneToken'
    BY <2>1, <2>2, <2>3, <2>5, <2>6
  <2>8. OwnerInv'
    <3>1. \A n \in Message : queue'[n] > 0 => n = m
      BY <2>5
    <3>2. Owned(m[1])'
      BY <2>2, <2>2a
    <3>3. \A x \in Caller : ToEnqueue(x)' \/ call'[x].pc = "sent" =>
             row'.id = NoTask
      BY <2>2
    <3> HIDE DEF Owned, ToEnqueue
    <3> QED BY <2>6, <3>1, <3>2, <3>3 DEF AtWork
  <2>9. HeldInv'
    BY <2>1, <2>5
  <2> QED BY <2>2, <2>6, <2>7, <2>8, <2>9 DEF bounds
<1>11. ASSUME NEW w \in Worker, RetryLost(w) \/ TaskDies(w)
       PROVE  CalmInv'
  <2>1. \A v \in Worker : exec'[v].pc = "idle" \/ exec'[v] = exec[v]
    BY <1>11 DEF RetryLost, TaskDies, TypeOK, NoExec
  <2>2. /\ faultsLeft'.doubled = 0 /\ faultsLeft'.lost <= faultsLeft.lost
        /\ faultsLeft'.lost \in Nat /\ faultsLeft.lost \in Nat
        /\ RetryLost(w) => faultsLeft.lost > 0
    BY <1>11, SpendType DEF RetryLost, TaskDies, TypeOK, Budget
  <2>3. UNCHANGED <<row, queue, call, asksLeft, editsLeft>>
    BY <1>11 DEF RetryLost, TaskDies
  <2>4. MaxFaults.lost \in Nat
    BY DEF Budget
  <2>5. TaskDies(w) => row.status = "running"
    BY DEF TaskDies
  <2>6. HeldInv'
    BY <1>11, <2>2, <2>3, <2>4, <2>5
  <2>7. OneToken' /\ RunningInv' /\ OwnerInv'
    BY <2>1, <2>3 DEF AtWork
  <2> QED BY <2>2, <2>3, <2>4, <2>6, <2>7
<1>12. ASSUME GrowStale
       PROVE  CalmInv'
  <2>1. /\ row.status = "running"
        /\ \A w \in Worker : exec[w].pc \notin AtWork
        /\ \A c \in Caller : call[c].pc = "idle"
        /\ UNCHANGED <<queue, exec, call, asksLeft, editsLeft, faultsLeft>>
    BY <1>12 DEF GrowStale
  <2>2. \A w \in Worker : exec[w].pc = "idle"
    BY <2>1 DEF TypeOK, AtWork
  <2>3. row'.status = "running" /\ row'.id = row.id
    BY <1>12 DEF GrowStale, TypeOK, Row
  <2> QED BY <2>1, <2>2, <2>3
<1>13. ASSUME UNCHANGED vars
       PROVE  CalmInv'
  BY <1>13 DEF vars
<1> HIDE DEF CalmInv
<1> QED BY <1>1, <1>2, <1>3, <1>4, <1>5, <1>6, <1>7, <1>8, <1>9, <1>10, <1>11,
           <1>12, <1>13 DEF Next, CallStep, TaskStep

\* In calm conditions the right to make the diagnosis is always in one place,
\* the row belongs to the task that has it, and unless messages get lost a
\* pending run has it somewhere: for any number of workers, retries, killed
\* workers and refused messages.
\* Code: enqueue_diagnosis_run, the claim and recover_stale_diagnosis_runs.
THEOREM CalmAlways == ASSUME Calm PROVE Spec => []CalmInv
<1>1. Init => CalmInv
  <2> SUFFICES ASSUME Init
               PROVE  CalmInv
    OBVIOUS
  <2>1. /\ \A w \in Worker : exec[w].pc = "idle"
        /\ \A m \in Message : queue[m] = 0
        /\ row.status = "pending" /\ row.id = NoTask
        /\ \A c \in Caller : call[c].pc \in {"idle", "enqueue"}
        /\ \E c \in Caller : call[c].pc = "enqueue"
        /\ asksLeft = 0 /\ editsLeft = 0 /\ faultsLeft.doubled = 0
        /\ faultsLeft.lost <= MaxFaults.lost
    BY DEF Init, NoExec, NoCall, New, Calm, Budget
  <2>2. OneToken /\ RunningInv
    BY <2>1 DEF OneToken, RunningInv, Busy, ToEnqueue
  <2>3. OwnerInv /\ HeldInv
    BY <2>1 DEF OwnerInv, HeldInv, Busy, ToEnqueue, AtWork
  <2> QED BY <2>1, <2>2, <2>3 DEF CalmInv
<1>2. TypeOK /\ CalmInv /\ [Next]_vars => CalmInv'
  BY CalmInductive
<1> QED BY <1>1, <1>2, TypeCorrect, PTL DEF Spec

\* Hence no two tasks ever make the diagnosis at the same time, even when
\* messages get lost: what the claim and the sweep's filter are for.
THEOREM OneAtWork == ASSUME Calm PROVE Spec => []SingleWork
<1>1. CalmInv => SingleWork
  BY DEF CalmInv, OneToken, SingleWork, Busy, AtWork
<1> QED BY <1>1, CalmAlways, PTL

\* And when none gets lost, a pending run always has a caller about to
\* enqueue it or a message that the claim will accept, however many workers
\* are killed and however often the diagnosis fails: the sweep, which looks
\* at running rows only, leaves no gap.
\* Code: enqueue_diagnosis_run, the claim and recover_stale_diagnosis_runs.
THEOREM NotForgotten ==
    ASSUME Calm, MaxFaults.lost = 0
    PROVE  Spec => []WorkIsHeld
<1>1. CalmInv => PendingIsQueued
  BY DEF CalmInv, OwnerInv, HeldInv, PendingIsQueued, Owned, Accepted, Busy,
         ToEnqueue
<1> QED BY <1>1, OneAtWork, CalmAlways, PTL DEF WorkIsHeld
=============================================================================
