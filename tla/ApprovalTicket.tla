--------------------------- MODULE ApprovalTicket ---------------------------
(***************************************************************************)
(* The approval centre (apps/approval_center): an intercepted request is   *)
(* kept as a ticket, an approver lets it through and the approve handler   *)
(* replays it, or it is rejected or expires.  Handlers run in parallel;    *)
(* a step here is one statement or one committed transaction.              *)
(***************************************************************************)
EXTENDS Integers, FiniteSets

CONSTANTS
    Ticket,      \* ids of the tickets that may be created (a bound)
    Request,     \* request fingerprints
    Submitter,   \* HTTP handlers whose request hits a policy
    Approver,    \* HTTP handlers of approve
    MaxFaults    \* bound: approve handlers lost to a crash

CONSTANTS NoTicket, NoRequest, NoHandler

ASSUME TicketAssumption ==
    /\ NoTicket \notin Ticket /\ NoRequest \notin Request
    /\ NoHandler \notin Approver
    /\ MaxFaults \in Nat

VARIABLES
    ticket,      \* ApprovalTicket rows: status, fingerprint, expires_at <= now
    lock,        \* row locks of select_for_update
    submit,      \* per submitter: where intercept_if_needed is
    answer,      \* per approver: where approve is, its ticket, the outcome
    faultsLeft,
    ran          \* history: successful executions of each ticket's request

vars == <<ticket, lock, submit, answer, faultsLeft, ran>>

Status == {"absent", "pending", "approved", "rejected", "canceled",
           "finished", "failed"}
Active == {"pending", "approved"}

Row    == [status : Status, request : Request \cup {NoRequest},
           expired : BOOLEAN]
NoRow  == [status |-> "absent", request |-> NoRequest, expired |-> FALSE]
AtRest == [pc |-> "idle", request |-> NoRequest]
NoneAnswered == [pc |-> "idle", ticket |-> NoTicket, outcome |-> "failed"]

ActiveFor(r) ==
    {t \in Ticket : ticket[t].request = r /\ ticket[t].status \in Active}

\* A batch UPDATE waits for the row locks of the rows it matches.
Overdue(t) == ticket[t].status = "pending" /\ ticket[t].expired
Sweep(T) ==
    /\ \A t \in T : lock[t] = NoHandler
    /\ ticket' = [t \in Ticket |->
                    IF t \in T THEN [ticket[t] EXCEPT !.status = "canceled"]
                    ELSE ticket[t]]

Init ==
    /\ ticket = [t \in Ticket |-> NoRow]
    /\ lock = [t \in Ticket |-> NoHandler]
    /\ submit = [s \in Submitter |-> AtRest]
    /\ answer = [a \in Approver |-> NoneAnswered]
    /\ faultsLeft = MaxFaults
    /\ ran = [t \in Ticket |-> 0]

-----------------------------------------------------------------------------
(* ProxyApprovalEngine.intercept_if_needed, for a request that a policy    *)
(* matches.                                                                *)

\* The expired tickets of the same request are cancelled.
InterceptSweep(s, r) ==
    /\ submit[s].pc = "idle"
    /\ Sweep({t \in Ticket : ticket[t].request = r /\ Overdue(t)})
    /\ submit' = [submit EXCEPT ![s] = [pc |-> "find", request |-> r]]
    /\ UNCHANGED <<lock, answer, faultsLeft, ran>>

\* get_or_create: a pending ticket of the request is reported as duplicate.
InterceptFind(s) ==
    /\ submit[s].pc = "find"
    /\ submit' = [submit EXCEPT
                    ![s] = IF \E t \in Ticket :
                                /\ ticket[t].request = submit[s].request
                                /\ ticket[t].status = "pending"
                           THEN AtRest ELSE [@ EXCEPT !.pc = "insert"]]
    /\ UNCHANGED <<ticket, lock, answer, faultsLeft, ran>>

\* Otherwise one is inserted, unless uniq_active_approval_fingerprint refuses
\* it; the refusal ends in a duplicate or a 409 response.
InterceptInsertFree(s) ==    \* variant: without the unique constraint
    /\ submit[s].pc = "insert"
    /\ \E t \in Ticket :
          /\ ticket[t].status = "absent"
          /\ ticket' = [ticket EXCEPT
                          ![t] = [status |-> "pending", expired |-> FALSE,
                                  request |-> submit[s].request]]
    /\ submit' = [submit EXCEPT ![s] = AtRest]
    /\ UNCHANGED <<lock, answer, faultsLeft, ran>>
InterceptInsert(s) ==
    /\ submit[s].pc = "insert"
    /\ \/ /\ ActiveFor(submit[s].request) = {}
          /\ \E t \in Ticket :
                /\ ticket[t].status = "absent"
                /\ ticket' = [ticket EXCEPT
                                ![t] = [status |-> "pending", expired |-> FALSE,
                                        request |-> submit[s].request]]
       \/ ActiveFor(submit[s].request) # {} /\ UNCHANGED ticket
    /\ submit' = [submit EXCEPT ![s] = AtRest]
    /\ UNCHANGED <<lock, answer, faultsLeft, ran>>

-----------------------------------------------------------------------------
(* ApprovalTicketViewSet.approve and .reject                               *)

\* The row is locked and read; a pending or failed ticket that has not
\* expired, and whose request has no other active ticket, may be approved.
ApproveUnlocked(a, t) ==       \* variant: the row is read without its lock
    /\ answer[a].pc = "idle"
    /\ ticket[t].status \in {"pending", "failed"} /\ ~ticket[t].expired
    /\ ActiveFor(ticket[t].request) \subseteq {t}
    /\ answer' = [answer EXCEPT ![a] = [NoneAnswered EXCEPT !.pc = "checked",
                                                            !.ticket = t]]
    /\ UNCHANGED <<ticket, lock, submit, faultsLeft, ran>>
ApproveCheck(a, t) ==
    /\ answer[a].pc = "idle" /\ lock[t] = NoHandler
    /\ ticket[t].status \in {"pending", "failed"} /\ ~ticket[t].expired
    /\ ActiveFor(ticket[t].request) \subseteq {t}
    /\ lock' = [lock EXCEPT ![t] = a]
    /\ answer' = [answer EXCEPT ![a] = [NoneAnswered EXCEPT !.pc = "checked",
                                                            !.ticket = t]]
    /\ UNCHANGED <<ticket, submit, faultsLeft, ran>>

\* An expired one is cancelled instead.
ApproveExpired(a, t) ==
    /\ answer[a].pc = "idle" /\ lock[t] = NoHandler
    /\ ticket[t].status \in {"pending", "failed"} /\ ticket[t].expired
    /\ ticket' = [ticket EXCEPT ![t].status = "canceled"]
    /\ UNCHANGED <<lock, submit, answer, faultsLeft, ran>>

\* 'approved' is saved and committed; the unique constraint refuses it when
\* another ticket of the request has become active since the check.
ApproveCommit(a) ==
    LET t == answer[a].ticket
    IN  /\ answer[a].pc = "checked"
        /\ lock' = [lock EXCEPT ![t] = NoHandler]
        /\ \/ /\ ActiveFor(ticket[t].request) \subseteq {t}
              /\ ticket' = [ticket EXCEPT ![t].status = "approved"]
              /\ answer' = [answer EXCEPT ![a].pc = "resume"]
           \/ /\ ~ (ActiveFor(ticket[t].request) \subseteq {t})
              /\ answer' = [answer EXCEPT ![a] = NoneAnswered]
              /\ UNCHANGED ticket
        /\ UNCHANGED <<submit, faultsLeft, ran>>

\* resume_execution: the intercepted view is called on the submitter's behalf.
ResumeRun(a, outcome) ==
    /\ answer[a].pc = "resume"
    /\ ran' = [ran EXCEPT ![answer[a].ticket] =
                  @ + (IF outcome = "finished" THEN 1 ELSE 0)]
    /\ answer' = [answer EXCEPT ![a].pc = "ran", ![a].outcome = outcome]
    /\ UNCHANGED <<ticket, lock, submit, faultsLeft>>

\* resume_execution: the ticket is saved with the outcome.
ResumeSaveLost(a) ==          \* variant: the outcome is not saved
    /\ answer[a].pc = "ran"
    /\ answer' = [answer EXCEPT ![a] = NoneAnswered]
    /\ UNCHANGED <<ticket, lock, submit, faultsLeft, ran>>
ResumeSave(a) ==
    /\ answer[a].pc = "ran"
    /\ ticket' = [ticket EXCEPT ![answer[a].ticket].status = answer[a].outcome]
    /\ answer' = [answer EXCEPT ![a] = NoneAnswered]
    /\ UNCHANGED <<lock, submit, faultsLeft, ran>>

\* The handler dies: an open transaction is rolled back, a committed
\* 'approved' stays.
ApproverDies(a) ==
    /\ answer[a].pc # "idle" /\ faultsLeft > 0
    /\ faultsLeft' = faultsLeft - 1
    /\ lock' = [t \in Ticket |-> IF lock[t] = a THEN NoHandler ELSE lock[t]]
    /\ answer' = [answer EXCEPT ![a] = NoneAnswered]
    /\ UNCHANGED <<ticket, submit, ran>>

\* reject holds the lock from its check to its save, without other steps.
RejectAnyOpen(t) ==           \* variant: an approved ticket can be rejected
    /\ lock[t] = NoHandler /\ ticket[t].status \in Active
    /\ ticket' = [ticket EXCEPT ![t].status = "rejected"]
    /\ UNCHANGED <<lock, submit, answer, faultsLeft, ran>>
Reject(t) ==
    /\ lock[t] = NoHandler /\ ticket[t].status = "pending"
    /\ ticket' = [ticket EXCEPT ![t].status = "rejected"]
    /\ UNCHANGED <<lock, submit, answer, faultsLeft, ran>>

-----------------------------------------------------------------------------
(* Time and the periodic task.                                             *)

\* expires_at passes.
Elapse(t) ==
    /\ ticket[t].status # "absent" /\ ~ticket[t].expired
    /\ ticket' = [ticket EXCEPT ![t].expired = TRUE]
    /\ UNCHANGED <<lock, submit, answer, faultsLeft, ran>>

\* expire_approval_tickets
ExpireTickets ==
    /\ \E t \in Ticket : Overdue(t)
    /\ Sweep({t \in Ticket : Overdue(t)})
    /\ UNCHANGED <<lock, submit, answer, faultsLeft, ran>>

SubmitStep(s) == InterceptFind(s) \/ InterceptInsert(s)

ApproveStep(a) ==
    \/ ApproveCommit(a) \/ ResumeSave(a)
    \/ \E outcome \in {"finished", "failed"} : ResumeRun(a, outcome)

Next ==
    \/ \E s \in Submitter :
          SubmitStep(s) \/ \E r \in Request : InterceptSweep(s, r)
    \/ \E a \in Approver :
          \/ ApproveStep(a) \/ ApproverDies(a)
          \/ \E t \in Ticket : ApproveCheck(a, t) \/ ApproveExpired(a, t)
    \/ \E t \in Ticket : Reject(t) \/ Elapse(t)
    \/ ExpireTickets

Spec == Init /\ [][Next]_vars

\* Handlers that have started go on, time passes and the beat keeps running
\* expire_approval_tickets; nobody owes an approval or a rejection.
Fairness ==
    /\ \A s \in Submitter : WF_vars(SubmitStep(s))
    /\ \A a \in Approver : WF_vars(ApproveStep(a))
    /\ \A t \in Ticket : WF_vars(Elapse(t))
    /\ WF_vars(ExpireTickets)

FairSpec == Spec /\ Fairness

-----------------------------------------------------------------------------
(* Properties.                                                             *)

Submission == [pc : {"idle", "find", "insert"},
               request : Request \cup {NoRequest}]
Answer == [pc : {"idle", "checked", "resume", "ran"},
           ticket : Ticket \cup {NoTicket}, outcome : {"finished", "failed"}]

TypeOK ==
    /\ ticket \in [Ticket -> Row]
    /\ lock \in [Ticket -> Approver \cup {NoHandler}]
    /\ submit \in [Submitter -> Submission]
    /\ \A s \in Submitter :
          submit[s].pc # "idle" => submit[s].request \in Request
    /\ answer \in [Approver -> Answer]
    /\ \A a \in Approver : answer[a].pc # "idle" => answer[a].ticket \in Ticket
    /\ faultsLeft \in 0..MaxFaults
    /\ ran \in [Ticket -> Nat]

\* A request has at most one ticket that is open or being executed, whatever
\* handlers race for it.  Code: the duplicate checks of intercept_if_needed
\* and approve, and uniq_active_approval_fingerprint behind them.
OneActive ==
    \A t, u \in Ticket :
        /\ ticket[t].status \in Active /\ ticket[u].status \in Active
        /\ ticket[t].request = ticket[u].request
        => t = u

Executing(a) == answer[a].pc \in {"resume", "ran"}

\* A request is never executed by two approvers at once, not even through
\* two of its tickets.  Code: the claim of approve before resume_execution.
NoOverlap ==
    \A a, b \in Approver :
        /\ Executing(a) /\ Executing(b)
        /\ ticket[answer[a].ticket].request = ticket[answer[b].ticket].request
        => a = b

\* An approval lets its request succeed once, however often it is retried,
\* and a ticket that was closed without it never executes.
\* Code: approve's status check under the lock, resume_execution's save.
SucceedsOnce ==
    \A t \in Ticket :
        /\ ran[t] <= 1
        /\ ran[t] = 1 => ticket[t].status \in {"approved", "finished"}

\* No pending ticket outlives its deadline, and one being executed ends,
\* unless a handler crashes.  Code: expire_approval_tickets on the beat,
\* the save at the end of every replay in resume_execution.
TicketsEnd ==
    \A t \in Ticket :
        [](ticket[t].status \in Active =>
              <>(\/ ticket[t].status \notin Active
                 \/ faultsLeft < MaxFaults))

-----------------------------------------------------------------------------
(* The inductive invariant.                                                *)

\* A checked ticket is locked by its approver; a claimed one is 'approved',
\* by one approver only, who knows whether its request has succeeded.
Claims ==
    /\ \A a \in Approver : answer[a].pc = "checked" =>
          /\ lock[answer[a].ticket] = a
          /\ ticket[answer[a].ticket].status \in {"pending", "failed"}
    /\ \A a \in Approver : Executing(a) =>
          /\ ticket[answer[a].ticket].status = "approved"
          /\ ran[answer[a].ticket] =
                IF answer[a].pc = "ran" /\ answer[a].outcome = "finished"
                THEN 1 ELSE 0
    /\ \A a, b \in Approver :
          /\ Executing(a) /\ Executing(b)
          /\ answer[a].ticket = answer[b].ticket
          => a = b

\* Code: the row lock and the partial unique constraint.
IndInv == OneActive /\ Claims /\ SucceedsOnce
=============================================================================
