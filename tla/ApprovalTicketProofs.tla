------------------------ MODULE ApprovalTicketProofs ------------------------
(* Proofs about ApprovalTicket for any number of tickets and handlers.     *)
EXTENDS ApprovalTicket, TLAPS

\* Replacing one row by a well-formed one.
LEMMA TicketEdit ==
    ASSUME ticket \in [Ticket -> Row], NEW t \in Ticket, NEW row \in Row,
           ticket' = [ticket EXCEPT ![t] = row]
    PROVE  ticket' \in [Ticket -> Row]
OBVIOUS

\* Replacing one approver's answer by a well-formed one.
LEMMA AnswerEdit ==
    ASSUME answer \in [Approver -> Answer],
           \A b \in Approver : answer[b].pc # "idle" =>
                                answer[b].ticket \in Ticket,
           NEW a \in Approver, NEW x \in Answer,
           x.pc # "idle" => x.ticket \in Ticket,
           answer' = [answer EXCEPT ![a] = x]
    PROVE  /\ answer' \in [Approver -> Answer]
           /\ \A b \in Approver : answer'[b].pc # "idle" =>
                                   answer'[b].ticket \in Ticket
<1>1. answer' \in [Approver -> Answer]
  OBVIOUS
<1>2. ASSUME NEW b \in Approver, answer'[b].pc # "idle"
      PROVE  answer'[b].ticket \in Ticket
  <2>1. CASE b = a
    BY <1>2, <2>1
  <2>2. CASE b # a
    BY <1>2, <2>2
  <2> QED BY <2>1, <2>2
<1> QED BY <1>1, <1>2

\* What the handlers write into a row or a handler's state is well typed.
LEMMA RowType ==
    ASSUME NEW row \in Row, NEW st \in Status, NEW r \in Request
    PROVE  /\ [row EXCEPT !.status = st] \in Row
           /\ [row EXCEPT !.expired = TRUE] \in Row
           /\ [status |-> st, expired |-> FALSE, request |-> r] \in Row
BY DEF Row

\* Handlers at rest have their types.
LEMMA RestType ==
    /\ NoneAnswered \in Answer /\ NoneAnswered.pc = "idle"
    /\ AtRest \in Submission /\ AtRest.pc = "idle"
BY DEF Answer, NoneAnswered, Submission, AtRest

\* An approve handler that checked a ticket holds it.
LEMMA CheckedType ==
    ASSUME NEW t \in Ticket
    PROVE  /\ [NoneAnswered EXCEPT !.pc = "checked", !.ticket = t] \in Answer
           /\ [NoneAnswered EXCEPT !.pc = "checked", !.ticket = t].ticket = t
BY DEF Answer, NoneAnswered

\* It keeps the ticket while it replays the request.
LEMMA ResumeType ==
    ASSUME NEW h \in Answer, NEW o \in {"finished", "failed"}
    PROVE  /\ [h EXCEPT !.pc = "resume"] \in Answer
           /\ [h EXCEPT !.pc = "resume"].ticket = h.ticket
           /\ [h EXCEPT !.pc = "ran", !.outcome = o] \in Answer
           /\ [h EXCEPT !.pc = "ran", !.outcome = o].ticket = h.ticket
BY DEF Answer

\* A sweep keeps the rows' types.
LEMMA SweepType ==
    ASSUME TypeOK, NEW T \in SUBSET Ticket, Sweep(T)
    PROVE  ticket' \in [Ticket -> Row]
<1> DEFINE swept(t) == IF t \in T THEN [ticket[t] EXCEPT !.status = "canceled"]
                       ELSE ticket[t]
<1>1. \A t \in Ticket : swept(t) \in Row
  BY DEF TypeOK, Row, Status
<1>2. ticket' = [t \in Ticket |-> swept(t)]
  BY DEF Sweep
<1>3. \A t \in Ticket : ticket'[t] \in Row
  BY <1>1, <1>2
<1>4. ticket' = [t \in Ticket |-> ticket'[t]]
  BY <1>2
<1> QED BY <1>3, <1>4

\* Every value stays in its type.
THEOREM TypeCorrect == Spec => []TypeOK
<1> USE TicketAssumption
<1>1. Init => TypeOK
  BY RestType DEF Init, TypeOK, NoRow, Row, Status
<1>2. TypeOK /\ [Next]_vars => TypeOK'
  <2> SUFFICES ASSUME TypeOK, [Next]_vars PROVE TypeOK'
    OBVIOUS
  <2> USE DEF TypeOK
  <2>1. ASSUME NEW s \in Submitter, NEW r \in Request, InterceptSweep(s, r)
        PROVE  TypeOK'
    <3>1. ticket' \in [Ticket -> Row]
      BY <2>1, SweepType DEF InterceptSweep
    <3>2. [pc |-> "find", request |-> r] \in Submission
      BY DEF Submission
    <3> QED BY <2>1, <3>1, <3>2 DEF InterceptSweep
  <2>2. ASSUME NEW s \in Submitter, InterceptFind(s)
        PROVE  TypeOK'
    <3> DEFINE next == [submit[s] EXCEPT !.pc = "insert"]
    <3>1. /\ next \in Submission /\ next.request \in Request
          /\ AtRest \in Submission /\ AtRest.pc = "idle"
      BY <2>2 DEF InterceptFind, Submission, AtRest
    <3>2. \/ submit' = [submit EXCEPT ![s] = AtRest]
          \/ submit' = [submit EXCEPT ![s] = next]
      BY <2>2 DEF InterceptFind
    <3> HIDE DEF next
    <3> QED BY <2>2, <3>1, <3>2 DEF InterceptFind
  <2>3. ASSUME NEW s \in Submitter, InterceptInsert(s)
        PROVE  TypeOK'
    <3>1. submit[s].request \in Request
      BY <2>3 DEF InterceptInsert
    <3>2. \/ ticket' = ticket
          \/ \E t \in Ticket :
                ticket' = [ticket EXCEPT ![t] =
                             [status |-> "pending", expired |-> FALSE,
                              request |-> submit[s].request]]
      BY <2>3 DEF InterceptInsert
    <3>2a. ticket' \in [Ticket -> Row]
      <4>1. ASSUME NEW t \in Ticket
            PROVE  [status |-> "pending", expired |-> FALSE,
                    request |-> submit[s].request] \in Row
        BY <3>1 DEF Row, Status
      <4> QED BY <3>2, <4>1
    <3>3. AtRest \in Submission /\ AtRest.pc = "idle"
      BY DEF AtRest, Submission
    <3> QED BY <2>3, <3>2a, <3>3 DEF InterceptInsert
  <2>4. ASSUME NEW a \in Approver, NEW t \in Ticket, ApproveCheck(a, t)
        PROVE  TypeOK'
    BY <2>4, CheckedType DEF ApproveCheck
  <2>5. ASSUME NEW a \in Approver, NEW t \in Ticket, ApproveExpired(a, t)
        PROVE  TypeOK'
    <3>1. [ticket[t] EXCEPT !.status = "canceled"] \in Row
      BY DEF Row, Status
    <3> QED BY <2>5, <3>1 DEF ApproveExpired
  <2>6. ASSUME NEW a \in Approver, ApproveCommit(a)
        PROVE  TypeOK'
    <3> DEFINE t == answer[a].ticket
    <3>1. t \in Ticket
      BY <2>6 DEF ApproveCommit
    <3>2. [ticket[t] EXCEPT !.status = "approved"] \in Row
      BY <3>1 DEF Row, Status
    <3>3. ticket' \in [Ticket -> Row]
      BY <2>6, <3>1, <3>2 DEF ApproveCommit
    <3>4. /\ answer' \in [Approver -> Answer]
          /\ \A b \in Approver : answer'[b].pc # "idle" =>
                                 answer'[b].ticket \in Ticket
      <4>1. answer[a] \in Answer
        OBVIOUS
      <4>2. \/ answer' = [answer EXCEPT ![a] = NoneAnswered]
            \/ answer' = [answer EXCEPT
                            ![a] = [answer[a] EXCEPT !.pc = "resume"]]
        BY <2>6 DEF ApproveCommit
      <4>3. /\ NoneAnswered \in Answer /\ NoneAnswered.pc = "idle"
            /\ [answer[a] EXCEPT !.pc = "resume"] \in Answer
            /\ [answer[a] EXCEPT !.pc = "resume"].ticket \in Ticket
        BY <3>1, <4>1, RestType, ResumeType DEF Answer
      <4> QED BY <4>2, <4>3, AnswerEdit
    <3> QED BY <2>6, <3>1, <3>3, <3>4 DEF ApproveCommit
  <2>7. ASSUME NEW a \in Approver, NEW o \in {"finished", "failed"},
               ResumeRun(a, o)
        PROVE  TypeOK'
    <3>1. answer[a].ticket \in Ticket
      BY <2>7 DEF ResumeRun
    <3>2. answer' = [answer EXCEPT
                       ![a] = [answer[a] EXCEPT !.pc = "ran", !.outcome = o]]
      BY <2>7 DEF ResumeRun, Answer
    <3>3. ran' \in [Ticket -> Nat]
      BY <2>7, <3>1 DEF ResumeRun
    <3>4. /\ answer' \in [Approver -> Answer]
          /\ \A b \in Approver : answer'[b].pc # "idle" =>
                                 answer'[b].ticket \in Ticket
      <4>1. answer[a] \in Answer
        OBVIOUS
      <4>2. /\ [answer[a] EXCEPT !.pc = "ran", !.outcome = o] \in Answer
            /\ [answer[a] EXCEPT !.pc = "ran", !.outcome = o].ticket \in Ticket
        BY <3>1, <4>1 DEF Answer
      <4> QED BY <3>2, <4>2, AnswerEdit
    <3> QED BY <2>7, <3>3, <3>4 DEF ResumeRun
  <2>8. ASSUME NEW a \in Approver, ResumeSave(a)
        PROVE  TypeOK'
    <3>1. answer[a].ticket \in Ticket /\ answer[a].outcome \in Status
      BY <2>8 DEF ResumeSave, Answer, Status
    <3>2. [ticket[answer[a].ticket] EXCEPT !.status = answer[a].outcome] \in Row
      BY <3>1 DEF Row
    <3> QED BY <2>8, <3>1, <3>2, RestType DEF ResumeSave
  <2>9. ASSUME NEW a \in Approver, ApproverDies(a)
        PROVE  TypeOK'
    BY <2>9, RestType DEF ApproverDies
  <2>10. ASSUME NEW t \in Ticket, Reject(t) \/ Elapse(t)
         PROVE  TypeOK'
    <3>1. ticket[t] \in Row /\ "rejected" \in Status
      BY DEF Status
    <3>2. /\ [ticket[t] EXCEPT !.status = "rejected"] \in Row
          /\ [ticket[t] EXCEPT !.expired = TRUE] \in Row
      BY <3>1 DEF Row
    <3>3. /\ \/ ticket' = [ticket EXCEPT ![t] =
                               [ticket[t] EXCEPT !.status = "rejected"]]
             \/ ticket' = [ticket EXCEPT ![t] =
                               [ticket[t] EXCEPT !.expired = TRUE]]
          /\ UNCHANGED <<lock, submit, answer, faultsLeft, ran>>
      BY <2>10 DEF Reject, Elapse
    <3>4. ticket' \in [Ticket -> Row]
      BY <3>2, <3>3, TicketEdit
    <3> QED BY <3>3, <3>4
  <2>11. CASE ExpireTickets
    BY <2>11, SweepType DEF ExpireTickets
  <2>12. CASE UNCHANGED vars
    BY <2>12 DEF vars
  <2> HIDE DEF TypeOK
  <2> QED BY <2>1, <2>2, <2>3, <2>4, <2>5, <2>6, <2>7, <2>8, <2>9, <2>10,
             <2>11, <2>12 DEF Next, SubmitStep, ApproveStep
<1> QED BY <1>1, <1>2, PTL DEF Spec

-----------------------------------------------------------------------------
(* The invariant.                                                          *)

\* Closing tickets that nobody has locked or claimed keeps the invariant:
\* all the handlers but approve and the insertion do no more.
LEMMA Closing ==
    ASSUME TypeOK, IndInv, UNCHANGED <<lock, answer, ran>>,
           \A t \in Ticket :
              /\ ticket'[t].request = ticket[t].request
              /\ \/ ticket'[t].status = ticket[t].status
                 \/ /\ lock[t] = NoHandler
                    /\ ticket[t].status \in {"pending", "failed"}
                    /\ ticket'[t].status \in {"canceled", "rejected"}
    PROVE  IndInv'
<1> USE TicketAssumption
<1>1. OneActive'
  BY DEF IndInv, OneActive, Active
<1>2. Claims'
  <2>1. \A a \in Approver : answer[a].pc # "idle" => answer[a].ticket \in Ticket
    BY DEF TypeOK
  <2> QED BY <2>1 DEF IndInv, Claims, Executing
<1>3. SucceedsOnce'
  BY DEF IndInv, SucceedsOnce
<1> QED BY <1>1, <1>2, <1>3 DEF IndInv

\* A sweep only closes pending tickets, which disturbs no claim.
LEMMA SweepCloses ==
    ASSUME TypeOK, IndInv, UNCHANGED <<lock, answer, ran>>,
           NEW T \in SUBSET Ticket, Sweep(T),
           \A t \in T : ticket[t].status = "pending"
    PROVE  IndInv'
<1>1. ASSUME NEW t \in Ticket
      PROVE  /\ ticket'[t].request = ticket[t].request
             /\ \/ ticket'[t].status = ticket[t].status
                \/ /\ lock[t] = NoHandler
                   /\ ticket[t].status \in {"pending", "failed"}
                   /\ ticket'[t].status \in {"canceled", "rejected"}
  <2>1. ticket[t] \in Row
    BY DEF TypeOK
  <2>2. CASE t \in T
    <3>1. ticket'[t] = [ticket[t] EXCEPT !.status = "canceled"]
      BY <2>2 DEF Sweep
    <3> QED BY <2>1, <2>2, <3>1 DEF Sweep, Row
  <2>3. CASE t \notin T
    BY <2>3 DEF Sweep
  <2> QED BY <2>2, <2>3
<1> QED BY <1>1, Closing

\* Every step keeps the invariant.
LEMMA StepKeeps ==
    ASSUME TypeOK, IndInv, [Next]_vars
    PROVE  IndInv'
<1> USE TicketAssumption
<1>0. \A a \in Approver : answer[a].pc # "idle" => answer[a].ticket \in Ticket
  BY DEF TypeOK
<1>1. ASSUME NEW s \in Submitter, NEW r \in Request, InterceptSweep(s, r)
      PROVE  IndInv'
  BY <1>1, SweepCloses DEF InterceptSweep, Overdue
<1>2. ASSUME NEW s \in Submitter, InterceptFind(s)
      PROVE  IndInv'
  BY <1>2, Closing DEF InterceptFind
<1>3. ASSUME NEW s \in Submitter, InterceptInsert(s)
      PROVE  IndInv'
  <2>1. UNCHANGED <<lock, answer, ran>>
    BY <1>3 DEF InterceptInsert
  <2>2. CASE UNCHANGED ticket
    BY <2>1, <2>2, Closing
  <2>3. CASE ~UNCHANGED ticket
    <3> DEFINE r == submit[s].request
    <3>1. PICK t \in Ticket :
             /\ ActiveFor(r) = {} /\ ticket[t].status = "absent"
             /\ ticket' = [ticket EXCEPT
                             ![t] = [status |-> "pending", expired |-> FALSE,
                                     request |-> r]]
      BY <1>3, <2>3 DEF InterceptInsert
    <3>2. /\ \A u \in Ticket \ {t} : ticket'[u] = ticket[u]
          /\ ticket'[t].status = "pending" /\ ticket'[t].request = r
      BY <3>1 DEF TypeOK
    <3>3. OneActive'
      BY <3>1, <3>2 DEF IndInv, OneActive, ActiveFor, Active
    <3>4. Claims'
      BY <1>0, <2>1, <3>1, <3>2 DEF IndInv, Claims, Executing
    <3>5. SucceedsOnce'
      BY <2>1, <3>1, <3>2 DEF IndInv, SucceedsOnce
    <3> QED BY <3>3, <3>4, <3>5 DEF IndInv
  <2> QED BY <2>2, <2>3
<1>4. ASSUME NEW a \in Approver, NEW t \in Ticket, ApproveCheck(a, t)
      PROVE  IndInv'
  <2>1. /\ UNCHANGED <<ticket, ran>>
        /\ \A b \in Approver \ {a} : answer'[b] = answer[b]
        /\ answer'[a].pc = "checked" /\ answer'[a].ticket = t
    BY <1>4, CheckedType DEF ApproveCheck, TypeOK, NoneAnswered
  <2>2. /\ lock[t] = NoHandler /\ lock' = [lock EXCEPT ![t] = a]
        /\ ticket[t].status \in {"pending", "failed"}
    BY <1>4 DEF ApproveCheck
  <2>3. Claims'
    BY <1>0, <2>1, <2>2 DEF IndInv, Claims, Executing, TypeOK
  <2> QED BY <2>1, <2>3 DEF IndInv, OneActive, SucceedsOnce
<1>5. ASSUME NEW a \in Approver, NEW t \in Ticket, ApproveExpired(a, t)
      PROVE  IndInv'
  BY <1>5, Closing DEF ApproveExpired, TypeOK, Row
<1>6. ASSUME NEW a \in Approver, ApproveCommit(a)
      PROVE  IndInv'
  <2> DEFINE t == answer[a].ticket
  <2>1. /\ answer[a].pc = "checked" /\ t \in Ticket /\ ran' = ran
        /\ lock' = [lock EXCEPT ![t] = NoHandler]
    BY <1>0, <1>6 DEF ApproveCommit
  <2>2. lock[t] = a /\ ticket[t].status \in {"pending", "failed"}
    BY <2>1 DEF IndInv, Claims
  <2>3. \A b \in Approver \ {a} :
           answer[b].pc # "idle" => answer[b].ticket # t
    BY <2>1, <2>2 DEF IndInv, Claims, Executing, TypeOK, Answer
  <2>4. CASE answer' = [answer EXCEPT ![a] = NoneAnswered] /\ UNCHANGED ticket
    <3>1. /\ \A b \in Approver \ {a} : answer'[b] = answer[b]
          /\ answer'[a].pc = "idle"
      BY <2>4, RestType DEF TypeOK
    <3>2. Claims'
      BY <1>0, <2>1, <2>3, <2>4, <3>1 DEF IndInv, Claims, Executing, TypeOK
    <3> QED BY <2>1, <2>4, <3>2 DEF IndInv, OneActive, SucceedsOnce
  <2>5. CASE /\ ActiveFor(ticket[t].request) \subseteq {t}
             /\ ticket' = [ticket EXCEPT ![t].status = "approved"]
             /\ answer' = [answer EXCEPT ![a].pc = "resume"]
    <3>1. \A u \in Ticket :
             /\ ticket'[u].request = ticket[u].request
             /\ ticket'[u].status = IF u = t THEN "approved"
                                    ELSE ticket[u].status
      <4>1. PICK v \in Ticket : v = t
        BY <2>1
      <4>2. ticket' = [ticket EXCEPT ![v].status = "approved"]
        BY <2>5, <4>1
      <4>3. \A u \in Ticket :
               /\ ticket'[u].request = ticket[u].request
               /\ ticket'[u].status = IF u = v THEN "approved"
                                      ELSE ticket[u].status
        BY <4>1, <4>2 DEF TypeOK, Row
      <4> HIDE DEF t
      <4> QED BY <4>1, <4>3
    <3>2. /\ \A b \in Approver \ {a} : answer'[b] = answer[b]
          /\ answer'[a].pc = "resume" /\ answer'[a].ticket = t
      BY <2>5 DEF TypeOK, Answer
    <3>3. ran[t] = 0
      BY <2>1, <2>2 DEF IndInv, SucceedsOnce, TypeOK
    <3>4. OneActive'
      BY <2>1, <2>5, <3>1 DEF IndInv, OneActive, ActiveFor, Active
    <3>5. Claims'
      BY <1>0, <2>1, <2>3, <3>1, <3>2, <3>3
         DEF IndInv, Claims, Executing, TypeOK
    <3>6. SucceedsOnce'
      BY <2>1, <3>1 DEF IndInv, SucceedsOnce
    <3> QED BY <3>4, <3>5, <3>6 DEF IndInv
  <2> QED BY <1>6, <2>4, <2>5 DEF ApproveCommit
<1>7. ASSUME NEW a \in Approver, NEW o \in {"finished", "failed"},
             ResumeRun(a, o)
      PROVE  IndInv'
  <2> DEFINE t == answer[a].ticket
  <2>1. /\ answer[a].pc = "resume" /\ t \in Ticket
        /\ UNCHANGED <<ticket, lock>>
    BY <1>0, <1>7 DEF ResumeRun
  <2>2. /\ \A b \in Approver \ {a} : answer'[b] = answer[b]
        /\ answer'[a].pc = "ran" /\ answer'[a].ticket = t
        /\ answer'[a].outcome = o
    BY <1>7 DEF ResumeRun, TypeOK, Answer
  <2>3. ticket[t].status = "approved" /\ ran[t] = 0
    BY <2>1 DEF IndInv, Claims, Executing
  <2>4. \A u \in Ticket : ran'[u] = IF u = t /\ o = "finished" THEN 1
                                   ELSE ran[u]
    BY <1>7, <2>1, <2>3 DEF ResumeRun, TypeOK
  <2>5. \A b \in Approver \ {a} : Executing(b) => answer[b].ticket # t
    BY <2>1 DEF IndInv, Claims, Executing
  <2>6. Claims'
    BY <1>0, <2>1, <2>2, <2>3, <2>4, <2>5 DEF IndInv, Claims, Executing
  <2>7. SucceedsOnce'
    BY <2>1, <2>3, <2>4 DEF IndInv, SucceedsOnce
  <2> QED BY <2>1, <2>6, <2>7 DEF IndInv, OneActive
<1>8. ASSUME NEW a \in Approver, ResumeSave(a)
      PROVE  IndInv'
  <2> DEFINE t == answer[a].ticket
  <2>1. /\ answer[a].pc = "ran" /\ t \in Ticket
        /\ UNCHANGED <<lock, ran>>
        /\ answer[a].outcome \in {"finished", "failed"}
    BY <1>0, <1>8 DEF ResumeSave, TypeOK, Answer
  <2>2. /\ \A b \in Approver \ {a} : answer'[b] = answer[b]
        /\ answer'[a].pc = "idle"
    BY <1>8, RestType DEF ResumeSave, TypeOK
  <2>3. \A u \in Ticket :
           /\ ticket'[u].request = ticket[u].request
           /\ ticket'[u].status = IF u = t THEN answer[a].outcome
                                  ELSE ticket[u].status
    <3>1. PICK v \in Ticket, o \in {"finished", "failed"} :
             v = t /\ o = answer[a].outcome
      BY <2>1
    <3>2. ticket' = [ticket EXCEPT ![v].status = o]
      BY <1>8, <3>1 DEF ResumeSave
    <3>3. \A u \in Ticket :
             /\ ticket'[u].request = ticket[u].request
             /\ ticket'[u].status = IF u = v THEN o ELSE ticket[u].status
      BY <3>1, <3>2 DEF TypeOK, Row
    <3> HIDE DEF t
    <3> QED BY <3>1, <3>3
  <2>4. /\ ticket[t].status = "approved"
        /\ ran[t] = IF answer[a].outcome = "finished" THEN 1 ELSE 0
        /\ \A b \in Approver \ {a} : Executing(b) => answer[b].ticket # t
    BY <2>1 DEF IndInv, Claims, Executing
  <2>5. OneActive'
    BY <2>1, <2>3 DEF IndInv, OneActive, Active
  <2>6. Claims'
    BY <1>0, <2>1, <2>2, <2>3, <2>4 DEF IndInv, Claims, Executing
  <2>7. SucceedsOnce'
    BY <2>1, <2>3, <2>4 DEF IndInv, SucceedsOnce
  <2> QED BY <2>5, <2>6, <2>7 DEF IndInv
<1>9. ASSUME NEW a \in Approver, ApproverDies(a)
      PROVE  IndInv'
  <2>1. /\ UNCHANGED <<ticket, ran>>
        /\ \A b \in Approver \ {a} : answer'[b] = answer[b]
        /\ answer'[a].pc = "idle"
        /\ \A u \in Ticket : lock[u] # a => lock'[u] = lock[u]
    BY <1>9, RestType DEF ApproverDies, TypeOK
  <2>2. Claims'
    BY <1>0, <2>1 DEF IndInv, Claims, Executing
  <2> QED BY <2>1, <2>2 DEF IndInv, OneActive, SucceedsOnce
<1>10. ASSUME NEW t \in Ticket, Reject(t)
       PROVE  IndInv'
  BY <1>10, Closing DEF Reject, TypeOK, Row
<1>11. ASSUME NEW t \in Ticket, Elapse(t)
       PROVE  IndInv'
  <2>1. \A u \in Ticket : /\ ticket'[u].request = ticket[u].request
                          /\ ticket'[u].status = ticket[u].status
    BY <1>11 DEF Elapse, TypeOK, Row
  <2> QED BY <1>11, <2>1, Closing DEF Elapse
<1>12. CASE ExpireTickets
  BY <1>12, SweepCloses DEF ExpireTickets, Overdue
<1>13. CASE UNCHANGED vars
  BY <1>13, Closing DEF vars
<1> QED BY <1>1, <1>2, <1>3, <1>4, <1>5, <1>6, <1>7, <1>8, <1>9, <1>10,
           <1>11, <1>12, <1>13 DEF Next, SubmitStep, ApproveStep

\* The row locks, the claims and the unique constraint together keep every
\* request to one open ticket and every approval to one success.
THEOREM Inductive == Spec => []IndInv
<1>1. Init => IndInv
  BY DEF Init, IndInv, OneActive, Claims, SucceedsOnce, Executing, Active,
     NoRow, NoneAnswered
<1>2. TypeOK /\ IndInv /\ [Next]_vars => IndInv'
  BY StepKeeps
<1> QED BY <1>1, <1>2, TypeCorrect, PTL DEF Spec

\* A request has one open ticket at most: the duplicate checks hold.
THEOREM OneTicket == Spec => []OneActive
<1>1. IndInv => OneActive
  BY DEF IndInv
<1> QED BY <1>1, Inductive, PTL

\* An approval succeeds once: approve claims the ticket before it executes.
THEOREM OneSuccess == Spec => []SucceedsOnce
<1>1. IndInv => SucceedsOnce
  BY DEF IndInv
<1> QED BY <1>1, Inductive, PTL

\* No two approvers execute the same request, through one ticket or two.
THEOREM NoTwoExecute == Spec => []NoOverlap
<1>1. TypeOK /\ IndInv => NoOverlap
  BY DEF TypeOK, IndInv, Claims, OneActive, NoOverlap, Executing, Active
<1> QED BY <1>1, TypeCorrect, Inductive, PTL
=============================================================================
