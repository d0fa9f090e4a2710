----------------------------- MODULE HostChecks -----------------------------
(***************************************************************************)
(* Baseline checks of resource pools and the compliance clauses judged by  *)
(* them (apps/host_management).  Checks are Celery tasks: a beat entry, a  *)
(* view and a clause's trigger may start several for one baseline.  Each   *)
(* keeps the row it read at its start and saves it whole at its end.       *)
(***************************************************************************)
EXTENDS Naturals, FiniteSets, Functions

CONSTANTS
    Baseline,
    Clause,
    Parent,          \* [Clause -> Clause \cup {Top}], acyclic
    Top,             \* parent of the clauses at the top
    Covers,          \* [Clause -> SUBSET Baseline], the mappings
    Check,           \* check tasks that may be started (a bound)
    Editor,
    CheckFaults, BaselineEdits         \* bounds

VARIABLES
    base,            \* rows of the baselines
    check,           \* check tasks: what each has read and where it is
    verdict,         \* what the playbook run of a check returned
    alarm,           \* alerts, by the check that created them
    fixing,          \* checks whose remediation has been queued
    edit,            \* handlers of a baseline's PATCH
    checkFaults, baselineEdits

vars == <<base, check, verdict, alarm, fixing, edit, checkFaults,
          baselineEdits>>

NoCheck  == "no check"
Fresh    == [active |-> TRUE, fix |-> FALSE, status |-> "pending",
             last |-> NoCheck]
Waiting  == [pc |-> "none", baseline |-> Top, copy |-> Fresh]

Init ==
    /\ base \in [Baseline -> [active : {TRUE}, fix : BOOLEAN,
                              status : {"pending"}, last : {NoCheck}]]
    /\ check = [c \in Check |-> Waiting]
    /\ verdict = [c \in Check |-> "none"]
    /\ alarm = [c \in Check |-> "none"]
    /\ fixing = {}
    /\ edit = [e \in Editor |-> Waiting]
    /\ checkFaults = CheckFaults /\ baselineEdits = BaselineEdits

-----------------------------------------------------------------------------
(* Starting checks: HostBaselineViewSet.check, ComplianceClauseViewSet.    *)
(* trigger_check (one task for each mapping of the clause).                *)

Queue(task) ==
    check' = [c \in Check |-> IF c \in DOMAIN task
                              THEN [Waiting EXCEPT !.pc = "queued",
                                                   !.baseline = task[c]]
                              ELSE check[c]]
Unused == {c \in Check : check[c].pc = "none"}
Trigger(set) ==
    /\ set # {}
    /\ \E tasks \in SUBSET Unused :
         /\ Cardinality(tasks) = Cardinality(set)
         /\ \E task \in Bijection(tasks, set) : Queue(task)
    /\ UNCHANGED <<base, verdict, alarm, fixing, edit, checkFaults,
                   baselineEdits>>
CheckNow(b)     == Trigger({b})
TriggerCheck(k) == Trigger(Covers[k])

-----------------------------------------------------------------------------
(* check_host_baseline                                                     *)

Enter(c, pc) == check' = [check EXCEPT ![c].pc = pc]

\* An inactive baseline is not checked.  Otherwise the template and the
\* execution are created from the row that was read.
CheckBegin(c) ==
    /\ check[c].pc = "queued"
    /\ LET row == base[check[c].baseline] IN
         IF row.active
         THEN check' = [check EXCEPT ![c].pc = "mark", ![c].copy = row]
         ELSE Enter(c, "ended")
    /\ UNCHANGED <<base, verdict, alarm, fixing, edit, checkFaults,
                   baselineEdits>>

\* Only these two columns are written.
CheckMark(c) ==
    /\ check[c].pc = "mark"
    /\ base' = [base EXCEPT ![check[c].baseline].status = "running",
                            ![check[c].baseline].last = c]
    /\ check' = [check EXCEPT ![c].pc = "run", ![c].copy.last = c]
    /\ UNCHANGED <<verdict, alarm, fixing, edit, checkFaults, baselineEdits>>

\* run_ansible_task, called in place; it may also raise.
CheckRun(c) ==
    /\ check[c].pc = "run"
    /\ \/ /\ \E v \in {"success", "failed"} :
               verdict' = [verdict EXCEPT ![c] = v]
          /\ UNCHANGED checkFaults
       \/ /\ checkFaults > 0 /\ checkFaults' = checkFaults - 1
          /\ verdict' = [verdict EXCEPT ![c] = "raised"]
    /\ Enter(c, "save")
    /\ UNCHANGED <<base, alarm, fixing, edit, baselineEdits>>

Recorded(v) == IF v = "raised" THEN "failed" ELSE v

\* Variant: only the columns of the outcome are saved, as in CheckMark.
CheckSaveOutcome(c) ==
    /\ check[c].pc = "save"
    /\ base' = [base EXCEPT ![check[c].baseline].status =
                                              Recorded(verdict[c])]
    /\ Enter(c, IF verdict[c] = "failed" THEN "alarm" ELSE "ended")
    /\ UNCHANGED <<verdict, alarm, fixing, edit, checkFaults, baselineEdits>>
\* The outcome is saved with the whole row of the task's copy; a check that
\* raised ends here.
CheckSave(c) ==
    /\ check[c].pc = "save"
    /\ base' = [base EXCEPT ![check[c].baseline] =
                  [check[c].copy EXCEPT !.status = Recorded(verdict[c])]]
    /\ Enter(c, IF verdict[c] = "failed" THEN "alarm" ELSE "ended")
    /\ UNCHANGED <<verdict, alarm, fixing, edit, checkFaults, baselineEdits>>

\* The alert's fingerprint names the baseline and the execution.
CheckAlarm(c) ==
    /\ check[c].pc = "alarm"
    /\ alarm' = [alarm EXCEPT ![c] = "firing"]
    /\ Enter(c, IF check[c].copy.fix THEN "fix" ELSE "ended")
    /\ UNCHANGED <<base, verdict, fixing, edit, checkFaults, baselineEdits>>

\* The remediation is queued, then the alert marked as 'executing'.
CheckFix(c) ==
    /\ check[c].pc = "fix"
    /\ \/ /\ fixing' = fixing \cup {c}
          /\ Enter(c, "fixed")
          /\ UNCHANGED checkFaults
       \/ /\ checkFaults > 0 /\ checkFaults' = checkFaults - 1
          /\ Enter(c, "ended")
          /\ UNCHANGED fixing
    /\ UNCHANGED <<base, verdict, alarm, edit, baselineEdits>>
CheckFixed(c) ==
    /\ check[c].pc = "fixed"
    /\ alarm' = [alarm EXCEPT ![c] = "executing"]
    /\ Enter(c, "ended")
    /\ UNCHANGED <<base, verdict, fixing, edit, checkFaults, baselineEdits>>

\* The worker of a check is killed.
CheckDies(c) ==
    /\ check[c].pc \notin {"none", "queued", "ended"}
    /\ checkFaults > 0 /\ checkFaults' = checkFaults - 1
    /\ Enter(c, "ended")
    /\ UNCHANGED <<base, verdict, alarm, fixing, edit, baselineEdits>>

-----------------------------------------------------------------------------
\* A PATCH of a baseline: its outcome columns are read only for the caller,
\* but the row that was read is saved whole.
EditRead(e) ==
    /\ edit[e].pc = "none"
    /\ baselineEdits > 0 /\ baselineEdits' = baselineEdits - 1
    /\ \E b \in Baseline : edit' = [edit EXCEPT ![e] =
                             [pc |-> "save", baseline |-> b, copy |-> base[b]]]
    /\ UNCHANGED <<base, check, verdict, alarm, fixing, checkFaults>>
EditSave(e) ==
    /\ edit[e].pc = "save"
    /\ \E active, fix \in BOOLEAN :
         base' = [base EXCEPT ![edit[e].baseline] =
                    [edit[e].copy EXCEPT !.active = active, !.fix = fix]]
    /\ edit' = [edit EXCEPT ![e] = Waiting]
    /\ UNCHANGED <<check, verdict, alarm, fixing, checkFaults, baselineEdits>>

Next == \/ \E b \in Baseline : CheckNow(b)
        \/ \E k \in Clause : TriggerCheck(k)
        \/ \E c \in Check :
             \/ CheckBegin(c) \/ CheckMark(c) \/ CheckRun(c) \/ CheckSave(c)
             \/ CheckAlarm(c) \/ CheckFix(c) \/ CheckFixed(c)
             \/ CheckDies(c)
        \/ \E e \in Editor : EditRead(e) \/ EditSave(e)

Spec == Init /\ [][Next]_vars

-----------------------------------------------------------------------------
(* ComplianceClause.compliance_status, computed when a clause is shown.    *)

Children(k) == {j \in Clause : Parent[j] = k}
Depth == Cardinality(Clause)
All(statuses) == statuses = {"success"}

OfLeaf(k) ==
    LET statuses == {base[b].status : b \in Covers[k]} IN
    IF "failed" \in statuses THEN "failed"
    ELSE IF "running" \in statuses THEN "running"
    ELSE IF All(statuses) THEN "success" ELSE "pending"
OfChildren(statuses) ==
    IF "failed" \in statuses THEN "failed"
    ELSE IF All(statuses) THEN "success" ELSE "pending"

\* The status of a clause, followed down to d levels below it.
StatusAt[d \in 0..Depth] ==
    [k \in Clause |->
       IF Children(k) = {} \/ d = 0 THEN OfLeaf(k)
       ELSE OfChildren({StatusAt[d - 1][j] : j \in Children(k)})]
ComplianceStatus == StatusAt[Depth]

-----------------------------------------------------------------------------
Status == {"pending", "running", "success", "failed"}
RowOf == [active : BOOLEAN, fix : BOOLEAN, status : Status,
          last : Check \cup {NoCheck}]
CheckTypeOK ==
    /\ base \in [Baseline -> RowOf]
    /\ \A c \in Check : /\ check[c].copy \in RowOf
                        /\ alarm[c] \in {"none", "firing", "executing"}
    /\ fixing \subseteq Check

\* However checks and edits of a baseline overlap, its last outcome is the
\* one of the execution it names, and this execution is one of its own.
OutcomeNamed ==
    \A b \in Baseline :
        /\ base[b].last # NoCheck => check[base[b].last].baseline = b
        /\ base[b].status \in {"success", "failed"} =>
             /\ base[b].last # NoCheck
             /\ base[b].status = Recorded(verdict[base[b].last])

\* Only a failed execution has an alert, only an alert a remediation, and
\* the alert says 'executing' only of a remediation that was queued.
AlarmsFounded ==
    \A c \in Check :
        /\ alarm[c] # "none" => verdict[c] = "failed"
        /\ c \in fixing => alarm[c] # "none"
        /\ alarm[c] = "executing" => c \in fixing

\* A clause shown as passed rests on passed baselines alone, one shown as
\* failed on a failed one, at the bottom of the clauses below it.
Below(k) ==
    {j \in Clause : \A S \in SUBSET Clause :
        k \in S /\ (\A i \in S : Children(i) \subseteq S) => j \in S}
Leaves(k) == {j \in Below(k) : Children(j) = {}}
Under(k)  == {base[b].status : b \in UNION {Covers[j] : j \in Leaves(k)}}
Founded(status, k) == /\ status = "success" => Under(k) = {"success"}
                      /\ status = "failed" <=> "failed" \in Under(k)
ComplianceFounded == \A k \in Clause : Founded(ComplianceStatus[k], k)
ChecksSound == OutcomeNamed /\ AlarmsFounded /\ ComplianceFounded
=============================================================================
