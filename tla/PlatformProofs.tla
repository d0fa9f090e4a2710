--------------------------- MODULE PlatformProofs ---------------------------
(***************************************************************************)
(* Proofs about the baseline checks, the compliance clauses, the host      *)
(* inventory and the Helm releases of DeliverySystem, for every number of  *)
(* baselines, clauses, checks, releases, requests, syncs and edits.        *)
(***************************************************************************)
EXTENDS DeliverySystem, FiniteSets, Functions, SequenceTheorems,
        FiniteSetTheorems, WellFoundedInduction, TLAPS

\* A behaviour stays with its component.
LEMMA PartStays == [Next]_vars => part' = part
BY DEF Next, vars

-----------------------------------------------------------------------------
CheckPc == {"none", "queued", "mark", "run", "save", "alarm", "fix", "fixed",
       "ended"}
Verdicts == {"none", "success", "failed", "raised"}
CheckTask ==
    [pc : CheckPc, baseline : Baseline \cup {Top}, copy : Checks!RowOf]
CheckTypes ==
    /\ base \in [Baseline -> Checks!RowOf]
    /\ check \in [Check -> CheckTask]
    /\ verdict \in [Check -> Verdicts]
    /\ alarm \in [Check -> {"none", "firing", "executing"}]
    /\ fixing \in SUBSET Check
    /\ baseEdit \in [Editor -> [pc : {"none", "save"},
                            baseline : Baseline \cup {Top}, copy :
                                Checks!RowOf]]

\* A row of baseline b, in the database or in a handler's hands, when the
\* checks are at t and have returned v.
OutcomeKnown(row, b, t, v) ==
    /\ row.last # Checks!NoCheck =>
           t[row.last].pc # "none" /\ t[row.last].baseline = b
    /\ row.status \in {"success", "failed"} =>
          row.last # Checks!NoCheck
              /\ row.status = Checks!Recorded(v[row.last])
RowsNamed ==
    /\ \A b \in Baseline : OutcomeKnown(base[b], b, check, verdict)
    /\ \A e \in Editor : baseEdit[e].pc = "save" =>
          /\ baseEdit[e].baseline \in Baseline
          /\ OutcomeKnown(baseEdit[e].copy, baseEdit[e].baseline, check,
                 verdict)

\* What a check knows of itself at each step.
CheckSteps ==
    \A c \in Check :
        /\ check[c].pc # "none" => check[c].baseline \in Baseline
        /\ check[c].pc \in {"none", "queued", "mark", "run"} =>
              verdict[c] = "none"
        /\ check[c].pc \in {"run", "save"} => check[c].copy.last = c
        /\ check[c].pc = "save" => verdict[c] # "none"
        /\ check[c].pc \in {"alarm", "fix", "fixed"} => verdict[c] = "failed"
        /\ check[c].pc \in {"fix", "fixed"} => alarm[c] # "none"
        /\ check[c].pc = "fixed" => c \in fixing

CheckInv == CheckTypes /\ RowsNamed /\ CheckSteps /\ Checks!AlarmsFounded

-----------------------------------------------------------------------------
\* A row keeps its name while started checks keep their baseline and recorded
\* verdicts stand.
LEMMA StaysNamed ==
    ASSUME NEW t, NEW v, NEW u, NEW w, NEW b, NEW row \in Checks!RowOf,
           OutcomeKnown(row, b, t, v),
           \A c \in Check :
              /\ t[c].pc # "none" => /\ u[c].pc # "none"
                                     /\ u[c].baseline = t[c].baseline
              /\ v[c] # "none" => w[c] = v[c]
    PROVE  OutcomeKnown(row, b, u, w)
<1>1. row.last # Checks!NoCheck => row.last \in Check
  BY DEF Checks!RowOf
<1>2. row.status \in {"success", "failed"} => v[row.last] # "none"
  BY DEF OutcomeKnown, Checks!Recorded
<1> QED BY <1>1, <1>2 DEF OutcomeKnown

\* Hence no step on other rows takes a name away.
LEMMA RowsStayNamed ==
    ASSUME CheckTypes, RowsNamed,
           \A c \in Check :
              /\ check[c].pc # "none" => /\ check'[c].pc # "none"
                                         /\ check'[c].baseline =
                                                check[c].baseline
              /\ verdict[c] # "none" => verdict'[c] = verdict[c]
    PROVE  /\ \A b \in Baseline : OutcomeKnown(base[b], b, check', verdict')
           /\ \A e \in Editor : baseEdit[e].pc = "save" =>
                 OutcomeKnown(baseEdit[e].copy, baseEdit[e].baseline, check',
                     verdict')
<1>1. ASSUME NEW b \in Baseline
      PROVE  OutcomeKnown(base[b], b, check', verdict')
  <2>1. base[b] \in Checks!RowOf /\ OutcomeKnown(base[b], b, check, verdict)
    BY DEF CheckTypes, RowsNamed
  <2> QED BY <2>1, StaysNamed
<1>2. ASSUME NEW e \in Editor, baseEdit[e].pc = "save"
      PROVE  OutcomeKnown(baseEdit[e].copy, baseEdit[e].baseline, check',
          verdict')
  <2>1. /\ baseEdit[e].copy \in Checks!RowOf
        /\ OutcomeKnown(baseEdit[e].copy, baseEdit[e].baseline, check, verdict)
    BY <1>2 DEF CheckTypes, RowsNamed
  <2> QED BY <2>1, StaysNamed
<1> QED BY <1>1, <1>2

-----------------------------------------------------------------------------
\* The checks a request starts were unused, and are of the baselines asked for.
LEMMA TriggerKeeps ==
    ASSUME CheckInv, NEW set \in SUBSET Baseline, Checks!Trigger(set)
    PROVE  CheckInv'
<1> USE DEF CheckInv
<1>1. PICK tasks \in SUBSET Checks!Unused :
          \E work \in Checks!Bijection(tasks, set) :
          Checks!Queue(work)
  BY DEF Checks!Trigger
<1>2. PICK work \in Checks!Bijection(tasks, set) : Checks!Queue(work)
  BY <1>1
<1>3. work \in [tasks -> set]
  BY <1>2 DEF Checks!Bijection, Checks!Injection
<1>4. UNCHANGED <<base, verdict, alarm, fixing, baseEdit>>
  BY DEF Checks!Trigger
<1>5. \A c \in Check :
         \/ check[c].pc # "none" /\ check'[c] = check[c]
         \/ check[c].pc = "none" /\ check'[c] = check[c]
         \/ /\ check[c].pc = "none"
            /\ check'[c].pc = "queued" /\ check'[c].baseline \in Baseline
            /\ check'[c].copy = Checks!Fresh
  BY <1>2, <1>3 DEF Checks!Queue, Checks!Unused, Checks!Waiting
<1>6. CheckTypes'
  <2>1. check' \in [Check -> CheckTask]
    <3>1. Checks!Fresh \in Checks!RowOf
      BY DEF Checks!Fresh, Checks!RowOf, Checks!Status
    <3>2. \A c \in Check : c \in DOMAIN work =>
             [Checks!Waiting EXCEPT !.pc = "queued",
                 !.baseline = work[c]] \in CheckTask
      BY <1>3, <3>1 DEF Checks!Waiting, CheckTask, CheckPc
    <3> QED BY <1>2, <3>2 DEF Checks!Queue, CheckTypes
  <2> QED BY <1>4, <2>1 DEF CheckTypes
<1>7. RowsNamed'
  <2>1. \A c \in Check :
           /\ check[c].pc # "none" => /\ check'[c].pc # "none"
                                      /\ check'[c].baseline = check[c].baseline
           /\ verdict[c] # "none" => verdict'[c] = verdict[c]
    BY <1>4, <1>5
  <2> QED BY <1>4, <2>1, RowsStayNamed DEF RowsNamed
<1>8. CheckSteps'
  BY <1>4, <1>5 DEF CheckSteps
<1>9. Checks!AlarmsFounded'
  BY <1>4 DEF Checks!AlarmsFounded
<1> QED BY <1>6, <1>7, <1>8, <1>9

\* A check that enters its next step keeps its baseline and its copy.
LEMMA EnterType ==
    ASSUME CheckTypes, NEW c \in Check, NEW p \in CheckPc, Checks!Enter(c, p)
    PROVE  /\ check'[c].pc = p /\ check'[c].baseline = check[c].baseline
           /\ check'[c].copy = check[c].copy
           /\ \A d \in Check \ {c} : check'[d] = check[d]
           /\ check' \in [Check -> CheckTask]
  BY DEF Checks!Enter, CheckTypes, CheckTask

\* The steps of a check that only bring it further.
LEMMA OnlyEnters ==
    ASSUME CheckInv, NEW c \in Check,
           check[c].pc # "none", check'[c].baseline = check[c].baseline,
           check'[c].pc # "none", \A d \in Check \ {c} : check'[d] = check[d],
           UNCHANGED <<base, baseEdit, verdict>>
    PROVE  RowsNamed'
<1> USE DEF CheckInv
<1>1. \A d \in Check :
         /\ check[d].pc # "none" => /\ check'[d].pc # "none"
                                    /\ check'[d].baseline = check[d].baseline
         /\ verdict[d] # "none" => verdict'[d] = verdict[d]
  OBVIOUS
<1> QED BY <1>1, RowsStayNamed DEF RowsNamed

\* A check reads its baseline.
LEMMA CheckBeginKeeps ==
    ASSUME CheckInv, NEW c \in Check, Checks!CheckBegin(c)
    PROVE  CheckInv'
<1> USE DEF CheckInv
<1>1. check[c].baseline \in Baseline /\ check[c].pc = "queued"
  BY DEF Checks!CheckBegin, CheckSteps
<1>2. base[check[c].baseline] \in Checks!RowOf
  BY <1>1 DEF CheckTypes
<1>3. /\ UNCHANGED <<base, verdict, alarm, fixing, baseEdit>>
      /\ \A d \in Check \ {c} : check'[d] = check[d]
      /\ check'[c].pc \in {"mark", "ended"}
      /\ check'[c].baseline = check[c].baseline
      /\ check'[c].copy \in Checks!RowOf
      /\ check' \in [Check -> CheckTask]
  BY <1>1, <1>2 DEF Checks!CheckBegin, Checks!Enter, CheckTypes, CheckTask,
     CheckPc
<1>4. CheckTypes'
  BY <1>3 DEF CheckTypes
<1>5. RowsNamed'
  BY <1>1, <1>3, OnlyEnters
<1>6. CheckSteps' /\ Checks!AlarmsFounded'
  BY <1>1, <1>3 DEF CheckSteps, Checks!AlarmsFounded
<1> QED BY <1>4, <1>5, <1>6

\* It marks the row with itself.
LEMMA MarkKeeps ==
    ASSUME CheckInv, NEW c \in Check, Checks!CheckMark(c)
    PROVE  CheckInv'
<1> USE DEF CheckInv
<1> DEFINE m == check[c].baseline
<1>1. m \in Baseline /\ check[c].pc = "mark"
  BY DEF Checks!CheckMark, CheckSteps
<1>2. /\ UNCHANGED <<verdict, alarm, fixing, baseEdit>>
      /\ base' = [base EXCEPT ![m].status = "running", ![m].last = c]
      /\ check' = [check EXCEPT ![c].pc = "run", ![c].copy.last = c]
  BY DEF Checks!CheckMark
<1>3. /\ \A d \in Check \ {c} : check'[d] = check[d]
      /\ check'[c].pc = "run" /\ check'[c].baseline = m
      /\ check'[c].copy.last = c
      /\ check' \in [Check -> CheckTask]
  <2>1. check[c] \in CheckTask /\ check[c].copy \in Checks!RowOf
    BY DEF CheckTypes, CheckTask
  <2>2. [check[c].copy EXCEPT !.last = c] \in Checks!RowOf
    BY <2>1 DEF Checks!RowOf
  <2>3. check'[c] = [pc |-> "run", baseline |-> m,
                     copy |-> [check[c].copy EXCEPT !.last = c]]
    BY <1>2, <2>1 DEF CheckTypes, CheckTask
  <2>4. check'[c] \in CheckTask
    BY <1>1, <2>2, <2>3 DEF CheckTask, CheckPc
  <2>5. [check[c].copy EXCEPT !.last = c].last = c
    BY <2>1 DEF Checks!RowOf
  <2>6. \A d \in Check \ {c} : check'[d] = check[d]
    BY <1>2 DEF CheckTypes
  <2>7. check' \in [Check -> CheckTask]
    BY <1>2, <2>4, <2>6 DEF CheckTypes
  <2>8. /\ check'[c].pc = "run" /\ check'[c].baseline = m
        /\ check'[c].copy = [check[c].copy EXCEPT !.last = c]
    BY <2>3
  <2> QED BY <2>5, <2>6, <2>7, <2>8
<1>4. /\ base'[m].status = "running" /\ base'[m].last = c
      /\ \A b \in Baseline \ {m} : base'[b] = base[b]
      /\ base' \in [Baseline -> Checks!RowOf]
  <2>1. base[m] \in Checks!RowOf
    BY <1>1 DEF CheckTypes
  <2>2. base'[m] = [base[m] EXCEPT !.status = "running", !.last = c]
    BY <1>1, <1>2 DEF CheckTypes
  <2>3. base'[m].status = "running" /\ base'[m].last = c
            /\ base'[m] \in Checks!RowOf
    BY <2>1, <2>2 DEF Checks!RowOf, Checks!Status
  <2>4. \A b \in Baseline \ {m} : base'[b] = base[b]
    BY <1>2 DEF CheckTypes
  <2> QED BY <1>2, <2>3, <2>4 DEF CheckTypes
<1>5. CheckTypes'
  BY <1>2, <1>3, <1>4 DEF CheckTypes
<1>6. RowsNamed'
  <2>1. \A d \in Check :
           /\ check[d].pc # "none" => /\ check'[d].pc # "none"
                                      /\ check'[d].baseline = check[d].baseline
           /\ verdict[d] # "none" => verdict'[d] = verdict[d]
    BY <1>1, <1>2, <1>3
  <2>2. OutcomeKnown(base'[m], m, check', verdict')
    BY <1>3, <1>4, CheckNames DEF OutcomeKnown
  <2> QED BY <1>2, <1>4, <2>1, <2>2, RowsStayNamed DEF RowsNamed
<1>7. CheckSteps' /\ Checks!AlarmsFounded'
  BY <1>1, <1>2, <1>3 DEF CheckSteps, Checks!AlarmsFounded
<1> QED BY <1>5, <1>6, <1>7

\* It gets its verdict.
LEMMA RunKeeps ==
    ASSUME CheckInv, NEW c \in Check, Checks!CheckRun(c)
    PROVE  CheckInv'
<1> USE DEF CheckInv
<1>1. check[c].pc = "run" /\ verdict[c] = "none" /\ check[c].copy.last = c
  BY DEF Checks!CheckRun, CheckSteps
<1>2. /\ UNCHANGED <<base, alarm, fixing, baseEdit>>
      /\ \A d \in Check \ {c} : check'[d] = check[d]
             /\ verdict'[d] = verdict[d]
      /\ check'[c].pc = "save" /\ check'[c].baseline = check[c].baseline
      /\ check'[c].copy = check[c].copy
      /\ verdict'[c] # "none"
      /\ check' \in [Check -> CheckTask] /\ verdict' \in [Check -> Verdicts]
  BY <1>1 DEF Checks!CheckRun, Checks!Enter, CheckTypes, CheckTask, CheckPc,
     Verdicts
<1>3. CheckTypes'
  BY <1>2 DEF CheckTypes
<1>4. RowsNamed'
  <2>1. \A d \in Check :
           /\ check[d].pc # "none" => /\ check'[d].pc # "none"
                                      /\ check'[d].baseline = check[d].baseline
           /\ verdict[d] # "none" => verdict'[d] = verdict[d]
    BY <1>1, <1>2
  <2> QED BY <1>2, <2>1, RowsStayNamed DEF RowsNamed
<1>5. CheckSteps' /\ Checks!AlarmsFounded'
  BY <1>1, <1>2 DEF CheckSteps, Checks!AlarmsFounded
<1> QED BY <1>3, <1>4, <1>5

\* It saves its copy with the outcome.
LEMMA CheckSaveKeeps ==
    ASSUME CheckInv, NEW c \in Check, Checks!CheckSave(c)
    PROVE  CheckInv'
<1> USE DEF CheckInv
<1> DEFINE m == check[c].baseline
<1>1. /\ check[c].pc = "save" /\ m \in Baseline /\ check[c].copy.last = c
      /\ check[c].copy \in Checks!RowOf
      /\ verdict[c] \in {"success", "failed", "raised"}
  BY DEF Checks!CheckSave, CheckSteps, CheckTypes, CheckTask, Verdicts
<1>2. /\ UNCHANGED <<verdict, alarm, fixing, baseEdit>>
      /\ base' = [base EXCEPT ![m] =
                    [check[c].copy EXCEPT !.status =
                        Checks!Recorded(verdict[c])]]
  BY DEF Checks!CheckSave
<1>3. /\ \A d \in Check \ {c} : check'[d] = check[d]
      /\ check'[c].pc = (IF verdict[c] = "failed" THEN "alarm" ELSE "ended")
      /\ check'[c].baseline = m
      /\ check' \in [Check -> CheckTask]
  <2>1. PICK pc \in {"alarm", "ended"} :
          /\ pc = (IF verdict[c] = "failed" THEN "alarm" ELSE "ended")
          /\ check' = [check EXCEPT ![c].pc = pc]
    BY DEF Checks!CheckSave, Checks!Enter
  <2>2. check \in [Check -> CheckTask]
    BY DEF CheckTypes
  <2> HIDE DEF CheckInv
  <2> QED BY <2>1, <2>2 DEF CheckTask, CheckPc
<1>4. /\ base'[m].status = Checks!Recorded(verdict[c]) /\ base'[m].last = c
      /\ \A b \in Baseline \ {m} : base'[b] = base[b]
      /\ base' \in [Baseline -> Checks!RowOf]
  BY <1>1, <1>2 DEF CheckTypes, Checks!RowOf, Checks!Status, Checks!Recorded
<1>5. CheckTypes'
  BY <1>2, <1>3, <1>4 DEF CheckTypes
<1>6. RowsNamed'
  <2>1. \A d \in Check :
           /\ check[d].pc # "none" => /\ check'[d].pc # "none"
                                      /\ check'[d].baseline = check[d].baseline
           /\ verdict[d] # "none" => verdict'[d] = verdict[d]
    BY <1>1, <1>2, <1>3
  <2>2. OutcomeKnown(base'[m], m, check', verdict')
    BY <1>2, <1>3, <1>4, CheckNames DEF OutcomeKnown
  <2> QED BY <1>2, <1>4, <2>1, <2>2, RowsStayNamed DEF RowsNamed
<1>7. CheckSteps' /\ Checks!AlarmsFounded'
  BY <1>1, <1>2, <1>3 DEF CheckSteps, Checks!AlarmsFounded
<1> QED BY <1>5, <1>6, <1>7

\* After the outcome a check writes an alert and queues the remediation, or
\* it is killed.
LEMMA RestKeeps ==
    ASSUME CheckInv, NEW c \in Check,
           Checks!CheckAlarm(c) \/ Checks!CheckFix(c) \/ Checks!CheckFixed(c)
               \/ Checks!CheckDies(c)
    PROVE  CheckInv'
<1> USE DEF CheckInv
<1>1. /\ UNCHANGED <<base, verdict, baseEdit>>
      /\ \A d \in Check \ {c} : check'[d] = check[d]
      /\ check[c].pc # "none" /\ check'[c].pc # "none"
      /\ check'[c].baseline = check[c].baseline
      /\ check' \in [Check -> CheckTask]
  <2>1. /\ UNCHANGED <<base, verdict, baseEdit>> /\ check[c].pc # "none"
        /\ \E p \in CheckPc \ {"none"} : Checks!Enter(c, p)
    BY DEF Checks!CheckAlarm, Checks!CheckFix, Checks!CheckFixed,
       Checks!CheckDies, CheckPc
  <2>2. PICK p \in CheckPc \ {"none"} : Checks!Enter(c, p)
    BY <2>1
  <2> QED BY <2>1, <2>2, EnterType
<1>2. /\ alarm' \in [Check -> {"none", "firing", "executing"}]
      /\ fixing' \in SUBSET Check
  <2>1. CASE Checks!CheckAlarm(c) \/ Checks!CheckFixed(c)
    BY <2>1 DEF Checks!CheckAlarm, Checks!CheckFixed, CheckTypes
  <2>2. CASE Checks!CheckFix(c)
    BY <2>2 DEF Checks!CheckFix, CheckTypes
  <2>3. CASE Checks!CheckDies(c)
    BY <2>3 DEF Checks!CheckDies, CheckTypes
  <2> QED BY <2>1, <2>2, <2>3
<1>3. CheckTypes'
  BY <1>1, <1>2 DEF CheckTypes
<1>4. RowsNamed'
  BY <1>1, OnlyEnters
<1>5. CASE Checks!CheckAlarm(c)
  <2>1. /\ check[c].pc = "alarm" /\ alarm'[c] = "firing"
        /\ \A d \in Check \ {c} : alarm'[d] = alarm[d]
        /\ check'[c].pc \in {"fix", "ended"} /\ fixing' = fixing
    BY <1>5 DEF Checks!CheckAlarm, Checks!Enter, CheckTypes, CheckTask
  <2> QED BY <1>1, <1>3, <1>4, <2>1 DEF CheckSteps, Checks!AlarmsFounded
<1>6. CASE Checks!CheckFix(c)
  <2>1. /\ check[c].pc = "fix" /\ alarm' = alarm
        /\ \/ check'[c].pc = "fixed" /\ fixing' = fixing \cup {c}
           \/ check'[c].pc = "ended" /\ fixing' = fixing
    BY <1>6 DEF Checks!CheckFix, Checks!Enter, CheckTypes, CheckTask
  <2> QED BY <1>1, <1>3, <1>4, <2>1 DEF CheckSteps, Checks!AlarmsFounded
<1>7. CASE Checks!CheckFixed(c)
  <2>1. /\ check[c].pc = "fixed" /\ alarm'[c] = "executing"
        /\ \A d \in Check \ {c} : alarm'[d] = alarm[d]
        /\ check'[c].pc = "ended" /\ fixing' = fixing
    BY <1>7 DEF Checks!CheckFixed, Checks!Enter, CheckTypes, CheckTask
  <2> QED BY <1>1, <1>3, <1>4, <2>1 DEF CheckSteps, Checks!AlarmsFounded
<1>8. CASE Checks!CheckDies(c)
  <2>1. check'[c].pc = "ended" /\ UNCHANGED <<alarm, fixing>>
    BY <1>8 DEF Checks!CheckDies, Checks!Enter, CheckTypes, CheckTask
  <2> QED BY <1>1, <1>3, <1>4, <2>1 DEF CheckSteps, Checks!AlarmsFounded
<1> QED BY <1>5, <1>6, <1>7, <1>8

\* A PATCH reads a row that is named and writes it back with its name.
LEMMA EditKeeps ==
    ASSUME CheckInv, NEW e \in Editor, Checks!EditRead(e) \/ Checks!EditSave(e)
    PROVE  CheckInv'
<1> USE DEF CheckInv
<1>1. UNCHANGED <<check, verdict, alarm, fixing>>
  BY DEF Checks!EditRead, Checks!EditSave
<1>2. CheckSteps' /\ Checks!AlarmsFounded'
  BY <1>1 DEF CheckSteps, Checks!AlarmsFounded
<1>3. CASE Checks!EditRead(e)
  <2>1. PICK b \in Baseline :
           baseEdit' = [baseEdit EXCEPT ![e] =
                      [pc |-> "save", baseline |-> b, copy |-> base[b]]]
    BY <1>3 DEF Checks!EditRead
  <2>2. /\ base' = base /\ \A d \in Editor \ {e} : baseEdit'[d] = baseEdit[d]
        /\ baseEdit'[e] = [pc |-> "save", baseline |-> b, copy |-> base[b]]
    BY <1>3, <2>1 DEF Checks!EditRead, CheckTypes
  <2>3. CheckTypes'
    BY <1>1, <2>1, <2>2 DEF CheckTypes
  <2>4. RowsNamed'
    BY <1>1, <2>2 DEF RowsNamed
  <2> QED BY <1>2, <2>3, <2>4
<1>4. CASE Checks!EditSave(e)
  <2> DEFINE m == baseEdit[e].baseline
  <2>1. /\ baseEdit[e].pc = "save" /\ m \in Baseline
               /\ baseEdit[e].copy \in Checks!RowOf
        /\ OutcomeKnown(baseEdit[e].copy, m, check, verdict)
    BY <1>4 DEF Checks!EditSave, RowsNamed, CheckTypes
  <2>2. PICK active \in BOOLEAN, fix \in BOOLEAN :
           base' = [base EXCEPT ![m] =
                      [baseEdit[e].copy EXCEPT !.active = active, !.fix = fix]]
    BY <1>4 DEF Checks!EditSave
  <2>3. /\ \A b \in Baseline \ {m} : base'[b] = base[b]
        /\ base'[m].last = baseEdit[e].copy.last
        /\ base'[m].status = baseEdit[e].copy.status
        /\ base' \in [Baseline -> Checks!RowOf]
    BY <2>1, <2>2 DEF CheckTypes, Checks!RowOf
  <2>4. /\ \A d \in Editor \ {e} : baseEdit'[d] = baseEdit[d]
        /\ baseEdit'[e] = Checks!Waiting /\ Checks!Waiting.pc = "none"
    BY <1>4 DEF Checks!EditSave, CheckTypes, Checks!Waiting
  <2>5. baseEdit' \in [Editor -> [pc : {"none", "save"},
                              baseline : Baseline \cup {Top}, copy :
                                  Checks!RowOf]]
    BY <1>4 DEF Checks!EditSave, CheckTypes, Checks!Waiting, Checks!Fresh,
       Checks!RowOf, Checks!Status
  <2>6. CheckTypes'
    BY <1>1, <2>3, <2>5 DEF CheckTypes
  <2>7. OutcomeKnown(base'[m], m, check, verdict)
    BY <2>1, <2>3 DEF OutcomeKnown
  <2>8. RowsNamed'
    BY <1>1, <2>3, <2>4, <2>7 DEF RowsNamed
  <2> QED BY <1>2, <2>6, <2>8
<1> QED BY <1>3, <1>4

\* No baseline was ever checked.
LEMMA ChecksInit == Checks!Init => CheckInv
<1> SUFFICES ASSUME Checks!Init PROVE CheckInv
  OBVIOUS
<1>1. Checks!Fresh \in Checks!RowOf /\ Checks!Waiting \in CheckTask
  BY DEF Checks!Fresh, Checks!RowOf, Checks!Status, Checks!Waiting, CheckTask,
     CheckPc
<1>2. base \in [Baseline -> Checks!RowOf]
  BY DEF Checks!Init, Checks!RowOf, Checks!Status
<1>3. CheckTypes
  BY <1>1, <1>2 DEF Checks!Init, CheckTypes, CheckTask, CheckPc, Verdicts,
     Checks!Waiting
<1>4. \A b \in Baseline : base[b].last = Checks!NoCheck
          /\ base[b].status = "pending"
  BY DEF Checks!Init
<1>5. /\ \A c \in Check : check[c].pc = "none" /\ verdict[c] = "none"
                          /\ alarm[c] = "none"
      /\ \A e \in Editor : baseEdit[e].pc = "none"
      /\ fixing = {}
  BY DEF Checks!Init, Checks!Waiting
<1>6. RowsNamed
  BY <1>4, <1>5 DEF RowsNamed, OutcomeKnown
<1> QED BY <1>3, <1>5, <1>6 DEF CheckInv, CheckSteps, Checks!AlarmsFounded

\* Every step of a check, of a request and of an editor.
LEMMA ChecksStep == CheckInv /\ [Checks!Next]_checkVars => CheckInv'
<1> SUFFICES ASSUME CheckInv, [Checks!Next]_checkVars PROVE CheckInv'
  OBVIOUS
<1>1. ASSUME NEW b \in Baseline, Checks!CheckNow(b)
      PROVE  CheckInv'
  BY <1>1, TriggerKeeps DEF Checks!CheckNow
<1>2. ASSUME NEW k \in Clause, Checks!TriggerCheck(k)
      PROVE  CheckInv'
  BY <1>2, TriggerKeeps, CoverTypes DEF Checks!TriggerCheck
<1>3. ASSUME NEW c \in Check, Checks!CheckBegin(c)
      PROVE  CheckInv'
  BY <1>3, CheckBeginKeeps
<1>4. ASSUME NEW c \in Check, Checks!CheckMark(c)
      PROVE  CheckInv'
  BY <1>4, MarkKeeps
<1>5. ASSUME NEW c \in Check, Checks!CheckRun(c)
      PROVE  CheckInv'
  BY <1>5, RunKeeps
<1>6. ASSUME NEW c \in Check, Checks!CheckSave(c)
      PROVE  CheckInv'
  BY <1>6, CheckSaveKeeps
<1>7. ASSUME NEW c \in Check,
             Checks!CheckAlarm(c) \/ Checks!CheckFix(c)
                 \/ Checks!CheckFixed(c) \/ Checks!CheckDies(c)
      PROVE  CheckInv'
  BY <1>7, RestKeeps
<1>8. ASSUME NEW e \in Editor, Checks!EditRead(e) \/ Checks!EditSave(e)
      PROVE  CheckInv'
  BY <1>8, EditKeeps
<1>9. ASSUME UNCHANGED checkVars
      PROVE  CheckInv'
  BY <1>9 DEF checkVars, CheckInv, CheckTypes, RowsNamed, OutcomeKnown,
     CheckSteps, Checks!AlarmsFounded
<1> QED BY <1>1, <1>2, <1>3, <1>4, <1>5, <1>6, <1>7, <1>8, <1>9 DEF Checks!Next

-----------------------------------------------------------------------------
(* The compliance clauses.                                                 *)

\* A set of natural numbers has a least element.
LEMMA Least ==
    ASSUME NEW T \in SUBSET Nat, T # {}
    PROVE  \E n \in T : \A m \in T : n <= m
<1> DEFINE R == OpToRel(<, Nat)
<1>1. IsWellFoundedOn(R, Nat)
  BY NatLessThanWellFounded
<1> HIDE DEF R
<1>2. PICK x \in T : \A y \in T : ~(<<y, x>> \in R)
  BY <1>1, WFMin
<1>3. \A y \in T : y < x => <<y, x>> \in R
  BY DEF R, OpToRel
<1>4. ASSUME NEW y \in T PROVE x <= y
  <2>1. x \in Nat /\ y \in Nat
    BY <1>2
  <2>2. ~(y < x)
    BY <1>2, <1>3
  <2> QED BY <2>1, <2>2
<1> QED BY <1>2, <1>4

Judge(before, d, k) ==
    IF Checks!Children(k) = {} \/ d = 0 THEN Checks!OfLeaf(k)
    ELSE Checks!OfChildren({before[j] : j \in Checks!Children(k)})
Judged(g, n) ==
    g = [d \in 0..n |-> [k \in Clause |-> Judge(g[d - 1], d, k)]]

\* The levels of the clauses can be judged one after the other, ...
LEMMA LevelsJudged == \A n \in Nat : \E g : Judged(g, n)
<1> DEFINE T == {n \in Nat : ~\E g : Judged(g, n)}
<1> SUFFICES ASSUME T # {} PROVE FALSE
  OBVIOUS
<1>1. PICK m \in T : \A n \in T : m <= n
  <2>1. T \in SUBSET Nat
    OBVIOUS
  <2> HIDE DEF T
  <2> QED BY <2>1, Least
<1>2. CASE m = 0
  <2> DEFINE g == [d \in 0..0 |-> [k \in Clause |-> Checks!OfLeaf(k)]]
  <2>1. [d \in 0..0 |-> [k \in Clause |-> Judge(g[d - 1], d, k)]] = g
    BY DEF Judge
  <2>2. Judged(g, 0)
    BY <2>1 DEF Judged
  <2> QED BY <1>2, <2>2
<1>3. CASE m # 0
  <2>1. m - 1 \in Nat /\ m \in Nat
    BY <1>3
  <2>2. PICK g : Judged(g, m - 1)
    BY <1>1, <2>1
  <2> DEFINE h == [d \in 0..m |->
                     IF d < m THEN g[d]
                     ELSE [k \in Clause |-> Judge(g[m - 1], m, k)]]
  <2>3. ASSUME NEW d \in 0..m
        PROVE  h[d] = [k \in Clause |-> Judge(h[d - 1], d, k)]
    <3>1. CASE d = 0
      <4>1. h[d] = g[0] /\ 0 \in 0..(m - 1)
        BY <2>1, <3>1
      <4>2. g[0] = [k \in Clause |-> Judge(g[0 - 1], 0, k)]
        BY <2>2, <4>1 DEF Judged
      <4> QED BY <3>1, <4>1, <4>2 DEF Judge
    <3>2. CASE d # 0 /\ d < m
      <4>1. h[d] = g[d] /\ h[d - 1] = g[d - 1] /\ d \in 0..(m - 1)
        BY <2>1, <3>2
      <4>2. g[d] = [k \in Clause |-> Judge(g[d - 1], d, k)]
        BY <2>2, <4>1 DEF Judged
      <4> QED BY <4>1, <4>2
    <3>3. CASE d = m
      <4>1. h[d - 1] = g[m - 1]
                /\ h[d] = [k \in Clause |-> Judge(g[m - 1], m, k)]
        BY <1>3, <2>1, <3>3
      <4> QED BY <3>3, <4>1
    <3> QED BY <2>1, <3>1, <3>2, <3>3
  <2>4. Judged(h, m)
    <3> DEFINE f == [d \in 0..m |-> [k \in Clause |-> Judge(h[d - 1], d, k)]]
    <3>1. \A d \in 0..m : h[d] = f[d]
      BY <2>3
    <3>2. h = f
      BY <3>1
    <3> HIDE DEF h
    <3> QED BY <3>2 DEF Judged
  <2> QED BY <2>4
<1> QED BY <1>2, <1>3

\* ... so every level of StatusAt follows from the one before.
LEMMA StatusLevels ==
    /\ Checks!Depth \in Nat
    /\ \A d \in 0..Checks!Depth : \A k \in Clause :
          Checks!StatusAt[d][k] = Judge(Checks!StatusAt[d - 1], d, k)
<1>1. Checks!Depth \in Nat
  BY ClausesFinite, FS_CardinalityType DEF Checks!Depth, Checks!Cardinality,
     Cardinality
<1>2. Judged(Checks!StatusAt, Checks!Depth)
  <2>1. \E g : Judged(g, Checks!Depth)
    BY <1>1, LevelsJudged
  <2>2. Checks!StatusAt = CHOOSE g : Judged(g, Checks!Depth)
    BY DEF Checks!StatusAt, Judged, Judge
  <2> QED BY <2>1, <2>2
<1> QED BY <1>1, <1>2 DEF Judged

\* The clauses at the bottom of a clause are those below its children.
LEMMA LeavesOf ==
    ASSUME NEW k \in Clause
    PROVE  Checks!Leaves(k) = IF Checks!Children(k) = {} THEN {k}
                       ELSE UNION {Checks!Leaves(j) : j \in Checks!Children(k)}
<1>1. /\ k \in Checks!Below(k)
      /\ \A i \in Checks!Below(k) :
             Checks!Children(i) \subseteq Checks!Below(k)
      /\ \A S \in SUBSET Clause :
            k \in S /\ (\A i \in S : Checks!Children(i) \subseteq S) =>
                Checks!Below(k) \subseteq S
  <2>1. \A i \in Checks!Below(k) : Checks!Children(i) \subseteq Checks!Below(k)
    <3> SUFFICES ASSUME NEW i \in Checks!Below(k), NEW j \in Checks!Children(i)
                 PROVE  j \in Checks!Below(k)
      OBVIOUS
    <3>1. j \in Clause
      BY DEF Checks!Children
    <3>2. ASSUME NEW S \in SUBSET Clause, k \in S, \A x \in S :
                     Checks!Children(x) \subseteq S
          PROVE  j \in S
      <4>1. i \in S
        BY <3>2 DEF Checks!Below
      <4> QED BY <3>2, <4>1
    <3> QED BY <3>1, <3>2 DEF Checks!Below
  <2> QED BY <2>1 DEF Checks!Below
<1>2. CASE Checks!Children(k) = {}
  <2>1. Checks!Below(k) \subseteq {k}
    BY <1>1, <1>2
  <2> QED BY <1>1, <1>2, <2>1 DEF Checks!Leaves
<1>3. CASE Checks!Children(k) # {}
  <2> DEFINE S == {k} \cup UNION {Checks!Below(j) : j \in Checks!Children(k)}
  <2>1. \A j \in Checks!Children(k) :
           /\ j \in Clause /\ j \in Checks!Below(j)
           /\ Checks!Below(j) \subseteq Clause
           /\ \A i \in Checks!Below(j) :
                  Checks!Children(i) \subseteq Checks!Below(j)
           /\ Checks!Below(j) \subseteq Checks!Below(k)
    <3> TAKE j \in Checks!Children(k)
    <3>1. j \in Clause /\ j \in Checks!Below(j)
              /\ Checks!Below(j) \subseteq Clause
      BY DEF Checks!Children, Checks!Below
    <3>2. ASSUME NEW i \in Checks!Below(j), NEW x \in Checks!Children(i)
          PROVE  x \in Checks!Below(j)
      <4>1. x \in Clause
        BY DEF Checks!Children
      <4>2. ASSUME NEW U \in SUBSET Clause, j \in U, \A y \in U :
                       Checks!Children(y) \subseteq U
            PROVE  x \in U
        <5>1. i \in U
          BY <4>2 DEF Checks!Below
        <5> QED BY <4>2, <5>1
      <4> QED BY <4>1, <4>2 DEF Checks!Below
    <3>3. Checks!Below(k) \in SUBSET Clause /\ j \in Checks!Below(k)
      BY <1>1 DEF Checks!Below
    <3>4. Checks!Below(j) \subseteq Checks!Below(k)
      BY <1>1, <3>3 DEF Checks!Below
    <3> QED BY <3>1, <3>2, <3>4
  <2>2. S \in SUBSET Clause /\ k \in S /\ \A i \in S :
            Checks!Children(i) \subseteq S
    BY <2>1
  <2>3. Checks!Below(k) \subseteq S
    BY <1>1, <2>2
  <2>4. Checks!Leaves(k) \subseteq UNION {Checks!Leaves(j) :
            j \in Checks!Children(k)}
    BY <1>3, <2>3 DEF Checks!Leaves
  <2>5. UNION {Checks!Leaves(j) :
            j \in Checks!Children(k)} \subseteq Checks!Leaves(k)
    BY <2>1 DEF Checks!Leaves
  <2> QED BY <1>3, <2>4, <2>5
<1> QED BY <1>2, <1>3

\* What the baselines under a clause are depends on its children alike.
LEMMA UnderOf ==
    ASSUME NEW k \in Clause
    PROVE  Checks!Under(k) = IF Checks!Children(k) = {}
               THEN {base[b].status : b \in Covers[k]}
                      ELSE UNION {Checks!Under(j) : j \in Checks!Children(k)}
<1>1. CASE Checks!Children(k) = {}
  BY <1>1, LeavesOf DEF Checks!Under
<1>2. CASE Checks!Children(k) # {}
  <2>1. Checks!Leaves(k) = UNION {Checks!Leaves(j) : j \in Checks!Children(k)}
    BY <1>2, LeavesOf
  <2>2. \A s : s \in Checks!Under(k) <=> \E j \in Checks!Leaves(k) :
            \E b \in Covers[j] : s = base[b].status
    BY DEF Checks!Under
  <2>3. \A i \in Checks!Children(k) : \A s : s \in Checks!Under(i) <=>
           \E j \in Checks!Leaves(i) : \E b \in Covers[j] : s = base[b].status
    BY DEF Checks!Under
  <2>4. \A s : s \in Checks!Under(k) <=> \E i \in Checks!Children(k) :
            s \in Checks!Under(i)
    BY <2>1, <2>2, <2>3
  <2> QED BY <1>2, <2>4
<1> QED BY <1>1, <1>2

\* A clause of least rank that is judged wrongly would have a child that is.
LEMMA ClausesFounded == Checks!ComplianceFounded
<1>1. PICK rank \in [Clause -> 0..Checks!Depth] :
         \A k \in Clause : \A j \in Checks!Children(k) : rank[j] < rank[k]
  BY ClausesOrdered
<1> DEFINE Bad == {n \in Nat : \E k \in Clause : \E d \in 0..Checks!Depth :
                     rank[k] = n /\ n <= d
                         /\ ~Checks!Founded(Checks!StatusAt[d][k], k)}
<1>2. CASE Bad # {}
  <2>1. PICK n \in Bad : \A m \in Bad : n <= m
    <3>1. Bad \in SUBSET Nat
      OBVIOUS
    <3> HIDE DEF Bad
    <3> QED BY <1>2, <3>1, Least
  <2>2. PICK k \in Clause, d \in 0..Checks!Depth :
           rank[k] = n /\ n <= d /\ ~Checks!Founded(Checks!StatusAt[d][k], k)
    OBVIOUS
  <2>3. /\ Checks!StatusAt[d][k] = Judge(Checks!StatusAt[d - 1], d, k)
        /\ Checks!Depth \in Nat /\ n \in Nat
    BY StatusLevels
  <2>4. CASE Checks!Children(k) = {}
    <3>1. Checks!StatusAt[d][k] = Checks!OfLeaf(k)
              /\ Checks!Under(k) = {base[b].status : b \in Covers[k]}
      BY <2>3, <2>4, UnderOf DEF Judge
    <3>2. Checks!Founded(Checks!OfLeaf(k), k)
      BY <3>1 DEF Checks!Founded, Checks!OfLeaf, Checks!All
    <3> QED BY <2>2, <3>1, <3>2
  <2>5. CASE Checks!Children(k) # {}
    <3> DEFINE below == Checks!StatusAt[d - 1]
    <3>1. \A j \in Checks!Children(k) : Checks!Founded(below[j], j)
      <4> TAKE j \in Checks!Children(k)
      <4>1. j \in Clause /\ rank[j] < n /\ rank[j] \in Nat
        BY <1>1, <2>2, <2>3 DEF Checks!Children
      <4>2. d - 1 \in 0..Checks!Depth /\ rank[j] <= d - 1
        BY <2>2, <2>3, <4>1
      <4>3. rank[j] \notin Bad
        BY <2>1, <2>3, <4>1
      <4> QED BY <4>1, <4>2, <4>3
    <3>2. Checks!Under(k) = UNION {Checks!Under(j) : j \in Checks!Children(k)}
      BY <2>5, UnderOf
    <3>3. d # 0
      <4>1. PICK j \in Checks!Children(k) : TRUE
        BY <2>5
      <4>2. j \in Clause /\ rank[j] < n /\ rank[j] \in Nat
        BY <1>1, <2>2, <2>3 DEF Checks!Children
      <4> QED BY <2>2, <2>3, <4>2
    <3>4. Checks!StatusAt[d][k] =
              Checks!OfChildren({below[j] : j \in Checks!Children(k)})
      BY <2>3, <2>5, <3>3 DEF Judge
    <3> HIDE DEF below
    <3>5. CASE \E j \in Checks!Children(k) : below[j] = "failed"
      <4>1. Checks!StatusAt[d][k] = "failed"
        BY <3>4, <3>5 DEF Checks!OfChildren
      <4>2. "failed" \in Checks!Under(k)
        BY <3>1, <3>2, <3>5 DEF Checks!Founded
      <4> QED BY <2>2, <4>1, <4>2 DEF Checks!Founded
    <3>6. CASE \A j \in Checks!Children(k) : below[j] # "failed"
      <4>1. "failed" \notin Checks!Under(k) /\ Checks!StatusAt[d][k] # "failed"
        BY <3>1, <3>2, <3>4, <3>6 DEF Checks!Founded, Checks!OfChildren
      <4>2. ASSUME Checks!StatusAt[d][k] = "success"
            PROVE  Checks!Under(k) = {"success"}
        <5>1. {below[j] : j \in Checks!Children(k)} = {"success"}
          BY <3>4, <3>6, <4>2 DEF Checks!OfChildren, Checks!All
        <5>2. \A j \in Checks!Children(k) : Checks!Under(j) = {"success"}
          BY <3>1, <5>1 DEF Checks!Founded
        <5> QED BY <2>5, <3>2, <5>2
      <4> QED BY <2>2, <4>1, <4>2 DEF Checks!Founded
    <3> QED BY <3>5, <3>6
  <2> QED BY <2>4, <2>5
<1>3. CASE Bad = {}
  <2>1. ASSUME NEW k \in Clause
        PROVE  Checks!Founded(Checks!StatusAt[Checks!Depth][k], k)
    <3>1. rank[k] \in 0..Checks!Depth /\ Checks!Depth \in Nat
      BY <1>1, StatusLevels
    <3>2. rank[k] \in Nat /\ rank[k] <= Checks!Depth
              /\ Checks!Depth \in 0..Checks!Depth
      BY <3>1
    <3> QED BY <1>3, <3>2
  <2> QED BY <2>1 DEF Checks!ComplianceFounded, Checks!ComplianceStatus
<1> QED BY <1>2, <1>3

\* A step of the system is one of the checks.
LEMMA ChecksSteps ==
    ASSUME part = "checks", [Next]_vars
    PROVE  [Checks!Next]_checkVars
BY DEF Next, vars, checkVars

\* A baseline shows the outcome of its own last check, only a failed check has
\* an alert and only an alert a remediation, and a clause is shown as passed or
\* failed as the baselines at the bottom of it are, however deep the tree.
\* Code: check_host_baseline, HostBaselineViewSet, compliance_status.
ChecksHeld == part = "checks" => CheckInv
THEOREM ChecksHold == Spec => []ChecksSound
<1>1. Init => ChecksHeld
  BY ChecksInit DEF Init, ChecksHeld
<1>2. ChecksHeld /\ [Next]_vars => ChecksHeld'
  BY PartStays, ChecksSteps, ChecksStep DEF ChecksHeld
<1>3. ChecksHeld => ChecksSound
  <2>1. CheckInv => Checks!OutcomeNamed
    BY DEF CheckInv, RowsNamed, OutcomeKnown, Checks!OutcomeNamed
  <2> QED BY <2>1, ClausesFounded DEF ChecksHeld, CheckInv, ChecksSound,
             Checks!ChecksSound
<1> QED BY <1>1, <1>2, <1>3, PTL DEF Spec

-----------------------------------------------------------------------------
HostShapes ==
    /\ nextHost \in Nat
    /\ \A h \in Hosts!Ids : h \in Nat /\ h < nextHost /\ hosts[h] \in Hosts!Row
    /\ sync \in [Syncer -> [pc : {"idle", "find", "create", "done"},
                            given : Seq(Hosts!Row), todo : Seq(Hosts!Row)]]
    /\ hostEdit \in [Editor -> [pc : {"idle", "save"}, host : Nat,
                            row : Hosts!Row \cup {<<>>}]]
    /\ \A e \in Editor : hostEdit[e].pc = "save" =>
          hostEdit[e].row \in Hosts!Row /\ hostEdit[e].host < nextHost
    /\ touched \in [Syncer -> SUBSET Ip]

\* An id keeps its ip, in the inventory and in the editors' hands, also when
\* its host was deleted.
IpsStay ==
    \A e \in Editor : hostEdit[e].pc = "save" =>
        /\ hostEdit[e].host \in Hosts!Ids =>
               hosts[hostEdit[e].host].ip = hostEdit[e].row.ip
        /\ \A f \in Editor :
               hostEdit[f].pc = "save"
                   /\ hostEdit[f].host = hostEdit[e].host =>
              hostEdit[f].row.ip = hostEdit[e].row.ip

\* A host out of use is not about to be probed.
TakenRest ==
    \A h \in taken : /\ h \in Hosts!Ids /\ hosts[h].status \notin Hosts!InUse
                     /\ h \notin DOMAIN probe

\* What a sync has been through is in the inventory.
Passed(s) ==
    sync[s].pc # "idle" =>
        /\ sync[s].given \in Report
        /\ Hosts!Range(sync[s].todo) \subseteq Hosts!Range(sync[s].given)
        /\ (sync[s].pc = "done") <=> (sync[s].todo = <<>>)
        /\ \A a \in Hosts!Range(sync[s].given) :
              \/ a \in Hosts!Range(sync[s].todo)
              \/ a.ip \in touched[s]
              \/ \E h \in Hosts!Ids : hosts[h] = a
HostInv == HostShapes /\ IpsStay /\ TakenRest /\ \A s \in Syncer : Passed(s)

\* A sync that does not move keeps what it has passed, when every row another
\* one changes is noted as touched.
LEMMA PassedKept ==
    ASSUME NEW s \in Syncer, Passed(s), sync'[s] = sync[s],
           touched[s] \subseteq touched'[s],
           \A h \in Hosts!Ids : \/ h \in Hosts!Ids' /\ hosts'[h] = hosts[h]
                          \/ hosts[h].ip \in touched'[s]
    PROVE  Passed(s)'
BY DEF Passed, Hosts!Ids

\* Tail and range.
LEMMA RangeTail ==
    ASSUME NEW q \in Seq(Hosts!Row), q # <<>>
    PROVE  /\ Head(q) \in Hosts!Range(q) /\ Head(q) \in Hosts!Row
           /\ Tail(q) \in Seq(Hosts!Row)
           /\ \A a \in Hosts!Range(q) :
                  a = Head(q) \/ a \in Hosts!Range(Tail(q))
           /\ Hosts!Range(Tail(q)) \subseteq Hosts!Range(q)
<1>1. Len(q) \in Nat /\ Len(q) >= 1 /\ DOMAIN q = 1..Len(q) /\ Head(q) = q[1]
  OBVIOUS
<1>2. /\ Tail(q) \in Seq(Hosts!Row) /\ DOMAIN Tail(q) = 1..(Len(q) - 1)
      /\ \A i \in 1..(Len(q) - 1) : Tail(q)[i] = q[i + 1]
  OBVIOUS
<1>3. ASSUME NEW a \in Hosts!Range(q), a # Head(q)
      PROVE  a \in Hosts!Range(Tail(q))
  <2>1. PICK i \in 1..Len(q) : a = q[i]
    BY <1>1 DEF Hosts!Range
  <2>2. i - 1 \in 1..(Len(q) - 1) /\ Tail(q)[i - 1] = a
    BY <1>1, <1>2, <1>3, <2>1
  <2> QED BY <1>2, <2>2 DEF Hosts!Range
<1>4. Hosts!Range(Tail(q)) \subseteq Hosts!Range(q)
  BY <1>1, <1>2 DEF Hosts!Range
<1>5. Head(q) \in Hosts!Range(q) /\ Head(q) \in Hosts!Row
  BY <1>1 DEF Hosts!Range
<1> QED BY <1>2, <1>3, <1>4, <1>5

\* A sync that writes its next asset has passed it.
LEMMA PassedWritten ==
    ASSUME HostShapes,
           NEW s \in Syncer, Passed(s), sync[s].pc \in {"find", "create"},
           Hosts!Written(s), touched'[s] = touched[s],
           NEW h, h \in Hosts!Ids', hosts'[h] = Hosts!Asset(s),
           h \in Hosts!Ids => hosts[h].ip = Hosts!Asset(s).ip,
           \A g \in Hosts!Ids \ {h} : g \in Hosts!Ids' /\ hosts'[g] = hosts[g]
    PROVE  Passed(s)'
<1> DEFINE todo == sync[s].todo  asked == sync[s].given
<1>1. /\ todo \in Seq(Hosts!Row) /\ todo # <<>> /\ asked \in Report
      /\ Hosts!Range(todo) \subseteq Hosts!Range(asked)
  BY DEF HostShapes, Passed
<1>2. /\ Hosts!Asset(s) \in Hosts!Range(todo) /\ Tail(todo) \in Seq(Hosts!Row)
      /\ \A a \in Hosts!Range(todo) :
             a = Hosts!Asset(s) \/ a \in Hosts!Range(Tail(todo))
      /\ Hosts!Range(Tail(todo)) \subseteq Hosts!Range(asked)
  BY <1>1, RangeTail DEF Hosts!Asset
<1>3. /\ sync'[s].given = asked /\ sync'[s].todo = Tail(todo)
      /\ sync'[s].pc = IF Tail(todo) = <<>> THEN "done" ELSE "find"
  BY DEF HostShapes, Hosts!Written
<1>4. ASSUME NEW a \in Hosts!Range(asked), a \notin Hosts!Range(Tail(todo)),
             a.ip \notin touched[s]
      PROVE  \E g \in Hosts!Ids' : hosts'[g] = a
  <2>1. CASE a = Hosts!Asset(s)
    BY <2>1
  <2>2. CASE a # Hosts!Asset(s)
    <3>1. a \notin Hosts!Range(todo)
      BY <1>2, <1>4, <2>2
    <3>2. PICK g \in Hosts!Ids : hosts[g] = a
      BY <1>4, <3>1 DEF Passed
    <3>3. a.ip # Hosts!Asset(s).ip
      BY <1>1, <1>2, <2>2, ReportTypes
    <3> QED BY <3>2, <3>3
  <2> QED BY <2>1, <2>2
<1> HIDE DEF todo, asked
<1> QED BY <1>1, <1>2, <1>3, <1>4 DEF Passed

-----------------------------------------------------------------------------
(* The types, and the ips of the rows. *)

\* A row written under an id that was asked out.
LEMMA PutTypes ==
    ASSUME HostShapes, NEW h \in Nat, NEW row \in Hosts!Row, Hosts!Put(h, row)
    PROVE  /\ Hosts!Ids' = Hosts!Ids \cup {h} /\ hosts'[h] = row
           /\ \A g \in Hosts!Ids \ {h} : hosts'[g] = hosts[g]
           /\ \A g \in Hosts!Ids' : hosts'[g] \in Hosts!Row
BY DEF HostShapes, Hosts!Put, Hosts!Ids

\* The record of touched addresses keeps its type.
LEMMA TouchTypes ==
    ASSUME HostShapes, NEW ips \in SUBSET Ip, NEW but, Hosts!Touch(ips, but)
    PROVE  /\ touched' \in [Syncer -> SUBSET Ip]
           /\ \A s \in Syncer : /\ touched[s] \subseteq touched'[s]
                                /\ s # but => touched'[s] = touched[s] \cup ips
                                /\ s = but => touched'[s] = touched[s]
BY DEF HostShapes, Hosts!Touch

\* Those who are no sync touch the ip for every sync.
LEMMA TouchAll ==
    ASSUME HostShapes, NEW ip \in Ip, Hosts!Touch({ip}, "none")
    PROVE  /\ touched' \in [Syncer -> SUBSET Ip]
           /\ \A s \in Syncer : touched'[s] = touched[s] \cup {ip}
<1>1. \A s \in Syncer : s # "none"
  BY SyncerNames
<1> QED BY <1>1 DEF HostShapes, Hosts!Touch

\* What one step of a sync does to its own variables.
LEMMA SyncMoves ==
    ASSUME HostShapes, NEW s \in Syncer, Passed(s),
           \/ Hosts!Aborts(s)
           \/ sync[s].pc \in {"find", "create"} /\ Hosts!Written(s)
    PROVE  /\ sync' \in [Syncer -> [pc : {"idle", "find", "create", "done"},
                                    given : Seq(Hosts!Row), todo :
                                        Seq(Hosts!Row)]]
           /\ \A t \in Syncer \ {s} : sync'[t] = sync[t]
           /\ Hosts!Aborts(s) => sync'[s].pc = "idle"
<1>1. CASE Hosts!Aborts(s)
  BY <1>1 DEF HostShapes, Hosts!Aborts, Hosts!Idle
<1>2. CASE sync[s].pc \in {"find", "create"} /\ Hosts!Written(s)
  <2>1. sync[s].todo \in Seq(Hosts!Row) /\ sync[s].todo # <<>>
    BY <1>2 DEF HostShapes, Passed
  <2>2. Tail(sync[s].todo) \in Seq(Hosts!Row)
    BY <2>1
  <2>3. [sync[s] EXCEPT !.todo = Tail(sync[s].todo),
                        !.pc = IF Tail(sync[s].todo) = <<>> THEN "done"
                            ELSE "find"]
           \in [pc : {"idle", "find", "create", "done"},
                                    given : Seq(Hosts!Row), todo :
                                        Seq(Hosts!Row)]
    BY <2>2 DEF HostShapes
  <2>4. sync' =
            [sync EXCEPT ![s] = [sync[s] EXCEPT !.todo = Tail(sync[s].todo),
                        !.pc = IF Tail(sync[s].todo) = <<>> THEN "done"
                            ELSE "find"]]
    BY <1>2 DEF Hosts!Written
  <2>5. Hosts!Aborts(s) => sync'[s].pc = "idle"
    BY DEF HostShapes, Hosts!Aborts, Hosts!Idle
  <2> QED BY <2>3, <2>4, <2>5 DEF HostShapes
<1> QED BY <1>1, <1>2

\* A sync overwrites a host of the asset's ip, or gives up.
LEMMA OverwriteStep ==
    ASSUME HostInv, NEW s \in Syncer, sync[s].pc \in {"find", "create"},
           NEW h \in Hosts!Ids, hosts[h].ip = Hosts!Asset(s).ip,
           Hosts!Overwrite(s, h),
           UNCHANGED <<nextHost, owned, probe, hostEdit, budget>>
    PROVE  HostInv'
<1> USE DEF HostInv, Hosts!Ids
<1>1. CASE Hosts!Clash(Hosts!Asset(s), Hosts!Ids \ {h})
  <2>1. Hosts!Aborts(s)
    BY <1>1 DEF Hosts!Overwrite
  <2>2. HostShapes'
    BY <2>1, SyncMoves DEF HostShapes, Hosts!Aborts
  <2>3. \A t \in Syncer : Passed(t)'
    <3> TAKE t \in Syncer
    <3>1. CASE t = s
      BY <2>1, <3>1, SyncMoves DEF Passed
    <3>2. CASE t # s
      BY <2>1, <3>2, SyncMoves, PassedKept DEF Hosts!Aborts
    <3> QED BY <3>1, <3>2
  <2> QED BY <2>1, <2>2, <2>3 DEF Hosts!Aborts, IpsStay, TakenRest
<1>2. CASE ~Hosts!Clash(Hosts!Asset(s), Hosts!Ids \ {h})
  <2>1. /\ Hosts!Put(h, Hosts!Asset(s)) /\ taken' = taken \ {h}
        /\ Hosts!Touch({Hosts!Asset(s).ip}, s) /\ Hosts!Written(s)
    BY <1>2 DEF Hosts!Overwrite
  <2>2. Hosts!Asset(s) \in Hosts!Row /\ Hosts!Asset(s).ip \in Ip /\ h \in Nat
            /\ h < nextHost
    BY RangeTail DEF HostShapes, Passed, Hosts!Asset, Hosts!Row
  <2>3. /\ Hosts!Ids' = Hosts!Ids /\ hosts'[h] = Hosts!Asset(s)
        /\ \A g \in Hosts!Ids \ {h} : hosts'[g] = hosts[g]
        /\ \A g \in Hosts!Ids' : hosts'[g] \in Hosts!Row
    <3>1. HostShapes
      OBVIOUS
    <3> HIDE DEF HostInv, Hosts!Ids
    <3> QED BY <2>1, <2>2, <3>1, PutTypes
  <2>4. /\ touched' \in [Syncer -> SUBSET Ip] /\ touched'[s] = touched[s]
        /\ \A t \in Syncer \ {s} :
               touched'[t] = touched[t] \cup {Hosts!Asset(s).ip}
    <3>1. HostShapes /\ {Hosts!Asset(s).ip} \in SUBSET Ip
      BY <2>2
    <3>2. Hosts!Touch({Hosts!Asset(s).ip}, s)
      BY <2>1
    <3> HIDE DEF HostInv, Hosts!Ids
    <3> QED BY <3>1, <3>2, TouchTypes
  <2>5. HostShapes'
    BY <2>1, <2>3, <2>4, SyncMoves DEF HostShapes
  <2>6. \A t \in Syncer : Passed(t)'
    <3> TAKE t \in Syncer
    <3>1. CASE t = s
      BY <2>1, <2>3, <2>4, <3>1, PassedWritten
    <3>2. CASE t # s
      <4>1. sync'[t] = sync[t]
                /\ touched'[t] = touched[t] \cup {Hosts!Asset(s).ip}
        BY <2>1, <2>4, <3>2, SyncMoves
      <4>2. \A g \in Hosts!Ids : \/ g \in Hosts!Ids' /\ hosts'[g] = hosts[g]
                           \/ hosts[g].ip \in touched'[t]
        BY <2>3, <4>1
      <4> QED BY <4>1, <4>2, PassedKept
    <3> QED BY <3>1, <3>2
  <2>7. IpsStay'
    BY <2>3 DEF IpsStay
  <2>8. TakenRest'
    BY <2>1, <2>3 DEF TakenRest
  <2> QED BY <2>5, <2>6, <2>7, <2>8
<1> QED BY <1>1, <1>2

\* A new row has an id of its own.
LEMMA InsertStep ==
    ASSUME HostShapes, NEW row \in Hosts!Row, Hosts!Insert(row)
    PROVE  /\ nextHost' = nextHost + 1 /\ nextHost \notin Hosts!Ids
           /\ Hosts!Ids' = Hosts!Ids \cup {nextHost} /\ hosts'[nextHost] = row
           /\ \A g \in Hosts!Ids : hosts'[g] = hosts[g]
           /\ \A g \in Hosts!Ids' :
                  g \in Nat /\ g < nextHost' /\ hosts'[g] \in Hosts!Row
<1>1. nextHost \in Nat /\ nextHost \notin Hosts!Ids /\ nextHost' = nextHost + 1
      /\ Hosts!Put(nextHost, row)
  BY DEF HostShapes, Hosts!Insert
<1>2. /\ Hosts!Ids' = Hosts!Ids \cup {nextHost} /\ hosts'[nextHost] = row
      /\ \A g \in Hosts!Ids \ {nextHost} : hosts'[g] = hosts[g]
      /\ \A g \in Hosts!Ids' : hosts'[g] \in Hosts!Row
  BY <1>1, PutTypes
<1> QED BY <1>1, <1>2 DEF HostShapes

\* Every step of a sync, of the check and of an administrator.
LEMMA HostStep == HostInv /\ [Hosts!Next]_hostVars => HostInv'
<1> SUFFICES ASSUME HostInv, [Hosts!Next]_hostVars PROVE HostInv'
  OBVIOUS
<1> USE DEF HostInv, Hosts!Ids
<1>1. ASSUME NEW s \in Syncer, Hosts!SyncBegin(s) PROVE HostInv'
  <2>1. PICK report \in Report :
           sync' = [sync EXCEPT ![s] =
                      [pc |-> IF report = <<>> THEN "done" ELSE "find",
                       given |-> report, todo |-> report]]
    BY <1>1 DEF Hosts!SyncBegin
  <2>2. /\ UNCHANGED <<hosts, nextHost, owned, probe, hostEdit, taken>>
        /\ touched' = [touched EXCEPT ![s] = {}]
    BY <1>1 DEF Hosts!SyncBegin
  <2>3. report \in Seq(Hosts!Row)
    BY ReportTypes
  <2>4. HostShapes'
    BY <2>1, <2>2, <2>3 DEF HostShapes
  <2>5. \A t \in Syncer : Passed(t)'
    <3> TAKE t \in Syncer
    <3>1. CASE t = s
      BY <2>1, <3>1 DEF Passed, HostShapes
    <3>2. CASE t # s
      <4>1. sync'[t] = sync[t] /\ touched'[t] = touched[t]
        BY <2>1, <2>2, <3>2 DEF HostShapes
      <4> QED BY <2>2, <4>1, PassedKept
    <3> QED BY <3>1, <3>2
  <2> QED BY <2>2, <2>4, <2>5 DEF IpsStay, TakenRest
<1>2. ASSUME NEW s \in Syncer, Hosts!SyncFind(s) PROVE HostInv'
  <2>1. CASE /\ sync' = [sync EXCEPT ![s].pc = "create"]
             /\ UNCHANGED <<hosts, taken, touched>>
    <3>1. /\ sync[s].pc = "find" /\ UNCHANGED <<nextHost, probe, hostEdit>>
      BY <1>2 DEF Hosts!SyncFind
    <3>2. HostShapes'
      BY <2>1, <3>1 DEF HostShapes
    <3>3. Passed(s)'
      <4>1. /\ sync'[s].pc = "create" /\ sync'[s].given = sync[s].given
            /\ sync'[s].todo = sync[s].todo /\ touched'[s] = touched[s]
        BY <2>1 DEF HostShapes
      <4>2. Passed(s) /\ hosts' = hosts
        BY <2>1
      <4> HIDE DEF HostInv
      <4> QED BY <3>1, <4>1, <4>2 DEF Passed
    <3>4. \A t \in Syncer \ {s} : Passed(t)'
      BY <2>1, PassedKept DEF HostShapes
    <3> QED BY <2>1, <3>1, <3>2, <3>3, <3>4 DEF IpsStay, TakenRest
  <2>2. CASE Hosts!Aborts(s)
    <3>2. HostShapes'
      BY <1>2, <2>2, SyncMoves DEF HostShapes, Hosts!Aborts, Hosts!SyncFind
    <3>3. Passed(s)'
      BY <2>2, SyncMoves DEF Passed
    <3>4. \A t \in Syncer \ {s} : Passed(t)'
      BY <2>2, SyncMoves, PassedKept DEF Hosts!Aborts
    <3> QED BY <1>2, <2>2, <3>2, <3>3, <3>4 DEF Hosts!Aborts, Hosts!SyncFind,
               IpsStay, TakenRest
  <2>3. CASE \E h \in Hosts!Ids :
                 Hosts!With(Hosts!Asset(s).ip) = {h} /\ Hosts!Overwrite(s, h)
    <3>1. PICK h \in Hosts!Ids :
              Hosts!With(Hosts!Asset(s).ip) = {h} /\ Hosts!Overwrite(s, h)
      BY <2>3
    <3>2. hosts[h].ip = Hosts!Asset(s).ip
      BY <3>1 DEF Hosts!With
    <3> QED BY <1>2, <3>1, <3>2, OverwriteStep DEF Hosts!SyncFind
  <2> QED BY <1>2, <2>1, <2>2, <2>3 DEF Hosts!SyncFind
<1>3. ASSUME NEW s \in Syncer, Hosts!SyncCreate(s) PROVE HostInv'
  <2>0. sync[s].pc = "create" /\ UNCHANGED <<owned, probe, hostEdit, budget>>
    BY <1>3 DEF Hosts!SyncCreate
  <2>1. CASE /\ Hosts!Insert(Hosts!Asset(s))
             /\ Hosts!Touch({Hosts!Asset(s).ip}, s) /\ Hosts!Written(s)
             /\ UNCHANGED taken
    <3>1. Hosts!Asset(s) \in Hosts!Row /\ Hosts!Asset(s).ip \in Ip
      BY <2>0, RangeTail DEF HostShapes, Passed, Hosts!Asset, Hosts!Row
    <3>2. /\ nextHost' = nextHost + 1 /\ nextHost \notin Hosts!Ids
          /\ Hosts!Ids' = Hosts!Ids \cup {nextHost}
          /\ hosts'[nextHost] = Hosts!Asset(s)
          /\ \A g \in Hosts!Ids : hosts'[g] = hosts[g]
          /\ \A g \in Hosts!Ids' :
                 g \in Nat /\ g < nextHost' /\ hosts'[g] \in Hosts!Row
      BY <2>1, <3>1, InsertStep
    <3>3. /\ touched' \in [Syncer -> SUBSET Ip] /\ touched'[s] = touched[s]
          /\ \A t \in Syncer : touched[t] \subseteq touched'[t]
      BY <2>1, <3>1, TouchTypes
    <3>4. HostShapes'
      <4>1. \A e \in Editor : hostEdit'[e].pc = "save" =>
               hostEdit'[e].row \in Hosts!Row /\ hostEdit'[e].host < nextHost'
        BY <2>0, <3>2 DEF HostShapes
      <4> QED BY <2>0, <2>1, <3>2, <3>3, <4>1, SyncMoves DEF HostShapes
    <3>5. Passed(s)'
      BY <2>0, <2>1, <3>2, <3>3, PassedWritten
    <3>6. \A t \in Syncer \ {s} : Passed(t)'
      BY <2>0, <2>1, <3>2, <3>3, SyncMoves, PassedKept
    <3>7. IpsStay'
      BY <2>0, <3>2 DEF IpsStay, HostShapes
    <3>8. TakenRest'
      BY <2>0, <2>1, <3>2 DEF TakenRest
    <3> QED BY <3>4, <3>5, <3>6, <3>7, <3>8
  <2>2. CASE UNCHANGED nextHost /\ Hosts!Aborts(s)
    <3>2. HostShapes'
      BY <2>0, <2>2, SyncMoves DEF HostShapes, Hosts!Aborts
    <3>3. Passed(s)'
      BY <2>2, SyncMoves DEF Passed
    <3>4. \A t \in Syncer \ {s} : Passed(t)'
      BY <2>2, SyncMoves, PassedKept DEF Hosts!Aborts
    <3> QED BY <2>0, <2>2, <3>2, <3>3, <3>4 DEF Hosts!Aborts, IpsStay,
               TakenRest
  <2>3. CASE UNCHANGED nextHost /\ \E h \in Hosts!With(Hosts!Asset(s).ip) :
                 Hosts!Overwrite(s, h)
    <3>1. PICK h \in Hosts!Ids :
              hosts[h].ip = Hosts!Asset(s).ip /\ Hosts!Overwrite(s, h)
      BY <2>3 DEF Hosts!With
    <3> QED BY <2>0, <2>3, <3>1, OverwriteStep
  <2> QED BY <1>3, <2>1, <2>2, <2>3 DEF Hosts!SyncCreate
<1>4. ASSUME NEW s \in Syncer, Hosts!SyncEnd(s) PROVE HostInv'
  <2>1. /\ sync' = [sync EXCEPT ![s] = Hosts!Idle] /\ Hosts!Idle.pc = "idle"
        /\ UNCHANGED <<hosts, nextHost, probe, hostEdit, taken, touched>>
    BY <1>4 DEF Hosts!SyncEnd, Hosts!Idle
  <2>2. HostShapes'
    BY <2>1 DEF HostShapes, Hosts!Idle
  <2>3. Passed(s)' /\ \A t \in Syncer \ {s} : Passed(t)'
    <3>1. sync'[s].pc = "idle" /\ \A t \in Syncer \ {s} : sync'[t] = sync[t]
      BY <2>1 DEF HostShapes
    <3>2. Passed(s)'
      <4> HIDE DEF HostInv
      <4> QED BY <3>1 DEF Passed
    <3>3. \A t \in Syncer \ {s} : Passed(t)'
      BY <2>1, <3>1, PassedKept
    <3> QED BY <3>2, <3>3
  <2> QED BY <2>1, <2>2, <2>3 DEF IpsStay, TakenRest
<1>5. ASSUME Hosts!ProbeBegin PROVE HostInv'
  <2>1. /\ UNCHANGED <<hosts, nextHost, sync, hostEdit, taken, touched>>
        /\ DOMAIN probe' = {i \in Hosts!Ids : hosts[i].status \in Hosts!InUse}
    BY <1>5 DEF Hosts!ProbeBegin
  <2>2. TakenRest'
    BY <2>1 DEF TakenRest
  <2> QED BY <2>1, <2>2, PassedKept DEF HostShapes, IpsStay
<1>6. ASSUME NEW h \in DOMAIN probe, Hosts!ProbeHost(h) PROVE HostInv'
  <2>0. UNCHANGED <<nextHost, owned, sync, hostEdit, budget, taken>>
    BY <1>6 DEF Hosts!ProbeHost
  <2>1. DOMAIN probe' \subseteq DOMAIN probe
    BY <1>6 DEF Hosts!ProbeHost, Hosts!Probed, Hosts!Restrict
  <2>2. CASE UNCHANGED <<hosts, touched>>
    BY <2>0, <2>1, <2>2, PassedKept DEF HostShapes, IpsStay, TakenRest
  <2>3. CASE ~UNCHANGED <<hosts, touched>>
    <3>1. PICK status \in {Hosts!Online, Hosts!Faulty} :
             /\ h \in Hosts!Ids
             /\ Hosts!Put(h, [hosts[h] EXCEPT !.status = status])
             /\ Hosts!Touch({hosts[h].ip}, "none")
      BY <1>6, <2>3 DEF Hosts!ProbeHost
    <3>2. /\ h \in Nat /\ hosts[h] \in Hosts!Row /\ hosts[h].ip \in Ip
          /\ [hosts[h] EXCEPT !.status = status] \in Hosts!Row
          /\ [hosts[h] EXCEPT !.status = status].ip = hosts[h].ip
      BY <3>1 DEF HostShapes, Hosts!Row, Hosts!Statuses
    <3>3. /\ Hosts!Ids' = Hosts!Ids /\ hosts'[h].ip = hosts[h].ip
          /\ \A g \in Hosts!Ids \ {h} : hosts'[g] = hosts[g]
          /\ \A g \in Hosts!Ids' : hosts'[g] \in Hosts!Row
      BY <3>1, <3>2, PutTypes
    <3>4. /\ touched' \in [Syncer -> SUBSET Ip]
          /\ \A s \in Syncer : touched'[s] = touched[s] \cup {hosts[h].ip}
      BY <3>1, <3>2, TouchAll
    <3>5. HostShapes' /\ IpsStay'
      <4>1. HostShapes'
        BY <2>0, <3>3, <3>4 DEF HostShapes
      <4>2. IpsStay'
        BY <2>0, <3>3 DEF IpsStay
      <4> QED BY <4>1, <4>2
    <3>6. \A s \in Syncer : Passed(s)'
      BY <2>0, <3>3, <3>4, PassedKept
    <3>7. TakenRest'
      BY <2>0, <2>1, <3>3 DEF TakenRest
    <3> QED BY <3>5, <3>6, <3>7
  <2> QED BY <2>2, <2>3
<1>7. ASSUME Hosts!Import PROVE HostInv'
  <2>1. PICK row \in Hosts!Row :
            Hosts!Insert(row) /\ Hosts!Touch({row.ip}, "none")
    BY <1>7 DEF Hosts!Import
  <2>2. UNCHANGED <<owned, sync, probe, hostEdit, taken>>
    BY <1>7 DEF Hosts!Import
  <2>3. /\ nextHost' = nextHost + 1 /\ nextHost \notin Hosts!Ids
        /\ Hosts!Ids' = Hosts!Ids \cup {nextHost}
        /\ \A g \in Hosts!Ids : hosts'[g] = hosts[g]
        /\ \A g \in Hosts!Ids' :
               g \in Nat /\ g < nextHost' /\ hosts'[g] \in Hosts!Row
    BY <2>1, InsertStep
  <2>4. /\ touched' \in [Syncer -> SUBSET Ip]
        /\ \A s \in Syncer : touched[s] \subseteq touched'[s]
    BY <2>1, TouchTypes DEF Hosts!Row
  <2>5. HostShapes'
    <3>1. \A e \in Editor : hostEdit'[e].pc = "save" =>
             hostEdit'[e].row \in Hosts!Row /\ hostEdit'[e].host < nextHost'
      BY <2>2, <2>3 DEF HostShapes
    <3> QED BY <2>2, <2>3, <2>4, <3>1 DEF HostShapes
  <2>6. \A s \in Syncer : Passed(s)'
    BY <2>2, <2>3, <2>4, PassedKept
  <2>7. IpsStay'
    BY <2>2, <2>3 DEF IpsStay, HostShapes
  <2>8. TakenRest'
    BY <2>2, <2>3 DEF TakenRest
  <2> QED BY <2>5, <2>6, <2>7, <2>8
<1>8. ASSUME NEW e \in Editor, Hosts!EditRead(e) PROVE HostInv'
  <2>1. PICK h \in Hosts!Ids :
           hostEdit' = [hostEdit EXCEPT ![e] = [pc |-> "save", host |-> h,
                                        row |-> hosts[h]]]
    BY <1>8 DEF Hosts!EditRead
  <2>2. UNCHANGED <<hosts, nextHost, owned, sync, probe, taken, touched>>
    BY <1>8 DEF Hosts!EditRead
  <2>3. h \in Nat /\ h < nextHost /\ hosts[h] \in Hosts!Row
    BY DEF HostShapes
  <2>4. HostShapes'
    BY <2>1, <2>2, <2>3 DEF HostShapes
  <2>5. IpsStay'
    BY <2>1, <2>2 DEF HostShapes, IpsStay
  <2> QED BY <2>2, <2>4, <2>5, PassedKept DEF TakenRest
<1>9. ASSUME NEW e \in Editor, Hosts!EditSave(e) PROVE HostInv'
  <2> DEFINE h == hostEdit[e].host
  <2>1. /\ hostEdit[e].pc = "save"
        /\ UNCHANGED <<nextHost, owned, sync, probe, budget>>
        /\ hostEdit' = [hostEdit EXCEPT ![e] = Hosts!Away]
        /\ Hosts!Away.pc = "idle"
        /\ Hosts!Away
               \in [pc : {"idle", "save"}, host : Nat, row :
                   Hosts!Row \cup {<<>>}]
    BY <1>9 DEF Hosts!EditSave, Hosts!Away, Hosts!NoHost
  <2>2. /\ hostEdit' \in [Editor -> [pc : {"idle", "save"}, host : Nat,
                                 row : Hosts!Row \cup {<<>>}]]
        /\ \A f \in Editor : hostEdit'[f].pc = "save" =>
               hostEdit'[f] = hostEdit[f]
    BY <2>1 DEF HostShapes
  <2>3. h \in Nat /\ h < nextHost /\ hostEdit[e].row \in Hosts!Row
            /\ hostEdit[e].row.ip \in Ip
    BY <2>1 DEF HostShapes, Hosts!Row
  <2>4. CASE UNCHANGED <<hosts, taken, touched>>
    BY <2>1, <2>2, <2>4, PassedKept DEF HostShapes, IpsStay, TakenRest
  <2>5. CASE ~UNCHANGED <<hosts, taken, touched>>
    <3>1. PICK status \in Hosts!Statuses :
             /\ Hosts!Put(h, [hostEdit[e].row EXCEPT !.status = status])
             /\ taken' = IF status \in Hosts!InUse \/ h \in DOMAIN probe
                         THEN taken \ {h} ELSE taken \cup {h}
             /\ Hosts!Touch({hostEdit[e].row.ip}, "none")
      BY <1>9, <2>5 DEF Hosts!EditSave
    <3>2. /\ [hostEdit[e].row EXCEPT !.status = status] \in Hosts!Row
          /\ [hostEdit[e].row EXCEPT !.status = status].ip = hostEdit[e].row.ip
          /\ [hostEdit[e].row EXCEPT !.status = status].status = status
      BY <2>3 DEF Hosts!Row
    <3> HIDE DEF h
    <3>3. /\ Hosts!Ids' = Hosts!Ids \cup {h}
          /\ hosts'[h].ip = hostEdit[e].row.ip
          /\ hosts'[h].status = status
          /\ \A g \in Hosts!Ids \ {h} : hosts'[g] = hosts[g]
          /\ \A g \in Hosts!Ids' : hosts'[g] \in Hosts!Row
      BY <2>3, <3>1, <3>2, PutTypes
    <3>4. /\ touched' \in [Syncer -> SUBSET Ip]
          /\ \A s \in Syncer :
                 touched'[s] = touched[s] \cup {hostEdit[e].row.ip}
      BY <2>3, <3>1, TouchAll
    <3>5. HostShapes'
      BY <2>1, <2>2, <2>3, <3>3, <3>4 DEF HostShapes
    <3>6. \A s \in Syncer : Passed(s)'
      <4>1. h \in Hosts!Ids => hosts[h].ip = hostEdit[e].row.ip
        BY <2>1 DEF IpsStay, h
      <4> QED BY <2>1, <3>3, <3>4, <4>1, PassedKept
    <3>7. IpsStay'
      BY <2>1, <2>2, <3>3 DEF IpsStay, h
    <3>8. TakenRest'
      BY <2>1, <3>1, <3>3 DEF TakenRest
    <3> QED BY <3>5, <3>6, <3>7, <3>8
  <2> QED BY <2>4, <2>5
<1>10. ASSUME NEW h \in Hosts!Ids, Hosts!Delete(h) PROVE HostInv'
  <2>1. /\ Hosts!Ids' = Hosts!Ids \ {h}
        /\ \A g \in Hosts!Ids' : hosts'[g] = hosts[g]
        /\ taken' = taken \ {h} /\ Hosts!Touch({hosts[h].ip}, "none")
        /\ UNCHANGED <<nextHost, owned, sync, probe, hostEdit>>
    BY <1>10 DEF Hosts!Delete, Hosts!Restrict
  <2>2. hosts[h].ip \in Ip
    BY DEF HostShapes, Hosts!Row
  <2>3. /\ touched' \in [Syncer -> SUBSET Ip]
        /\ \A s \in Syncer : touched'[s] = touched[s] \cup {hosts[h].ip}
    BY <2>1, <2>2, TouchAll
  <2>4. HostShapes' /\ IpsStay' /\ TakenRest'
    BY <2>1, <2>3 DEF HostShapes, IpsStay, TakenRest
  <2> QED BY <2>1, <2>3, <2>4, PassedKept
<1>11. ASSUME UNCHANGED hostVars PROVE HostInv'
  BY <1>11, PassedKept DEF hostVars, HostShapes, IpsStay, TakenRest
<1> QED
  BY <1>1, <1>2, <1>3, <1>4, <1>5, <1>6, <1>7, <1>8, <1>9, <1>10, <1>11
     DEF Hosts!Next

\* There are no hosts.
LEMMA HostInit == Hosts!Init => HostInv
<1> SUFFICES ASSUME Hosts!Init PROVE HostInv
  OBVIOUS
<1>1. /\ Hosts!Ids = {} /\ nextHost = 1 /\ taken = {}
      /\ sync = [s \in Syncer |-> Hosts!Idle] /\ Hosts!Idle.pc = "idle"
      /\ hostEdit = [e \in Editor |-> Hosts!Away] /\ Hosts!Away.pc = "idle"
      /\ touched = [s \in Syncer |-> {}]
  BY DEF Hosts!Init, Hosts!Idle, Hosts!Away, Hosts!Ids
<1>2. HostShapes
  BY <1>1 DEF HostShapes, Hosts!Idle, Hosts!Away, Hosts!NoHost
<1> QED BY <1>1, <1>2 DEF HostInv, IpsStay, TakenRest, Passed

\* What has been passed and is not left to do is in the inventory.
LEMMA HostFollows == HostInv => Hosts!HostsSound
<1> SUFFICES ASSUME HostInv PROVE Hosts!HostsSound
  OBVIOUS
<1>1. Hosts!TakenStay
  BY DEF HostInv, TakenRest, Hosts!TakenStay
<1>2. ASSUME NEW s \in Syncer, sync[s].pc = "done",
             NEW a \in Hosts!Range(sync[s].given)
      PROVE  a.ip \in touched[s] \/ \E h \in Hosts!With(a.ip) : hosts[h] = a
  <2>1. a \notin Hosts!Range(sync[s].todo)
    BY <1>2 DEF HostInv, Passed, Hosts!Range
  <2> QED BY <1>2, <2>1 DEF HostInv, Passed, Hosts!With
<1> QED BY <1>1, <1>2 DEF Hosts!HostsSound, Hosts!SyncFaithful

\* A step of the system is one of the inventory.
LEMMA HostsSteps ==
    ASSUME part = "hosts", [Next]_vars
    PROVE  [Hosts!Next]_hostVars
BY DEF Next, vars, hostVars

\* A host taken out of use stays so, and a finished sync has left what it
\* reported, unless another handler wrote the same address meanwhile.
\* Code: sync_platform_assets, check_host_connectivity, HostViewSet.
HostsHeld == part = "hosts" => HostInv
THEOREM HostsHold == Spec => []HostsSound
<1>1. Init => HostsHeld
  BY HostInit DEF Init, HostsHeld
<1>2. HostsHeld /\ [Next]_vars => HostsHeld'
  BY PartStays, HostsSteps, HostStep DEF HostsHeld
<1>3. HostsHeld => HostsSound
  BY HostFollows DEF HostsHeld, HostsSound
<1> QED BY <1>1, <1>2, <1>3, PTL DEF Spec

-----------------------------------------------------------------------------
(* Helm releases, the charts kept of them and the syncs of an application. *)

RequestAt(q) == \E N :
    q \in [pc : {"idle", "deploy", "list", "copy", "again"}, release : N,
          chart : N, name : N, upgrade : BOOLEAN, keep : BOOLEAN,
          overtaken : BOOLEAN]
AppRows == [status : {"Unknown", "Synced", "OutOfSync", "Syncing", "Error"},
          auto : BOOLEAN, revision : Revision \cup {Helm!None}]
SyncsAt == [pc : {"idle", "clone", "compare", "upgrade", "record", "save"},
             force : BOOLEAN, row : AppRows \cup {Helm!None},
             rev : Revision \cup {Helm!None}]
HelmTypes ==
    /\ store = [n \in Helm!Names |-> store[n]]
    /\ release = [r \in Release |-> release[r]]
    /\ handler = [h \in Handler |-> handler[h]]
    /\ \A h \in Handler : RequestAt(handler[h])
    /\ app \in AppRows /\ branch \in Revision
    /\ appSync \in [AppSync -> SyncsAt]

\* A request not overtaken finds the chart it deployed, and keeps it under
\* that chart's name.
ListsOwn(q) ==
    /\ q.pc # "idle" => q.release \in Release
    /\ q.pc = "list" /\ ~q.overtaken => release[q.release] = q.chart
    /\ q.pc = "copy" /\ ~q.overtaken => q.name = Name(q.chart)
HandlersKnow == \A h \in Handler : ListsOwn(handler[h])

\* A sync nothing crossed is alone and works on the application as it is.
SyncAlone == ~appCrossed =>
    /\ app.auto = meant
    /\ \A s, t \in AppSync : appSync[s].pc # "idle" /\ appSync[t].pc # "idle"
                            => s = t
    /\ \A s \in AppSync : appSync[s].pc # "idle" => appSync[s].row.auto = meant
    /\ \A s \in AppSync :
          appSync[s].pc \in {"record", "save"}
              /\ appSync[s].row.status = "Synced" =>
                     release[App] = appSync[s].rev
\* 'Synced' in the row is true or known to be doubtful.
RowTrue ==
    /\ \A s \in AppSync : appSync[s].pc # "idle" => appSync[s].row \in AppRows
    /\ app.status = "Synced" /\ ~drifted => release[App] = last
    /\ \A s \in AppSync : appSync[s].pc = "upgrade" =>
          app.status # "Synced" \/ drifted

HelmInv == HelmTypes /\ Helm!StoreNamed /\ HandlersKnow /\ SyncAlone /\ RowTrue

----
HelmWaits == {"idle", "deploy", "list", "copy", "again"}
LEMMA RequestRow ==
    ASSUME NEW pc \in HelmWaits, NEW r, NEW c, NEW n, NEW u \in BOOLEAN,
           NEW k \in BOOLEAN, NEW o \in BOOLEAN
    PROVE  RequestAt([pc |-> pc, release |-> r, chart |-> c, name |-> n,
                      upgrade |-> u, keep |-> k, overtaken |-> o])
<1> DEFINE N == {r, c, n}
           q == [pc |-> pc, release |-> r, chart |-> c, name |-> n,
                 upgrade |-> u, keep |-> k, overtaken |-> o]
<1>1. r \in N /\ c \in N /\ n \in N
  OBVIOUS
<1> HIDE DEF N
<1>2. q \in [pc : HelmWaits, release : N, chart : N, name : N, upgrade :
          BOOLEAN,
             keep : BOOLEAN, overtaken : BOOLEAN]
  BY <1>1
<1> QED BY <1>2 DEF RequestAt, HelmWaits

LEMMA HelmInit == Helm!Init => HelmInv
<1> SUFFICES ASSUME Helm!Init PROVE HelmInv
  OBVIOUS
<1> USE DEF Helm!Init, Helm!Idle, Helm!Asleep
<1>1. \A h \in Handler : RequestAt(handler[h])
  BY RequestRow DEF HelmWaits
<1>2. app \in AppRows /\ branch \in Revision
  BY DEF AppRows
<1>3. appSync \in [AppSync -> SyncsAt]
  BY DEF SyncsAt
<1>4. HelmTypes
  BY <1>1, <1>2, <1>3 DEF HelmTypes
<1>5. Helm!StoreNamed /\ HandlersKnow /\ SyncAlone /\ RowTrue
  BY DEF Helm!StoreNamed, HandlersKnow, ListsOwn, SyncAlone, RowTrue
<1> QED BY <1>4, <1>5 DEF HelmInv

\* Requests that deploy nothing.
LEMMA RequestsKeep ==
    ASSUME HelmInv, NEW h \in Handler,
           Helm!Request(h) \/ Helm!ListDeployed(h) \/ Helm!FindKept(h)
    PROVE  HelmInv'
<1> USE DEF HelmInv
<1> DEFINE new == handler'[h]
<1>1. /\ UNCHANGED <<Helm!helm, Helm!apps, excused, appCrossed, drifted>>
      /\ handler' = [handler EXCEPT ![h] = new]
      /\ RequestAt(new) /\ ListsOwn(new)
  <2>1. CASE Helm!Request(h)
    <3>1. PICK r \in Release, c \in Chart, upgrade \in BOOLEAN,
               keep \in BOOLEAN :
             handler' = [handler EXCEPT ![h] =
               [Helm!Idle EXCEPT !.pc = "deploy", !.release = r, !.chart = c,
                            !.upgrade = upgrade, !.keep = keep]]
      BY <2>1 DEF Helm!Request
    <3>2. new = [pc |-> "deploy", release |-> r, chart |-> c,
              name |-> Helm!None,
                 upgrade |-> upgrade, keep |-> keep, overtaken |-> FALSE]
      BY <3>1 DEF Helm!Idle, HelmTypes
    <3> HIDE DEF new
    <3>3. RequestAt(new) /\ ListsOwn(new)
      BY <3>2, RequestRow DEF HelmWaits, ListsOwn
    <3> QED BY <2>1, <3>1, <3>3 DEF Helm!Request, HelmTypes, new
  <2>2. CASE Helm!ListDeployed(h)
    <3>1. handler' = [handler EXCEPT ![h] = new]
      BY <2>2 DEF Helm!ListDeployed, HelmTypes
    <3>2. CASE release[handler[h].release] = Helm!None
      <4>1. new = Helm!Idle
        BY <2>2, <3>2 DEF Helm!ListDeployed, HelmTypes
      <4> HIDE DEF new
      <4> QED BY <4>1, <3>1, <2>2, RequestRow DEF Helm!Idle, HelmWaits,
                 ListsOwn, Helm!ListDeployed
    <3>3. CASE release[handler[h].release] # Helm!None
      <4> DEFINE name == Name(release[handler[h].release])
      <4>1. new = [handler[h] EXCEPT !.pc = "copy", !.name = name]
        BY <2>2, <3>3 DEF Helm!ListDeployed, HelmTypes
      <4>2. RequestAt(handler[h]) /\ ListsOwn(handler[h])
        BY DEF HelmTypes, HandlersKnow
      <4>3. handler[h].pc = "list"
        BY <2>2 DEF Helm!ListDeployed
      <4> HIDE DEF new
      <4>4. /\ new.pc = "copy" /\ new.name = name
            /\ new.release = handler[h].release
            /\ new.chart = handler[h].chart
            /\ new.overtaken = handler[h].overtaken
            /\ new = [pc |-> "copy", release |-> handler[h].release,
                      chart |-> handler[h].chart, name |-> name,
                      upgrade |-> handler[h].upgrade, keep |-> handler[h].keep,
                      overtaken |-> handler[h].overtaken]
            /\ handler[h].upgrade \in BOOLEAN /\ handler[h].keep \in BOOLEAN
            /\ handler[h].overtaken \in BOOLEAN
        BY <4>1, <4>2 DEF RequestAt
      <4>5. RequestAt(new)
        BY <4>4, RequestRow DEF HelmWaits
      <4>6. ListsOwn(new)
        BY <4>2, <4>3, <4>4 DEF ListsOwn
      <4> QED BY <2>2, <3>1, <4>5, <4>6 DEF Helm!ListDeployed
    <3> QED BY <3>2, <3>3
  <2>3. CASE Helm!FindKept(h)
    <3>1. PICK r \in Release :
             handler' = [handler EXCEPT ![h] =
               [Helm!Idle EXCEPT !.pc = "again", !.release = r,
                            !.name = Name(release[r])]]
      BY <2>3 DEF Helm!FindKept
    <3>2. new = [pc |-> "again", release |-> r, chart |-> Helm!None,
                 name |-> Name(release[r]), upgrade |-> FALSE, keep |-> FALSE,
                 overtaken |-> FALSE]
      BY <3>1 DEF Helm!Idle, HelmTypes
    <3> HIDE DEF new
    <3>3. RequestAt(new) /\ ListsOwn(new)
      BY <3>2, RequestRow DEF HelmWaits, ListsOwn
    <3> QED BY <2>3, <3>1, <3>3 DEF Helm!FindKept, HelmTypes, new
  <2> QED BY <2>1, <2>2, <2>3
<1> HIDE DEF new
<1>2. \A g \in Handler : /\ RequestAt(handler'[g]) /\ ListsOwn(handler'[g])
                         /\ g # h => handler'[g] = handler[g]
  BY <1>1 DEF HelmTypes, HandlersKnow
<1>3. HelmTypes'
  BY <1>1, <1>2 DEF HelmTypes, Helm!helm, Helm!apps
<1>4. HandlersKnow'
  BY <1>1, <1>2 DEF HandlersKnow, ListsOwn, Helm!helm
<1>5. Helm!StoreNamed' /\ SyncAlone' /\ RowTrue'
  BY <1>1 DEF Helm!StoreNamed, SyncAlone, RowTrue, Helm!helm, Helm!apps
<1> QED BY <1>3, <1>4, <1>5

\* The chart is kept under the name found.
LEMMA CopyKeeps ==
    ASSUME HelmInv, NEW h \in Handler, Helm!CopyChart(h)
    PROVE  HelmInv'
<1> USE DEF HelmInv, Helm!CopyChart
<1>1. HelmTypes' /\ HandlersKnow'
  <2>1. RequestAt(Helm!Idle) /\ ListsOwn(Helm!Idle)
    BY RequestRow DEF Helm!Idle, HelmWaits, ListsOwn
  <2> QED BY <2>1 DEF HelmTypes, HandlersKnow, ListsOwn, Helm!apps
<1>2. Helm!StoreNamed'
  BY DEF Helm!StoreNamed, HelmTypes, HandlersKnow, ListsOwn
<1>3. SyncAlone' /\ RowTrue'
  BY DEF SyncAlone, RowTrue, Helm!apps
<1> QED BY <1>1, <1>2, <1>3

\* A deployment or a removal.
LEMMA OvertakeKeeps ==
    ASSUME HelmTypes, HandlersKnow, NEW h, NEW r \in Release, NEW c, NEW state,
           release' = [release EXCEPT ![r] = c], Helm!Overtake(h, r, state),
           RequestAt(state), state.pc # "idle" =>
              state.release = r /\ state.pc = "list" /\ state.chart = c
    PROVE  /\ handler' = [g \in Handler |-> handler'[g]]
           /\ (\A g \in Handler : RequestAt(handler[g]))' /\ HandlersKnow'
<1>1. ASSUME NEW g \in Handler
      PROVE  RequestAt(handler[g])' /\ ListsOwn(handler[g])'
  <2>1. CASE g = h
    <3>1. handler'[g] = state
      BY <2>1 DEF Helm!Overtake
    <3>2. release'[r] = c
      BY DEF HelmTypes
    <3>3. ListsOwn(handler[g])'
      BY <3>1, <3>2 DEF ListsOwn
    <3> QED BY <3>1, <3>3 DEF RequestAt
  <2>2. CASE g # h /\ handler[g].pc = "list" /\ handler[g].release = r
    <3> DEFINE q == handler[g]
    <3>1. handler'[g] = [q EXCEPT !.overtaken = TRUE]
      BY <2>2 DEF Helm!Overtake
    <3>2. RequestAt(q) /\ ListsOwn(q)
      BY DEF HelmTypes, HandlersKnow
    <3>3. /\ q.upgrade \in BOOLEAN /\ q.keep \in BOOLEAN
          /\ handler'[g] = [pc |-> "list", release |-> q.release,
                            chart |-> q.chart, name |-> q.name,
                            upgrade |-> q.upgrade, keep |-> q.keep,
                            overtaken |-> TRUE]
      BY <2>2, <3>1, <3>2 DEF RequestAt
    <3>4. RequestAt(handler[g])'
      <4> DEFINE new == [pc |-> "list", release |-> q.release,
                         chart |-> q.chart, name |-> q.name,
                         upgrade |-> q.upgrade, keep |-> q.keep,
                         overtaken |-> TRUE]
      <4>1. RequestAt(new) /\ handler'[g] = new
        BY <3>3, RequestRow DEF HelmWaits
      <4> HIDE DEF new
      <4> QED BY <4>1 DEF RequestAt
    <3>5. q.release \in Release
      BY <2>2, <3>2 DEF ListsOwn
    <3>6. ListsOwn(handler[g])'
      BY <3>3, <3>5 DEF ListsOwn
    <3> QED BY <3>4, <3>6
  <2>3. CASE g # h /\ ~(handler[g].pc = "list" /\ handler[g].release = r)
    <3>1. handler'[g] = handler[g]
      BY <2>3 DEF Helm!Overtake
    <3> QED BY <2>3, <3>1 DEF HelmTypes, HandlersKnow, ListsOwn
  <2> QED BY <2>1, <2>2, <2>3
<1>2. handler' = [g \in Handler |-> handler'[g]]
  BY DEF Helm!Overtake
<1> QED BY <1>1, <1>2 DEF HandlersKnow

LEMMA ByHandKeeps ==
    ASSUME HelmInv, NEW h \in Handler, NEW r \in Release, NEW c, NEW state,
           release' = [release EXCEPT ![r] = c], Helm!ByHand(r),
           Helm!Overtake(h, r, state), RequestAt(state), state.pc # "idle" =>
              state.release = r /\ state.pc = "list" /\ state.chart = c,
           UNCHANGED <<store, Helm!apps, excused>>
    PROVE  HelmInv'
<1> USE DEF HelmInv
<1>1. /\ handler' = [g \in Handler |-> handler'[g]]
      /\ (\A g \in Handler : RequestAt(handler[g]))' /\ HandlersKnow'
  BY OvertakeKeeps
<1>2. HelmTypes'
  BY <1>1 DEF HelmTypes, Helm!apps
<1>3. Helm!StoreNamed'
  BY DEF Helm!StoreNamed
<1>4. SyncAlone' /\ RowTrue'
  BY AppNames DEF SyncAlone, RowTrue, Helm!apps, Helm!ByHand, HelmTypes,
     Helm!Syncing
<1> QED BY <1>1, <1>2, <1>3, <1>4

\* The requests that change a release, or fail to.
LEMMA ByHandsKeep ==
    ASSUME HelmInv, NEW h \in Handler,
           Helm!HelmDeploy(h) \/ Helm!DeployKept(h) \/ Helm!Rollback(h)
               \/ Helm!Uninstall(h)
    PROVE  HelmInv'
<1> USE DEF HelmInv
<1>1. RequestAt(Helm!Idle) /\ ListsOwn(Helm!Idle) /\ Helm!Idle.pc = "idle"
  BY RequestRow DEF Helm!Idle, HelmWaits, ListsOwn
<1>2. RequestAt(handler[h]) /\ ListsOwn(handler[h])
  BY DEF HelmTypes, HandlersKnow
<1>3. ASSUME NEW r \in Release, NEW c, Helm!Deploy(r, c), Helm!ByHand(r),
             Helm!Overtake(h, r, Helm!Idle),
                 UNCHANGED <<store, Helm!apps, excused>>
      PROVE  HelmInv'
  BY <1>1, <1>3, ByHandKeeps DEF Helm!Deploy
<1>4. CASE Helm!HelmDeploy(h)
  <2> DEFINE r == handler[h].release
             state == IF handler[h].keep
                      THEN [handler[h] EXCEPT !.pc = "list"] ELSE Helm!Idle
  <2>1. r \in Release /\ handler[h].pc = "deploy"
    BY <1>2, <1>4 DEF Helm!HelmDeploy, ListsOwn
  <2>2. CASE /\ Helm!Deploy(r, handler[h].chart) /\ Helm!ByHand(r)
             /\ Helm!Overtake(h, r, state) /\ UNCHANGED store
    <3>1. [handler[h] EXCEPT !.pc = "list"] =
             [pc |-> "list", release |-> r, chart |-> handler[h].chart,
              name |-> handler[h].name, upgrade |-> handler[h].upgrade,
              keep |-> handler[h].keep, overtaken |-> handler[h].overtaken]
      BY <1>2 DEF RequestAt
    <3>2. /\ handler[h].upgrade \in BOOLEAN /\ handler[h].keep \in BOOLEAN
          /\ handler[h].overtaken \in BOOLEAN
      BY <1>2 DEF RequestAt
    <3>3. RequestAt([handler[h] EXCEPT !.pc = "list"])
      BY <3>1, <3>2, RequestRow DEF HelmWaits
    <3>4. /\ RequestAt(state)
          /\ state.pc # "idle" => /\ state.release = r /\ state.pc = "list"
                                  /\ state.chart = handler[h].chart
      BY <3>1, <3>3, <1>1
    <3> HIDE DEF state
    <3> QED BY <1>4, <2>1, <2>2, <3>4, ByHandKeeps DEF Helm!HelmDeploy,
               Helm!Deploy
  <2>3. CASE /\ handler' = [handler EXCEPT ![h] = Helm!Idle]
             /\ UNCHANGED <<Helm!helm, appCrossed, drifted>>
    <3>1. UNCHANGED <<Helm!apps, excused>>
      BY <1>4 DEF Helm!HelmDeploy
    <3>2. HelmTypes' /\ HandlersKnow'
      BY <1>1, <2>3, <3>1 DEF HelmTypes, HandlersKnow, ListsOwn, Helm!helm,
         Helm!apps
    <3> QED BY <2>3, <3>1, <3>2 DEF Helm!StoreNamed, SyncAlone, RowTrue,
               Helm!helm, Helm!apps
  <2> QED BY <1>4, <2>2, <2>3 DEF Helm!HelmDeploy
<1>5. CASE Helm!DeployKept(h)
  BY <1>2, <1>3, <1>5 DEF Helm!DeployKept, ListsOwn
<1>6. CASE Helm!Rollback(h)
  BY <1>3, <1>6 DEF Helm!Rollback
<1>7. CASE Helm!Uninstall(h)
  <2>1. PICK r \in Release :
           /\ release' = [release EXCEPT ![r] = Helm!None]
           /\ Helm!ByHand(r) /\ Helm!Overtake(h, r, Helm!Idle)
    BY <1>7 DEF Helm!Uninstall
  <2> QED BY <1>1, <1>7, <2>1, ByHandKeeps DEF Helm!Uninstall
<1> QED BY <1>4, <1>5, <1>6, <1>7

\* The user's edit of the application, and a commit.
LEMMA AppEditKeeps ==
    ASSUME HelmInv, Helm!EditApp \/ Helm!Commit
    PROVE  HelmInv'
<1> USE DEF HelmInv
<1>1. CASE Helm!EditApp
  <2>1. /\ UNCHANGED <<Helm!helm, branch, appSync, last, handler, excused,
               drifted>>
        /\ app' \in AppRows /\ app'.status = app.status /\ app'.auto = meant'
        /\ appCrossed' = (appCrossed \/ Helm!Syncing)
    BY <1>1 DEF Helm!EditApp, HelmTypes, AppRows
  <2> QED BY <2>1 DEF HelmTypes, Helm!StoreNamed, HandlersKnow, ListsOwn,
             SyncAlone, RowTrue, Helm!Syncing, Helm!helm
<1>2. CASE Helm!Commit
  BY <1>2 DEF Helm!Commit, HelmTypes, Helm!StoreNamed, HandlersKnow, ListsOwn,
     SyncAlone, RowTrue, Helm!helm
<1> QED BY <1>1, <1>2

\* A step of a sync changes its own place only.
LEMMA SyncPlace ==
    ASSUME HelmTypes, RowTrue, NEW s \in AppSync, NEW new \in SyncsAt,
           appSync' = [appSync EXCEPT ![s] = new]
    PROVE  /\ appSync' \in [AppSync -> SyncsAt] /\ appSync'[s] = new
           /\ \A t \in AppSync \ {s} : appSync'[t] = appSync[t]
BY DEF HelmTypes

LEMMA SyncBeginKeeps ==
    ASSUME HelmInv, NEW s \in AppSync, Helm!SyncBegin(s)
    PROVE  HelmInv'
<1> USE DEF HelmInv
<1>1. PICK force \in BOOLEAN :
         appSync' = [appSync EXCEPT ![s] = [pc |-> "clone", force |-> force,
                                          row |-> app, rev |-> Helm!None]]
  BY DEF Helm!SyncBegin
<1> DEFINE new == [pc |-> "clone", force |-> force, row |-> app,
        rev |-> Helm!None]
<1>2. new \in SyncsAt
  BY DEF SyncsAt, HelmTypes
<1>3. new.pc = "clone" /\ new.row = app
  OBVIOUS
<1> HIDE DEF new
<1>4. /\ appSync' \in [AppSync -> SyncsAt] /\ appSync'[s] = new
      /\ \A t \in AppSync \ {s} : appSync'[t] = appSync[t]
  BY <1>1, <1>2, SyncPlace DEF new
<1>5. /\ UNCHANGED <<Helm!helm, branch, app, meant, last, handler, excused,
                     drifted>>
      /\ appCrossed' = (Helm!Syncing \/ (appCrossed /\ app.auto # meant))
  BY DEF Helm!SyncBegin
<1>6. HelmTypes' /\ Helm!StoreNamed' /\ HandlersKnow' /\ RowTrue'
  BY <1>3, <1>4, <1>5 DEF HelmTypes, Helm!StoreNamed, HandlersKnow, ListsOwn,
     RowTrue, Helm!helm
<1>7. SyncAlone'
  BY <1>3, <1>4, <1>5 DEF SyncAlone, Helm!Syncing
<1> QED BY <1>6, <1>7

\* The steps that save no row of the application, and deploy nothing.
LEMMA QuietSyncKeeps ==
    ASSUME HelmInv, NEW s \in AppSync, Helm!Clone(s) \/ Helm!SyncerDies(s)
    PROVE  HelmInv'
<1> USE DEF HelmInv
<1> DEFINE new == appSync'[s]
<1>1. /\ UNCHANGED <<Helm!helm, branch, app, meant, last, handler, excused,
             appCrossed,
                     drifted>>
      /\ appSync' = [appSync EXCEPT ![s] = new]
      /\ new \in SyncsAt /\ new.pc \in {"idle", "compare"}
      /\ new.pc # "idle" => new.row = appSync[s].row /\ appSync[s].pc # "idle"
  <2>1. CASE Helm!Clone(s)
    <3>1. new = [appSync[s] EXCEPT !.pc = "compare", !.rev = branch]
      BY <2>1 DEF Helm!Clone, HelmTypes
    <3>2. appSync' = [appSync EXCEPT ![s] = new]
      BY <2>1 DEF Helm!Clone, HelmTypes
    <3>3. appSync[s] \in SyncsAt /\ branch \in Revision
      BY DEF HelmTypes
    <3> HIDE DEF new
    <3>4. new \in SyncsAt /\ new.pc = "compare" /\ new.row = appSync[s].row
      BY <3>1, <3>3 DEF SyncsAt
    <3> QED BY <2>1, <3>2, <3>4 DEF Helm!Clone
  <2>2. CASE Helm!SyncerDies(s)
    <3>1. new = Helm!Asleep /\ appSync' = [appSync EXCEPT ![s] = new]
      BY <2>2 DEF Helm!SyncerDies, Helm!Rest, HelmTypes
    <3> HIDE DEF new
    <3> QED BY <2>2, <3>1 DEF Helm!SyncerDies, Helm!Asleep, SyncsAt
  <2> QED BY <2>1, <2>2
<1> HIDE DEF new
<1>2. /\ appSync' \in [AppSync -> SyncsAt] /\ appSync'[s] = new
      /\ \A t \in AppSync \ {s} : appSync'[t] = appSync[t]
  BY <1>1, SyncPlace
<1>3. HelmTypes' /\ Helm!StoreNamed' /\ HandlersKnow' /\ RowTrue'
  BY <1>1, <1>2 DEF HelmTypes, Helm!StoreNamed, HandlersKnow, ListsOwn,
     RowTrue, Helm!helm
<1>4. SyncAlone'
  BY <1>1, <1>2 DEF SyncAlone, Helm!Syncing, Helm!helm
<1> QED BY <1>3, <1>4

\* What a sync saves, it saves of the application as it was, or the row is
\* known to be doubtful.
LEMMA SaveKeeps ==
    ASSUME HelmInv, NEW s \in AppSync, NEW new \in SyncsAt,
           NEW copy \in AppRows,
           appSync' = [appSync EXCEPT ![s] = new], appSync[s].pc # "idle",
           Helm!SaveRow(s, copy),
           UNCHANGED <<Helm!helm, branch, meant, handler, excused,
               appCrossed>>,
           ~appCrossed => copy.auto = meant,
           ~appCrossed /\ copy.status = "Synced" =>
              release[App] = appSync[s].rev,
           new.pc # "idle" => /\ new.row \in AppRows
                              /\ new.row.auto = appSync[s].row.auto,
           new.pc = "upgrade" => copy.status # "Synced",
           new.pc \in {"record", "save"} /\ new.row.status = "Synced"
               /\ ~appCrossed
              => release[App] = new.rev
    PROVE  HelmInv'
<1> USE DEF HelmInv
<1>1. /\ appSync' \in [AppSync -> SyncsAt] /\ appSync'[s] = new
      /\ \A t \in AppSync \ {s} : appSync'[t] = appSync[t]
  BY SyncPlace
<1>2. /\ app' = copy /\ last' = appSync[s].rev /\ drifted' = appCrossed
      /\ UNCHANGED <<store, release, past, branch, meant, handler, excused,
                     appCrossed>>
  BY DEF Helm!SaveRow, Helm!helm
<1>3. HelmTypes' /\ Helm!StoreNamed' /\ HandlersKnow'
  BY <1>1, <1>2 DEF HelmTypes, Helm!StoreNamed, HandlersKnow, ListsOwn
<1>4. RowTrue'
  BY <1>1, <1>2 DEF RowTrue, SyncAlone
<1>5. SyncAlone'
  BY <1>1, <1>2 DEF SyncAlone
<1> QED BY <1>3, <1>4, <1>5

LEMMA SyncSavesKeep ==
    ASSUME HelmInv, NEW s \in AppSync,
           Helm!SyncRaises(s) \/ Helm!SyncRecord(s) \/ Helm!SyncSave(s)
    PROVE  HelmInv'
<1> USE DEF HelmInv
<1> DEFINE q == appSync[s]
<1>1. q \in SyncsAt /\ Helm!Asleep \in SyncsAt /\ Helm!Asleep.pc = "idle"
  BY DEF HelmTypes, Helm!Asleep, SyncsAt
<1>2. q.pc # "idle" => q.row \in AppRows
  BY DEF RowTrue
<1>3. ~appCrossed /\ q.pc # "idle" =>
         /\ q.row.auto = meant
         /\ q.pc \in {"record", "save"} /\ q.row.status = "Synced" =>
               release[App] = q.rev
  BY DEF SyncAlone
<1>4. CASE Helm!SyncRaises(s)
  <2> DEFINE copy == [q.row EXCEPT !.status = "Error"]
  <2>1. q.pc \in {"clone", "compare"} /\ Helm!SaveRow(s, copy)
        /\ appSync' = [appSync EXCEPT ![s] = Helm!Asleep]
    BY <1>4 DEF Helm!SyncRaises, Helm!Rest
  <2>2. copy \in AppRows /\ copy.status = "Error" /\ copy.auto = q.row.auto
    BY <1>2, <2>1 DEF AppRows
  <2> HIDE DEF copy
  <2> QED BY <1>1, <1>3, <1>4, <2>1, <2>2, SaveKeeps DEF Helm!SyncRaises
<1>5. CASE Helm!SyncRecord(s)
  <2> DEFINE new == [q EXCEPT !.pc = "save", !.row = q.row]
  <2>1. q.pc = "record" /\ Helm!SaveRow(s, q.row)
        /\ appSync' = [appSync EXCEPT ![s] = new]
    BY <1>5 DEF Helm!SyncRecord, Helm!Goto, HelmTypes
  <2>2. /\ new \in SyncsAt /\ new.pc = "save" /\ new.row = q.row
        /\ new.rev = q.rev
    BY <1>1 DEF SyncsAt
  <2> HIDE DEF new
  <2> QED BY <1>2, <1>3, <1>5, <2>1, <2>2, SaveKeeps DEF Helm!SyncRecord
<1>6. CASE Helm!SyncSave(s)
  BY <1>1, <1>2, <1>3, <1>6, SaveKeeps DEF Helm!SyncSave, Helm!Rest
<1> QED BY <1>4, <1>5, <1>6

LEMMA CompareKeeps ==
    ASSUME HelmInv, NEW s \in AppSync, Helm!Compare(s)
    PROVE  HelmInv'
<1> USE DEF HelmInv
<1> DEFINE q == appSync[s]
           equal == release[App] = q.rev
           status == IF equal THEN "Synced"
                     ELSE IF Helm!Wanted(s) THEN "Syncing" ELSE "OutOfSync"
           pc == IF ~equal /\ Helm!Wanted(s) THEN "upgrade" ELSE "save"
           new == [q EXCEPT !.pc = pc,
               !.row = [q.row EXCEPT !.status = status]]
<1>1. /\ appSync' = [appSync EXCEPT ![s] = new] /\ q.pc = "compare"
      /\ IF equal THEN UNCHANGED <<app, last, drifted>>
         ELSE Helm!SaveRow(s, [app EXCEPT !.status = status])
      /\ UNCHANGED <<Helm!helm, branch, meant, handler, excused, appCrossed,
             left>>
  BY DEF Helm!Compare, Helm!Goto, HelmTypes
<1>2. q \in SyncsAt /\ q.row \in AppRows /\ app \in AppRows
  BY <1>1 DEF HelmTypes, RowTrue
<1>3. ~appCrossed => q.row.auto = meant /\ app.auto = meant
  BY <1>1 DEF SyncAlone
<1>4. /\ status \in {"Synced", "Syncing", "OutOfSync"}
      /\ status = "Synced" => equal /\ (pc = "upgrade" => ~equal)
      /\ pc \in {"upgrade", "save"} /\ equal => pc = "save"
      /\ ~equal => status # "Synced"
  OBVIOUS
<1> HIDE DEF status, pc
<1>5. /\ new \in SyncsAt /\ new.pc = pc /\ new.rev = q.rev
      /\ new.row \in AppRows /\ new.row.status = status
      /\ new.row.auto = q.row.auto /\ pc \in {"upgrade", "save"}
  <2>1. pc \in {"upgrade", "save"}
    BY DEF pc
  <2>2. [q.row EXCEPT !.status = status] \in AppRows
    BY <1>2, <1>4 DEF AppRows
  <2> QED BY <1>2, <1>4, <2>1, <2>2 DEF SyncsAt, AppRows
<1>6. [app EXCEPT !.status = status] \in AppRows
  BY <1>2, <1>4 DEF AppRows
<1>7. [app EXCEPT !.status = status].status = status
      /\ [app EXCEPT !.status = status].auto = app.auto
  BY <1>2 DEF AppRows
<1>8. equal => pc = "save"
  BY DEF pc
<1> HIDE DEF new
<1>9. CASE ~equal
  BY <1>1, <1>3, <1>4, <1>5, <1>6, <1>7, <1>9, SaveKeeps
<1>10. CASE equal
  <2>1. /\ appSync' \in [AppSync -> SyncsAt] /\ appSync'[s] = new
        /\ \A t \in AppSync \ {s} : appSync'[t] = appSync[t]
    BY <1>1, <1>5, SyncPlace
  <2>2. UNCHANGED <<store, release, past, branch, app, meant, last, handler,
                    excused, appCrossed, drifted>>
    BY <1>1, <1>10 DEF Helm!helm
  <2>3. HelmTypes' /\ Helm!StoreNamed' /\ HandlersKnow'
    BY <2>1, <2>2 DEF HelmTypes, Helm!StoreNamed, HandlersKnow, ListsOwn
  <2>4. SyncAlone'
    BY <1>1, <1>3, <1>5, <1>8, <1>10, <2>1, <2>2 DEF SyncAlone
  <2>5. RowTrue'
    BY <1>1, <1>5, <1>8, <1>10, <2>1, <2>2 DEF RowTrue
  <2> QED BY <2>3, <2>4, <2>5
<1> QED BY <1>9, <1>10

LEMMA UpgradeKeeps ==
    ASSUME HelmInv, NEW s \in AppSync, Helm!SyncUpgrade(s)
    PROVE  HelmInv'
<1> USE DEF HelmInv
<1> DEFINE q == appSync[s]
           good == [q.row EXCEPT !.status = "Synced", !.revision = q.rev]
           bad  == [q.row EXCEPT !.status = "Error"]
<1>1. q \in SyncsAt /\ q.row \in AppRows /\ q.pc = "upgrade"
  BY DEF HelmTypes, RowTrue, Helm!SyncUpgrade
<1>2. /\ good \in AppRows /\ good.auto = q.row.auto
      /\ bad \in AppRows /\ bad.auto = q.row.auto /\ bad.status = "Error"
  BY <1>1 DEF AppRows, SyncsAt
<1>3. UNCHANGED <<store, branch, app, meant, last, excused, appCrossed,
          drifted>>
  BY DEF Helm!SyncUpgrade
<1>4. app.status # "Synced" \/ drifted
  BY <1>1 DEF RowTrue
<1> HIDE DEF good, bad
<1>5. CASE /\ Helm!Deploy(App, q.rev)
           /\ Helm!Overtake(Helm!None, App, Helm!Idle)
           /\ Helm!Goto(s, "record", good)
  <2> DEFINE new == [q EXCEPT !.pc = "record", !.row = good]
  <2>1. appSync' = [appSync EXCEPT ![s] = new]
    BY <1>5 DEF Helm!Goto, HelmTypes
  <2>2. /\ new \in SyncsAt /\ new.pc = "record" /\ new.row = good
        /\ new.rev = q.rev
    BY <1>1, <1>2 DEF SyncsAt
  <2> HIDE DEF new
  <2>3. /\ appSync' \in [AppSync -> SyncsAt] /\ appSync'[s] = new
        /\ \A t \in AppSync \ {s} : appSync'[t] = appSync[t]
    BY <2>1, <2>2, SyncPlace
  <2>4. release' = [release EXCEPT ![App] = q.rev] /\ release'[App] = q.rev
    BY <1>5, AppNames DEF Helm!Deploy, HelmTypes
  <2>5. RequestAt(Helm!Idle) /\ Helm!Idle.pc = "idle"
    BY RequestRow DEF Helm!Idle, HelmWaits
  <2>6. /\ handler' = [g \in Handler |-> handler'[g]]
        /\ (\A g \in Handler : RequestAt(handler[g]))' /\ HandlersKnow'
    BY <1>5, <2>4, <2>5, AppNames, OvertakeKeeps
  <2>7. HelmTypes' /\ Helm!StoreNamed'
    BY <1>3, <2>3, <2>4, <2>6 DEF HelmTypes, Helm!StoreNamed
  <2>8. SyncAlone'
    BY <1>1, <1>2, <1>3, <2>2, <2>3, <2>4 DEF SyncAlone
  <2>9. RowTrue'
    <3>1. app.status = "Synced" => drifted
      BY <1>4
    <3> QED BY <1>1, <1>2, <1>3, <2>2, <2>3, <3>1 DEF RowTrue
  <2> QED BY <2>6, <2>7, <2>8, <2>9
<1>6. CASE Helm!Goto(s, "record", bad) /\ UNCHANGED <<release, past, handler>>
  <2> DEFINE new == [q EXCEPT !.pc = "record", !.row = bad]
  <2>1. appSync' = [appSync EXCEPT ![s] = new]
    BY <1>6 DEF Helm!Goto, HelmTypes
  <2>2. new \in SyncsAt /\ new.pc = "record" /\ new.row = bad
    BY <1>1, <1>2 DEF SyncsAt
  <2> HIDE DEF new
  <2>3. /\ appSync' \in [AppSync -> SyncsAt] /\ appSync'[s] = new
        /\ \A t \in AppSync \ {s} : appSync'[t] = appSync[t]
    BY <2>1, <2>2, SyncPlace
  <2>4. HelmTypes' /\ Helm!StoreNamed' /\ HandlersKnow'
    BY <1>3, <1>6, <2>3 DEF HelmTypes, Helm!StoreNamed, HandlersKnow, ListsOwn
  <2>5. SyncAlone'
    BY <1>1, <1>2, <1>3, <1>6, <2>2, <2>3 DEF SyncAlone
  <2>6. RowTrue'
    BY <1>2, <1>3, <1>6, <2>2, <2>3 DEF RowTrue
  <2> QED BY <2>4, <2>5, <2>6
<1> QED BY <1>5, <1>6 DEF Helm!SyncUpgrade, good, bad

LEMMA HelmNext == ASSUME HelmInv, [Helm!Next]_helmVars PROVE HelmInv'
<1>1. CASE UNCHANGED helmVars
  BY <1>1 DEF helmVars, Helm!helm, Helm!apps, HelmInv, HelmTypes,
     Helm!StoreNamed, HandlersKnow, ListsOwn, SyncAlone, RowTrue
<1> QED BY <1>1, RequestsKeep, CopyKeeps, ByHandsKeep, AppEditKeeps,
           SyncBeginKeeps, QuietSyncKeeps, SyncSavesKeep, CompareKeeps,
           UpgradeKeeps DEF Helm!Next

LEMMA HelmFollows == HelmInv => Helm!ReleasesSound
BY DEF HelmInv, Helm!ReleasesSound, Helm!SyncHonest, SyncAlone, RowTrue,
   Helm!StoreNamed

LEMMA HelmSteps ==
    ASSUME part = "helm", [Next]_vars
    PROVE  [Helm!Next]_helmVars
BY DEF Next, vars, helmVars

\* A chart is kept under its own name unless its request was overtaken, and a
\* row that says 'Synced' tells what is deployed unless something crossed the
\* sync, for any number of requests, syncs, charts and edits.
\* Code: K8sClusterViewSet chart and helm views, tasks.sync_k8s_application.
HelmHeld == part = "helm" => HelmInv
THEOREM ReleasesHold == Spec => []ReleasesSound
<1>1. Init => HelmHeld
  BY HelmInit DEF Init, HelmHeld
<1>2. HelmHeld /\ [Next]_vars => HelmHeld'
  BY PartStays, HelmSteps, HelmNext DEF HelmHeld
<1>3. HelmHeld => ReleasesSound
  BY HelmFollows DEF HelmHeld, ReleasesSound
<1> QED BY <1>1, <1>2, <1>3, PTL DEF Spec

=============================================================================
