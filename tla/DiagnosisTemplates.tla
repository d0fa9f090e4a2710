------------------------- MODULE DiagnosisTemplates -------------------------
(***************************************************************************)
(* A diagnosis template with its numbered versions, edited by several      *)
(* requests, the replays of a case that uses it, and the circuit breaker   *)
(* around the AI calls the replays make.                                   *)
(*                                                                         *)
(* Nothing but the rollback is a transaction: an edit saves the template   *)
(* and then inserts the version row, which a unique constraint may refuse. *)
(* A version row holds the content with its secrets masked.                *)
(***************************************************************************)
EXTENDS Naturals, FiniteSets

CONSTANTS
    Editor,          \* requests that change the template
    Text,            \* what a template says; one text may hold a secret
    Result,          \* ids of DiagnosisReplayResult rows
    Caller,          \* workers running replays
    AiLimit,         \* SRE_DIAGNOSIS_AI_CIRCUIT_FAILURES
    Changes,         \* bound: changes of the template
    AiFaults,        \* bound: failed calls, deaths, refused, doubled messages
    TemplateBudgets  \* pairs of changes and faults a behaviour may use

VARIABLES
    template,        \* the DiagnosisTemplate row
    versions,        \* its DiagnosisTemplateVersion rows, by number
    editor,          \* what each request does, with the row it has read
    result,          \* DiagnosisReplayResult rows
    messages,        \* queued replays
    caller,          \* what each worker does
    count,           \* cache: 'sre:diagnosis:ai:failure-count'
    open,            \* cache: 'sre:diagnosis:ai:circuit-open'
    failed,          \* history: calls that failed
    torn,            \* history: saves overlapped, or a request died half-way
    changesLeft, aiFaultsLeft

vars == <<template, versions, editor, result, messages, caller, count, open,
          failed, torn, changesLeft, aiFaultsLeft>>

None      == "none"
Blank     == [text |-> None, secret |-> "none"]
Content   == [text : Text, secret : {"none", "kept", "masked"}]
MaxVersion == Changes
Redact(c) == [c EXCEPT !.secret = IF @ = "none" THEN "none" ELSE "masked"]
NoTemplate == [version |-> 0, content |-> Blank, active |-> FALSE]
Resting   == [pc |-> "rest", row |-> NoTemplate, next |-> NoTemplate]
Waiting   == [pc |-> "rest", id |-> None, read |-> 0, used |-> Blank]
NoResult  == [status |-> None, label |-> 0, used |-> Blank, edited |-> FALSE]

Init ==
    /\ template = NoTemplate
    /\ versions = [v \in 1..MaxVersion |-> Blank]
    /\ editor = [h \in Editor |-> Resting]
    /\ result = [r \in Result |-> NoResult]
    /\ messages = {}
    /\ caller = [w \in Caller |-> Waiting]
    /\ count = 0 /\ open = FALSE /\ failed = 0 /\ torn = FALSE
    /\ \E b \in TemplateBudgets : changesLeft = b[1] /\ aiFaultsLeft = b[2]

template_  == <<template, versions, editor, torn, changesLeft>>
breaker    == <<count, open, failed>>
replays    == <<result, messages, caller, breaker, aiFaultsLeft>>

-----------------------------------------------------------------------------
(* The template.                                                           *)

Edited(row) ==
    result' = [r \in Result |->
                 [result[r] EXCEPT !.edited =
                    @ \/ (row # template /\ result[r].status # None)]]

\* perform_create saves the row, then inserts version 1.
Create(h, c) ==
    /\ editor[h].pc = "rest" /\ template.version = 0 /\ changesLeft > 0
    /\ changesLeft' = changesLeft - 1
    /\ template' = [version |-> 1, content |-> c, active |-> TRUE]
    /\ editor' = [editor EXCEPT ![h] = [pc |-> "number", row |-> template',
                                        next |-> template']]
    /\ UNCHANGED <<versions, torn, replays>>

\* Variant: an edit that keeps the number of the template.
EditReadSameNumber(h) ==
    /\ editor[h].pc = "rest" /\ template.version > 0 /\ changesLeft > 0
    /\ changesLeft' = changesLeft - 1
    /\ \E c \in Content, a \in BOOLEAN :
         /\ c.secret # "masked" \/ c = template.content
         /\ editor' = [editor EXCEPT ![h] =
              [pc |-> "save", row |-> template,
               next |-> [template EXCEPT !.content = c, !.active = a]]]
    /\ UNCHANGED <<template, versions, torn, replays>>

\* update and partial_update read the row.  A change of the content takes the
\* next number; enabling or disabling the template does not.
EditRead(h) ==
    /\ editor[h].pc = "rest" /\ template.version > 0 /\ changesLeft > 0
    /\ changesLeft' = changesLeft - 1
    /\ \E c \in Content, a \in BOOLEAN :
         /\ c.secret # "masked" \/ c = template.content
         /\ editor' = [editor EXCEPT ![h] =
              [pc |-> "save", row |-> template,
               next |-> [version |-> template.version
                                     + IF c # template.content THEN 1 ELSE 0,
                         content |-> c, active |-> a]]]
    /\ UNCHANGED <<template, versions, torn, replays>>

\* serializer.save writes every field of the row that was read.
EditSave(h) ==
    /\ editor[h].pc = "save"
    /\ template' = editor[h].next
    /\ torn' = (torn \/ template # editor[h].row)
    /\ Edited(template')
    /\ editor' = [editor EXCEPT ![h] =
         IF editor[h].next.version = editor[h].row.version THEN Resting
         ELSE [@ EXCEPT !.pc = "number"]]
    /\ UNCHANGED <<versions, changesLeft, messages, caller, breaker,
                   aiFaultsLeft>>

\* create_template_version; the unique constraint refuses a number twice.
InsertVersion(h) ==
    /\ editor[h].pc = "number"
    /\ LET v == editor[h].next.version IN
       IF versions[v] = Blank
       THEN versions' = [versions EXCEPT ![v] = Redact(editor[h].next.content)]
            /\ UNCHANGED torn
       ELSE torn' = TRUE /\ UNCHANGED versions
    /\ editor' = [editor EXCEPT ![h] = Resting]
    /\ UNCHANGED <<template, changesLeft, replays>>

EditorDies(h) ==
    /\ editor[h].pc # "rest" /\ aiFaultsLeft > 0
    /\ aiFaultsLeft' = aiFaultsLeft - 1
    /\ torn' = (torn \/ editor[h].pc = "number")
    /\ editor' = [editor EXCEPT ![h] = Resting]
    /\ UNCHANGED <<template, versions, changesLeft, result, messages, caller,
                   breaker>>

\* rollback reads the row and the version, and commits both writes together;
\* the masked content becomes the template's.
RollbackRead(h) ==
    /\ editor[h].pc = "rest" /\ changesLeft > 0
    /\ changesLeft' = changesLeft - 1
    /\ \E v \in 1..MaxVersion :
         /\ versions[v] # Blank
         /\ editor' = [editor EXCEPT ![h] =
              [pc |-> "rollback", row |-> template,
               next |-> [template EXCEPT !.version = @ + 1,
                                         !.content = versions[v]]]]
    /\ UNCHANGED <<template, versions, torn, replays>>
RollbackCommit(h) ==
    /\ editor[h].pc = "rollback"
    /\ LET n == editor[h].next IN
       IF versions[n.version] = Blank
       THEN /\ template' = [n EXCEPT !.active = template.active]
            /\ versions' = [versions EXCEPT ![n.version] = Redact(n.content)]
            /\ torn' = (torn \/ template # editor[h].row)
            /\ Edited(template')
       ELSE UNCHANGED <<template, versions, torn, result>>
    /\ editor' = [editor EXCEPT ![h] = Resting]
    /\ UNCHANGED <<changesLeft, messages, caller, breaker, aiFaultsLeft>>

\* publish and deprecate write only the switch.
Switch(a) ==
    /\ template.version > 0 /\ template.active # a /\ changesLeft > 0
    /\ changesLeft' = changesLeft - 1
    /\ template' = [template EXCEPT !.active = a]
    /\ UNCHANGED <<versions, editor, torn, replays>>

-----------------------------------------------------------------------------
(* Replays.                                                                *)

\* run: the row takes the template's number, and the task is queued.
RunReplay(r) ==
    /\ result[r].status = None /\ template.version > 0
    /\ result' = [result EXCEPT ![r] = [NoResult EXCEPT !.status = "pending",
                                          !.label = template.version]]
    /\ \/ messages' = messages \cup {r} /\ UNCHANGED aiFaultsLeft
       \/ /\ aiFaultsLeft > 0 /\ aiFaultsLeft' = aiFaultsLeft - 1
          /\ UNCHANGED messages
    /\ UNCHANGED <<caller, breaker, template_>>

\* run_diagnosis_replay loads the result, the case and the template, and never
\* looks at the status it finds.
ReplayTake(w) ==
    /\ caller[w].pc = "rest"
    /\ \E r \in messages :
         /\ caller' = [caller EXCEPT ![w] = [pc |-> "ask", id |-> r, read |-> 0,
                                             used |-> template.content]]
         /\ result' = [result EXCEPT ![r].status = "running"]
         /\ \/ messages' = messages \ {r} /\ UNCHANGED aiFaultsLeft
            \/ /\ aiFaultsLeft > 0 /\ aiFaultsLeft' = aiFaultsLeft - 1
               /\ UNCHANGED messages
    /\ UNCHANGED <<breaker, template_>>

\* _invoke_diagnosis_ai.
At(w, pc) == caller' = [caller EXCEPT ![w].pc = pc]
AskRefused(w) ==
    /\ caller[w].pc = "ask" /\ open /\ At(w, "fail")
    /\ UNCHANGED <<result, messages, breaker, aiFaultsLeft, template_>>
Ask(w) ==
    /\ caller[w].pc = "ask" /\ ~open /\ At(w, "wait")
    /\ UNCHANGED <<result, messages, breaker, aiFaultsLeft, template_>>
Answered(w) ==
    /\ caller[w].pc = "wait" /\ At(w, "save") /\ count' = 0
    /\ UNCHANGED <<result, messages, open, failed, aiFaultsLeft, template_>>
\* a timeout or an error: the counter is read here and written later.
Unanswered(w) ==
    /\ caller[w].pc = "wait" /\ aiFaultsLeft > 0
    /\ aiFaultsLeft' = aiFaultsLeft - 1
    /\ failed' = failed + 1
    /\ caller' = [caller EXCEPT ![w].pc = "record", ![w].read = count]
    /\ UNCHANGED <<result, messages, count, open, template_>>
\* Variant: the failure that is being recorded counts twice.
RecordFailureTwice(w) ==
    /\ caller[w].pc = "record" /\ At(w, "fail")
    /\ count' = caller[w].read + 1
    /\ open' = (open \/ caller[w].read + 2 >= AiLimit)
    /\ UNCHANGED <<result, messages, failed, aiFaultsLeft, template_>>
RecordFailure(w) ==
    /\ caller[w].pc = "record" /\ At(w, "fail")
    /\ count' = caller[w].read + 1
    /\ open' = (open \/ caller[w].read + 1 >= AiLimit)
    /\ UNCHANGED <<result, messages, failed, aiFaultsLeft, template_>>
OpenExpires ==
    /\ open /\ open' = FALSE
    /\ UNCHANGED <<result, messages, caller, count, failed, aiFaultsLeft,
                   template_>>
CountExpires ==
    /\ count > 0 /\ count' = 0
    /\ UNCHANGED <<result, messages, caller, open, failed, aiFaultsLeft,
                   template_>>

\* The evaluation decides between 'passed' and 'failed'.
SaveReplay(w) ==
    /\ caller[w].pc \in {"save", "fail"}
    /\ \E verdict \in IF caller[w].pc = "save" THEN {"passed", "failed"}
                      ELSE {"error"} :
         result' = [result EXCEPT ![caller[w].id].status = verdict,
                      ![caller[w].id].used =
                        IF verdict = "error" THEN @ ELSE caller[w].used]
    /\ caller' = [caller EXCEPT ![w] = Waiting]
    /\ UNCHANGED <<messages, breaker, aiFaultsLeft, template_>>
CallerDies(w) ==
    /\ caller[w].pc # "rest" /\ aiFaultsLeft > 0
    /\ aiFaultsLeft' = aiFaultsLeft - 1
    /\ caller' = [caller EXCEPT ![w] = Waiting]
    /\ UNCHANGED <<result, messages, breaker, template_>>

-----------------------------------------------------------------------------
Next ==
    \/ \E h \in Editor :
         \/ \E c \in Content : c.secret # "masked" /\ Create(h, c)
         \/ EditRead(h) \/ EditSave(h) \/ InsertVersion(h) \/ EditorDies(h)
         \/ RollbackRead(h) \/ RollbackCommit(h)
    \/ \E a \in BOOLEAN : Switch(a)
    \/ \E r \in Result : RunReplay(r)
    \/ \E w \in Caller : \/ ReplayTake(w) \/ AskRefused(w) \/ Ask(w)
                         \/ Answered(w) \/ Unanswered(w) \/ RecordFailure(w)
                         \/ SaveReplay(w) \/ CallerDies(w)
    \/ OpenExpires \/ CountExpires

Spec == Init /\ [][Next]_vars

-----------------------------------------------------------------------------
\* Types.
Row == [version : 0..MaxVersion, content : Content \cup {Blank},
        active : BOOLEAN]
TemplateTypeOK ==
    /\ template \in Row
    /\ versions \in [1..MaxVersion -> Content \cup {Blank}]
    /\ editor \in [Editor -> [pc : {"rest", "save", "number", "rollback"},
                              row : Row, next : Row]]
    /\ result \in [Result -> [status : {None, "pending", "running", "passed",
                                        "failed", "error"},
                              label : 0..MaxVersion,
                              used : Content \cup {Blank}, edited : BOOLEAN]]
    /\ messages \subseteq Result
    /\ caller \in [Caller -> [pc : {"rest", "ask", "wait", "save", "record",
                                    "fail"},
                              id : Result \cup {None}, read : 0..AiFaults,
                              used : Content \cup {Blank}]]
    /\ count \in 0..AiFaults /\ open \in BOOLEAN /\ failed \in 0..AiFaults
    /\ torn \in BOOLEAN
    /\ changesLeft \in 0..Changes /\ aiFaultsLeft \in 0..AiFaults

\* Unless saves overlapped or a request died between its writes, the number of
\* the template names its content, secrets aside, once the row of that number
\* is in; so a replay's number names what the replay was run with, if the
\* template was not edited after the request.
NumbersName ==
    /\ torn \/ template.version = 0
            \/ versions[template.version] = Redact(template.content)
            \/ \E h \in Editor : /\ editor[h].pc = "number"
                                 /\ editor[h].next.version = template.version
    /\ \A r \in Result :
         \/ torn \/ result[r].edited \/ result[r].used = Blank
         \/ versions[result[r].label] \in {Blank, Redact(result[r].used)}

\* However the workers' reads and writes of the counter fall, the breaker
\* never opens on fewer failures than its limit.
OpensOnFailures == open => failed >= AiLimit
=============================================================================
