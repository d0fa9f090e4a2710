-------------------------- MODULE OperationsProofs --------------------------
(***************************************************************************)
(* Diagnosis templates, alerts, configuration items, the knowledge base,   *)
(* the restore of a backup, and the evidence and the prompt of a diagnosis *)
(* as parts of OperationsSystem: a section for each component.             *)
(***************************************************************************)
EXTENDS OperationsSystem, FiniteSetTheorems, WellFoundedInduction, TLAPS

\* The part of a behaviour never changes.
LEMMA PartStays == [Next]_vars => part' = part
BY DEF Next, vars

-----------------------------------------------------------------------------
(* Diagnosis templates: versions, replays and the breaker.                   *)

Contents == Templates!Content \cup {Templates!Blank}
TemplateRow == [version : Nat, content : Contents, active : BOOLEAN]
EditorAt == [pc : {"rest", "save", "number", "rollback"}, row : TemplateRow,
             next : TemplateRow]
ReplayRow == [status : {Templates!None, "pending", "running", "passed",
                        "failed", "error"},
              label : Nat, used : Contents, edited : BOOLEAN]
CallerAt == [pc : {"rest", "ask", "wait", "save", "record", "fail"},
             id : Result \cup {Templates!None}, read : Nat, used : Contents]
TemplateTypes ==
    /\ template \in TemplateRow
    /\ versions \in [1..Templates!MaxVersion -> Contents]
    /\ editor \in [Editor -> EditorAt]
    /\ result \in [Result -> ReplayRow] /\ messages \subseteq Result
    /\ caller \in [Caller -> CallerAt]
    /\ count \in Nat /\ open \in BOOLEAN /\ failed \in Nat /\ torn \in BOOLEAN
    /\ changesLeft \in 0..Changes /\ aiFaultsLeft \in Nat

\* There is a version for every change.
Numbered ==
    /\ template.version + changesLeft <= Templates!MaxVersion
    /\ \A h \in Editor : editor[h].pc # "rest" =>
          editor[h].next.version + changesLeft <= Templates!MaxVersion

\* What a request is about to write.
EditorKnows ==
    \A h \in Editor :
        LET row == editor[h].row  next == editor[h].next
        IN  /\ editor[h].pc = "save" =>
                  \/ next.version = row.version + 1
                  \/ next.version = row.version /\ next.content = row.content
            /\ editor[h].pc = "rollback" => next.version = row.version + 1
            /\ editor[h].pc # "rest" => next.version >= 1

\* As long as nothing is torn, the newest number is the template's, and its
\* row is in with the template's content or about to be inserted.
InOrder == ~torn =>
    /\ \A v \in 1..Templates!MaxVersion : v > template.version =>
           versions[v] = Templates!Blank
    /\ \A h \in Editor : editor[h].pc = "number" =>
          /\ editor[h].next.version <= template.version
          /\ editor[h].next.version = template.version =>
                 editor[h].next.content = template.content
    /\ template.version > 0 =>
          \/ versions[template.version] = Templates!Redact(template.content)
          \/ /\ versions[template.version] = Templates!Blank
             /\ \E h \in Editor : /\ editor[h].pc = "number"
                                  /\ editor[h].next.version = template.version

\* A replay that was not overtaken by an edit is of the template as it is.
ReplaysFollow ==
    /\ \A r \in messages : result[r].status # Templates!None
    /\ \A r \in Result : result[r].status # Templates!None =>
          /\ template.version > 0
          /\ \/ result[r].edited
             \/ /\ result[r].label = template.version
                /\ result[r].used \in {Templates!Blank, template.content}
    /\ \A r \in Result : result[r].status = Templates!None =>
           result[r].used = Templates!Blank
    /\ \A w \in Caller : caller[w].pc # "rest" =>
          /\ caller[w].id \in Result
          /\ result[caller[w].id].status # Templates!None
          /\ \/ result[caller[w].id].edited
             \/ caller[w].used = template.content

\* No number in a worker's hands is beyond the failures there were.
FailuresCounted ==
    /\ count <= failed
    /\ \A w \in Caller : caller[w].pc = "record" => caller[w].read < failed

TemplateInv == /\ TemplateTypes /\ Numbered /\ EditorKnows /\ InOrder
               /\ ReplaysFollow /\ FailuresCounted /\ Templates!OpensOnFailures

-----------------------------------------------------------------------------
\* Masking keeps what is no content at all.
LEMMA Masked == \A c \in Contents : Templates!Redact(c) \in Contents
BY DEF Contents, Templates!Content, Templates!Blank, Templates!Redact

\* A template with another number and content.
LEMMA Renumbered ==
    ASSUME NEW row \in TemplateRow, NEW n \in Nat, NEW c \in Contents
    PROVE  LET new == [row EXCEPT !.version = n, !.content = c]
           IN  new \in TemplateRow /\ new.version = n
BY DEF TemplateRow

LEMMA BlankRows ==
    /\ Templates!NoTemplate \in TemplateRow /\ Templates!NoTemplate.version = 0
    /\ Templates!Resting \in EditorAt /\ Templates!Resting.pc = "rest"
    /\ Templates!Waiting \in CallerAt /\ Templates!Waiting.pc = "rest"
    /\ Templates!NoResult \in ReplayRow
    /\ Templates!NoResult.status = Templates!None
    /\ Templates!NoResult.used = Templates!Blank
    /\ Templates!Blank \in Contents
BY DEF Templates!NoTemplate, Templates!Resting, Templates!Waiting,
   Templates!NoResult, TemplateRow, EditorAt, CallerAt, ReplayRow, Contents

LEMMA TemplateInit == Templates!Init => TemplateInv
<1> SUFFICES ASSUME Templates!Init PROVE TemplateInv
  OBVIOUS
<1> USE BlankRows DEF Templates!Init
<1>1. changesLeft \in 0..Changes /\ aiFaultsLeft \in Nat
  BY TemplateBounds
<1>2. TemplateTypes
  BY <1>1 DEF TemplateTypes
<1>3. Numbered
  BY <1>1, TemplateBounds DEF Numbered, Templates!MaxVersion
<1>4. EditorKnows /\ ReplaysFollow /\ FailuresCounted
          /\ Templates!OpensOnFailures
  BY DEF EditorKnows, ReplaysFollow, FailuresCounted, Templates!OpensOnFailures
<1>5. InOrder
  BY DEF InOrder
<1> QED BY <1>2, <1>3, <1>4, <1>5 DEF TemplateInv

-----------------------------------------------------------------------------
(* Replays and the breaker. *)

\* Steps that leave the template and its editors alone, and what of the
\* invariant they could break.
ReplaysHold ==
    /\ TemplateTypes /\ ReplaysFollow
    /\ FailuresCounted /\ Templates!OpensOnFailures
ReplayStep ==
    \/ \E r \in Result : Templates!RunReplay(r)
    \/ \E w \in Caller :
          \/ Templates!ReplayTake(w) \/ Templates!AskRefused(w)
          \/ Templates!Ask(w)
          \/ Templates!Answered(w) \/ Templates!Unanswered(w)
          \/ Templates!RecordFailure(w)
          \/ Templates!SaveReplay(w) \/ Templates!CallerDies(w)
    \/ Templates!OpenExpires \/ Templates!CountExpires

\* A caller at its next step.
LEMMA CallerMoves ==
    ASSUME caller \in [Caller -> CallerAt], NEW w \in Caller,
           NEW pc \in {"wait", "save", "fail"},
           caller' = [caller EXCEPT ![w].pc = pc]
    PROVE  /\ caller' \in [Caller -> CallerAt]
           /\ caller'[w].pc = pc /\ caller'[w].id = caller[w].id
           /\ caller'[w].used = caller[w].used
           /\ \A v \in Caller \ {w} : caller'[v] = caller[v]
BY DEF CallerAt

LEMMA ReplayTypes ==
    ASSUME TemplateInv, UNCHANGED Templates!template_, ReplayStep
    PROVE  ReplaysHold'
<1> USE BlankRows, TemplateBounds
    DEF TemplateInv, TemplateTypes, ReplaysFollow, FailuresCounted,
        Templates!OpensOnFailures, ReplaysHold, Templates!template_,
        Templates!breaker
<1>1. ASSUME NEW r \in Result, Templates!RunReplay(r)
      PROVE  ReplaysHold'
  <2> DEFINE new == [Templates!NoResult EXCEPT !.status = "pending",
                                     !.label = template.version]
  <2>1. /\ new \in ReplayRow /\ new.status = "pending"
        /\ new.used = Templates!Blank
        /\ new.label = template.version
    BY DEF Templates!NoResult, ReplayRow, TemplateRow
  <2>2. result' = [result EXCEPT ![r] = new]
            /\ result[r].status = Templates!None
        /\ template.version > 0
    BY <1>1 DEF Templates!RunReplay
  <2>3. messages' \subseteq messages \cup {r} /\ aiFaultsLeft' \in Nat
        /\ UNCHANGED <<caller, count, open, failed>>
    BY <1>1 DEF Templates!RunReplay
  <2>4. new.status # Templates!None
    BY <2>1 DEF Templates!None
  <2> HIDE DEF new
  <2>5. TemplateTypes'
    BY <2>1, <2>2, <2>3
  <2>6. ReplaysFollow'
    BY <2>1, <2>2, <2>3, <2>4
  <2> QED BY <2>3, <2>5, <2>6
<1>2. ASSUME NEW w \in Caller, Templates!ReplayTake(w)
      PROVE  ReplaysHold'
  <2>1. PICK r \in messages :
          /\ caller' = [caller EXCEPT ![w] =
                [pc |-> "ask", id |-> r, read |-> 0,
                 used |-> template.content]]
          /\ result' = [result EXCEPT ![r].status = "running"]
          /\ \/ messages' = messages \ {r} /\ UNCHANGED aiFaultsLeft
             \/ /\ aiFaultsLeft > 0 /\ aiFaultsLeft' = aiFaultsLeft - 1
                /\ UNCHANGED messages
    BY <1>2 DEF Templates!ReplayTake
  <2>2. UNCHANGED <<count, open, failed>> /\ aiFaultsLeft' \in Nat
        /\ messages' \subseteq messages
    BY <1>2, <2>1 DEF Templates!ReplayTake
  <2>3. [result[r] EXCEPT !.status = "running"] \in ReplayRow
        /\ result[r].status # Templates!None /\ "running" # Templates!None
    BY DEF ReplayRow, Templates!None
  <2>4. [pc |-> "ask", id |-> r, read |-> 0, used |-> template.content]
           \in CallerAt
    BY DEF CallerAt, TemplateRow
  <2>5. TemplateTypes'
    BY <2>1, <2>2, <2>3, <2>4
  <2>6. ReplaysFollow'
    BY <2>1, <2>2, <2>3, <2>4 DEF ReplayRow
  <2>7. FailuresCounted' /\ Templates!OpensOnFailures'
    BY <2>1, <2>2
  <2> QED BY <2>5, <2>6, <2>7
<1>3. ASSUME NEW w \in Caller,
             \/ Templates!AskRefused(w) \/ Templates!Ask(w)
             \/ Templates!Answered(w) \/ Templates!Unanswered(w)
             \/ Templates!RecordFailure(w) \/ Templates!CallerDies(w)
      PROVE  ReplaysHold'
  <2> DEFINE Moved(pc) ==
               /\ caller' \in [Caller -> CallerAt]
               /\ caller'[w].pc = pc /\ caller'[w].id = caller[w].id
               /\ caller'[w].used = caller[w].used
               /\ \A v \in Caller \ {w} : caller'[v] = caller[v]
  <2>1. CASE Templates!AskRefused(w) \/ Templates!Ask(w)
    <3>1. PICK pc \in {"fail", "wait"} : caller' = [caller EXCEPT ![w].pc = pc]
      BY <2>1 DEF Templates!AskRefused, Templates!Ask, Templates!At
    <3>2. caller[w].pc # "rest"
          /\ UNCHANGED <<result, messages, Templates!breaker, aiFaultsLeft>>
      BY <2>1 DEF Templates!AskRefused, Templates!Ask
    <3>3. Moved(pc)
      BY <3>1, CallerMoves DEF TemplateTypes
    <3>4. TemplateTypes' /\ FailuresCounted'
      BY <3>2, <3>3
    <3>5. ReplaysFollow' /\ Templates!OpensOnFailures'
      BY <3>2, <3>3
    <3> QED BY <3>4, <3>5
  <2>2. CASE Templates!Answered(w)
    <3>1. /\ caller' = [caller EXCEPT ![w].pc = "save"]
          /\ caller[w].pc = "wait" /\ count' = 0
          /\ UNCHANGED <<result, messages, open, failed, aiFaultsLeft>>
      BY <2>2 DEF Templates!Answered, Templates!At
    <3>2. Moved("save")
      BY <3>1, CallerMoves
    <3>3. TemplateTypes' /\ FailuresCounted'
      BY <3>1, <3>2
    <3>4. ReplaysFollow' /\ Templates!OpensOnFailures'
      BY <3>1, <3>2
    <3> QED BY <3>3, <3>4
  <2>3. CASE Templates!Unanswered(w)
    <3>1. /\ caller' \in [Caller -> CallerAt] /\ caller'[w].read = count
          /\ caller'[w].id = caller[w].id /\ caller'[w].used = caller[w].used
          /\ \A v \in Caller \ {w} : caller'[v] = caller[v]
      <4>1. /\ caller' = [caller EXCEPT ![w].pc = "record", ![w].read = count]
            /\ caller \in [Caller -> CallerAt] /\ count \in Nat
        BY <2>3 DEF Templates!Unanswered
      <4> HIDE DEF TemplateInv
      <4> QED BY <4>1 DEF CallerAt
    <3>2. /\ failed' = failed + 1 /\ aiFaultsLeft' \in Nat
          /\ caller[w].pc # "rest"
          /\ UNCHANGED <<result, messages, count, open>>
      BY <2>3 DEF Templates!Unanswered
    <3>3. TemplateTypes' /\ ReplaysFollow'
      BY <3>1, <3>2
    <3>4. FailuresCounted' /\ Templates!OpensOnFailures'
      <4>1. \A v \in Caller : caller[v].read \in Nat
        BY DEF CallerAt
      <4>2. /\ count \in Nat /\ failed \in Nat /\ count <= failed
            /\ open => failed >= AiLimit
            /\ \A v \in Caller : caller[v].pc = "record" =>
                  caller[v].read < failed
            /\ AiLimit \in Nat
        OBVIOUS
      <4> HIDE DEF TemplateInv
      <4> QED BY <3>1, <3>2, <4>1, <4>2
    <3> QED BY <3>3, <3>4
  <2>4. CASE Templates!RecordFailure(w)
    <3>1. /\ caller' = [caller EXCEPT ![w].pc = "fail"]
          /\ caller[w].pc = "record" /\ count' = caller[w].read + 1
          /\ open' = (open \/ caller[w].read + 1 >= AiLimit)
          /\ UNCHANGED <<result, messages, failed, aiFaultsLeft>>
      BY <2>4 DEF Templates!RecordFailure, Templates!At
    <3>2. caller \in [Caller -> CallerAt] /\ caller[w].read \in Nat
      BY DEF CallerAt
    <3>3. /\ caller' \in [Caller -> CallerAt]
          /\ caller'[w].pc = "fail" /\ caller'[w].id = caller[w].id
          /\ caller'[w].used = caller[w].used
          /\ \A v \in Caller \ {w} : caller'[v] = caller[v]
      <4> HIDE DEF TemplateInv
      <4> QED BY <3>1, <3>2 DEF CallerAt
    <3>4. TemplateTypes' /\ FailuresCounted'
      BY <3>1, <3>2, <3>3
    <3>5. ReplaysFollow' /\ Templates!OpensOnFailures'
      BY <3>1, <3>2, <3>3
    <3> QED BY <3>4, <3>5
  <2>5. CASE Templates!CallerDies(w)
    BY <2>5 DEF Templates!CallerDies
  <2> QED BY <1>3, <2>1, <2>2, <2>3, <2>4, <2>5
<1>4. ASSUME NEW w \in Caller, Templates!SaveReplay(w)
      PROVE  ReplaysHold'
  <2> DEFINE r == caller[w].id
  <2>1. PICK verdict \in {"passed", "failed", "error"} :
          result' = [result EXCEPT ![r].status = verdict,
                      ![r].used = IF verdict = "error" THEN @
                                  ELSE caller[w].used]
    BY <1>4 DEF Templates!SaveReplay
  <2>2. caller' = [caller EXCEPT ![w] = Templates!Waiting]
        /\ UNCHANGED <<messages, count, open, failed, aiFaultsLeft>>
    BY <1>4 DEF Templates!SaveReplay
  <2>3. r \in Result /\ caller[w].pc # "rest" /\ caller[w].used \in Contents
        /\ verdict # Templates!None
    BY <1>4 DEF Templates!SaveReplay, CallerAt, Templates!None
  <2>4. /\ result' \in [Result -> ReplayRow]
        /\ \A q \in Result \ {r} : result'[q] = result[q]
        /\ result'[r].status = verdict /\ result'[r].label = result[r].label
        /\ result'[r].edited = result[r].edited
        /\ result'[r].used \in {result[r].used, caller[w].used}
    <3>1. result \in [Result -> ReplayRow]
      OBVIOUS
    <3>2. PICK used \in {result[r].used, caller[w].used} :
            result' = [result EXCEPT ![r] =
                         [result[r] EXCEPT !.status = verdict, !.used = used]]
      BY <2>1
    <3>3. /\ used \in Contents
          /\ verdict \in {"passed", "failed", "error"}
      BY <2>3, <3>1, <3>2 DEF ReplayRow
    <3> HIDE DEF TemplateInv, r
    <3> QED BY <2>3, <3>1, <3>2, <3>3 DEF ReplayRow
  <2>5. TemplateTypes'
    BY <2>2, <2>4
  <2>6. ReplaysFollow'
    BY <2>2, <2>3, <2>4
  <2>7. FailuresCounted' /\ Templates!OpensOnFailures'
    BY <2>2
  <2> QED BY <2>5, <2>6, <2>7
<1>5. ASSUME Templates!OpenExpires \/ Templates!CountExpires
      PROVE  ReplaysHold'
  <2>1. CASE Templates!OpenExpires
    BY <2>1 DEF Templates!OpenExpires
  <2>2. CASE Templates!CountExpires
    BY <2>2 DEF Templates!CountExpires
  <2> QED BY <1>5, <2>1, <2>2
<1> QED BY <1>1, <1>2, <1>3, <1>4, <1>5 DEF ReplayStep

-----------------------------------------------------------------------------
(* Requests. *)

\* A template that is written with another content or number overtakes the
\* replays there are.
LEMMA EditOvertakes ==
    ASSUME TemplateInv, template' \in TemplateRow, Templates!Edited(template'),
           UNCHANGED <<messages, caller>>,
           template'.version > 0 \/ \A r \in Result :
               result[r].status = Templates!None
    PROVE  result' \in [Result -> ReplayRow] /\ ReplaysFollow'
<1> USE DEF TemplateInv, TemplateTypes, ReplaysFollow
<1>0. result \in [Result -> ReplayRow] /\ caller \in [Caller -> CallerAt]
      /\ messages \subseteq Result
  OBVIOUS
<1>1. /\ result' \in [Result -> ReplayRow]
      /\ \A r \in Result :
            /\ result'[r].status = result[r].status
            /\ result'[r].used = result[r].used
            /\ result'[r].label = result[r].label
            /\ result'[r].edited =
                  (result[r].edited
                      \/ (template' # template
                             /\ result[r].status # Templates!None))
  BY DEF Templates!Edited, ReplayRow
<1>2. CASE template' = template
  <2>1. \A r \in Result : result'[r].edited = result[r].edited
    <3> HIDE DEF TemplateInv
    <3>1. \A r \in Result : result[r].edited \in BOOLEAN
      BY <1>0 DEF ReplayRow
    <3> QED BY <1>1, <1>2, <3>1
  <2>2. ReplaysFollow
    OBVIOUS
  <2> HIDE DEF TemplateInv
  <2> QED BY <1>0, <1>1, <1>2, <2>1, <2>2
<1>3. CASE template' # template
  <2>1. ReplaysFollow
    OBVIOUS
  <2> HIDE DEF TemplateInv
  <2> QED BY <1>0, <1>1, <1>3, <2>1
<1> QED BY <1>1, <1>2, <1>3

\* A request reads the template, or is done.
LEMMA EditorReads ==
    ASSUME TemplateInv, NEW h \in Editor, NEW new \in EditorAt,
           editor' = [editor EXCEPT ![h] = new],
           changesLeft' \in 0..Changes, changesLeft' <= changesLeft,
           UNCHANGED <<template, versions, Templates!replays>>,
           torn' \in BOOLEAN, torn => torn',
           editor[h].pc = "number" => torn',
           new.pc # "number",
           new.pc # "rest" =>
              /\ new.next.version >= 1
              /\ new.next.version + changesLeft' <= Templates!MaxVersion,
           new.pc = "save" =>
              \/ new.next.version = new.row.version + 1
              \/ new.next.version = new.row.version
                     /\ new.next.content = new.row.content,
           new.pc = "rollback" => new.next.version = new.row.version + 1
    PROVE  TemplateInv'
<1> USE TemplateBounds DEF TemplateInv, TemplateTypes, Templates!replays,
    Templates!breaker
<1>1. TemplateTypes'
  OBVIOUS
<1>2. Numbered'
  BY DEF Numbered, EditorAt, TemplateRow, Templates!MaxVersion
<1>3. EditorKnows'
  BY DEF EditorKnows
<1>4. InOrder'
  BY DEF InOrder
<1>5. ReplaysFollow' /\ FailuresCounted' /\ Templates!OpensOnFailures'
  BY DEF ReplaysFollow, FailuresCounted, Templates!OpensOnFailures
<1> QED BY <1>1, <1>2, <1>3, <1>4, <1>5

LEMMA TemplateStep == TemplateInv /\ [Templates!Next]_templateVars =>
    TemplateInv'
<1> SUFFICES ASSUME TemplateInv, [Templates!Next]_templateVars
             PROVE  TemplateInv'
  OBVIOUS
<1> USE TemplateBounds, BlankRows DEF TemplateInv, TemplateTypes
<1>1. ASSUME NEW h \in Editor,
             NEW c \in Templates!Content, Templates!Create(h, c)
      PROVE  TemplateInv'
  <2> DEFINE row == [version |-> 1, content |-> c, active |-> TRUE]
             new == [pc |-> "number", row |-> row, next |-> row]
  <2>1. /\ template' = row /\ editor' = [editor EXCEPT ![h] = new]
        /\ template.version = 0 /\ editor[h].pc = "rest"
        /\ changesLeft > 0 /\ changesLeft' = changesLeft - 1
        /\ UNCHANGED <<versions, torn, Templates!replays>>
    BY <1>1 DEF Templates!Create
  <2>2. /\ row \in TemplateRow /\ row.version = 1 /\ row.content = c
        /\ new \in EditorAt /\ new.pc = "number" /\ new.next = row
    BY DEF TemplateRow, EditorAt, Contents
  <2> HIDE DEF row, new
  <2>3. TemplateTypes'
    BY <2>1, <2>2 DEF Templates!replays, Templates!breaker
  <2>4. Numbered' /\ EditorKnows'
    BY <2>1, <2>2 DEF Numbered, EditorKnows, EditorAt, TemplateRow,
       Templates!MaxVersion
  <2>5. InOrder'
    <3> SUFFICES ASSUME ~torn PROVE InOrder'
      BY <2>1 DEF InOrder
    <3>1. versions[1] = Templates!Blank /\ 1 \in 1..Templates!MaxVersion
      BY <2>1 DEF InOrder, Numbered, Templates!MaxVersion
    <3>2. \A g \in Editor : editor[g].pc = "number" => FALSE
      BY <2>1 DEF InOrder, EditorKnows, EditorAt, TemplateRow
    <3> QED BY <2>1, <2>2, <3>1, <3>2 DEF InOrder
  <2>6. ReplaysFollow'
    BY <2>1, <2>2 DEF ReplaysFollow, Templates!replays
  <2> QED BY <2>1, <2>3, <2>4, <2>5, <2>6 DEF FailuresCounted,
             Templates!OpensOnFailures, Templates!replays, Templates!breaker
<1>2. ASSUME NEW h \in Editor, Templates!EditRead(h)
      PROVE  TemplateInv'
  <2>1. PICK c \in Templates!Content, a \in BOOLEAN :
          editor' = [editor EXCEPT ![h] =
              [pc |-> "save", row |-> template,
               next |-> [version |-> template.version
                                     + IF c # template.content THEN 1 ELSE 0,
                         content |-> c, active |-> a]]]
    BY <1>2 DEF Templates!EditRead
  <2> DEFINE next == [version |-> template.version
                                  + IF c # template.content THEN 1 ELSE 0,
                      content |-> c, active |-> a]
             new == [pc |-> "save", row |-> template, next |-> next]
  <2>2. /\ next \in TemplateRow /\ next.content = c
        /\ \/ next.version = template.version /\ c = template.content
           \/ next.version = template.version + 1
    BY DEF TemplateRow, Contents
  <2> HIDE DEF next
  <2>3. new \in EditorAt /\ new.pc = "save" /\ new.row = template
        /\ new.next = next
    BY <2>2 DEF EditorAt
  <2>4. /\ editor' = [editor EXCEPT ![h] = new]
        /\ editor[h].pc = "rest" /\ changesLeft > 0
        /\ changesLeft' = changesLeft - 1
        /\ UNCHANGED <<template, versions, torn, Templates!replays>>
    BY <1>2, <2>1 DEF Templates!EditRead, next
  <2> HIDE DEF new
  <2>5. /\ next.version + changesLeft' <= Templates!MaxVersion
        /\ next.version >= 1
        /\ changesLeft' \in 0..Changes /\ changesLeft' <= changesLeft
    <3>1. template.version > 0
      BY <1>2 DEF Templates!EditRead
    <3> QED BY <2>2, <2>4, <3>1 DEF Numbered, Templates!MaxVersion, TemplateRow
  <2> QED BY <2>2, <2>3, <2>4, <2>5, EditorReads
<1>3. ASSUME NEW h \in Editor, Templates!EditSave(h)
      PROVE  TemplateInv'
  <2> DEFINE row == editor[h].row
             next == editor[h].next
  <2>1. /\ row \in TemplateRow /\ next \in TemplateRow
        /\ template' = next /\ torn' = (torn \/ template # row)
        /\ Templates!Edited(template')
        /\ UNCHANGED <<versions, changesLeft, messages, caller,
                       Templates!breaker, aiFaultsLeft>>
    BY <1>3 DEF Templates!EditSave, EditorAt
  <2>2. \/ next.version = row.version /\ next.content = row.content
              /\ editor' = [editor EXCEPT ![h] = Templates!Resting]
        \/ /\ next.version = row.version + 1
           /\ editor' = [editor EXCEPT ![h].pc = "number"]
    <3>1. \/ next.version = row.version + 1
          \/ next.version = row.version /\ next.content = row.content
      BY <1>3 DEF Templates!EditSave, EditorKnows
    <3>2. CASE next.version = row.version
      BY <1>3, <2>1, <3>1, <3>2 DEF Templates!EditSave, TemplateRow
    <3>3. CASE next.version # row.version
      BY <1>3, <3>1, <3>3 DEF Templates!EditSave
    <3> QED BY <3>2, <3>3
  <2>3. next.version + changesLeft <= Templates!MaxVersion /\ next.version >= 1
    BY <1>3 DEF Templates!EditSave, Numbered, EditorKnows
  <2>4. /\ editor' \in [Editor -> EditorAt]
        /\ editor'[h].pc # "rest" => editor'[h].next = next
        /\ editor'[h].pc \in {"rest", "number"}
        /\ \A g \in Editor \ {h} : editor'[g] = editor[g]
    BY <2>2 DEF EditorAt
  <2> HIDE DEF row, next
  <2>5. result' \in [Result -> ReplayRow] /\ ReplaysFollow'
    <3>1. next.version > 0 \/ \A r \in Result :
              result[r].status = Templates!None
      BY <2>1, <2>3 DEF TemplateRow
    <3> QED BY <2>1, <3>1, EditOvertakes
  <2>6. TemplateTypes'
    BY <2>1, <2>4, <2>5 DEF Templates!breaker
  <2>7. Numbered' /\ EditorKnows'
    <3>1. Numbered'
      BY <2>1, <2>3, <2>4 DEF Numbered
    <3>2. EditorKnows'
      BY <2>3, <2>4 DEF EditorKnows
    <3> QED BY <3>1, <3>2
  <2>8. InOrder'
    <3> SUFFICES ASSUME ~torn, template = row PROVE InOrder'
      BY <2>1 DEF InOrder
    <3>1. next.version \in 1..Templates!MaxVersion
      BY <2>1, <2>3 DEF TemplateRow, Templates!MaxVersion
    <3>2. CASE next.version = row.version
      <4>1. next.content = row.content /\ editor'[h].pc = "rest"
        BY <2>1, <2>2, <3>2 DEF TemplateRow
      <4>2. editor[h].pc = "save"
        BY <1>3 DEF Templates!EditSave
      <4> QED BY <2>1, <2>4, <3>1, <3>2, <4>1, <4>2 DEF InOrder, TemplateRow
    <3>3. CASE next.version = row.version + 1
      <4>1. versions[next.version] = Templates!Blank
        BY <2>1, <3>1, <3>3 DEF InOrder, TemplateRow
      <4>2. editor'[h].pc = "number"
        BY <2>2, <3>3, <2>1 DEF TemplateRow, EditorAt
      <4>3. ASSUME NEW g \in Editor, editor'[g].pc = "number", g # h
            PROVE  /\ editor'[g].next.version < next.version
                   /\ editor'[g].next.version # next.version
                   /\ editor'[g].next.version <= next.version
        <5>1. editor'[g] = editor[g] /\ editor[g].next.version \in Nat
          BY <2>4, <4>3 DEF EditorAt, TemplateRow
        <5> QED BY <2>1, <3>3, <4>3, <5>1 DEF InOrder, TemplateRow
      <4>4. \A v \in 1..Templates!MaxVersion : v > next.version =>
                versions[v] = Templates!Blank
        BY <2>1, <3>3 DEF InOrder, TemplateRow
      <4>5. editor'[h].next = next
        BY <2>4, <4>2
      <4>6. \A g \in Editor : editor'[g].pc = "number" =>
               /\ editor'[g].next.version <= next.version
               /\ editor'[g].next.version = next.version =>
                      editor'[g].next.content = next.content
        BY <3>1, <4>3, <4>5
      <4> QED BY <2>1, <4>1, <4>2, <4>4, <4>5, <4>6 DEF InOrder
    <3> QED BY <2>2, <3>2, <3>3
  <2> QED BY <2>1, <2>5, <2>6, <2>7, <2>8 DEF FailuresCounted,
             Templates!OpensOnFailures, Templates!breaker
<1>4. ASSUME NEW h \in Editor, Templates!InsertVersion(h)
      PROVE  TemplateInv'
  <2> DEFINE v == editor[h].next.version
             c == editor[h].next.content
  <2>1. /\ editor[h].pc = "number"
        /\ editor' = [editor EXCEPT ![h] = Templates!Resting]
        /\ UNCHANGED <<template, changesLeft, Templates!replays>>
        /\ \/ versions[v] = Templates!Blank /\ UNCHANGED torn
                 /\ versions' = [versions EXCEPT ![v] = Templates!Redact(c)]
           \/ torn' = TRUE /\ UNCHANGED versions
    BY <1>4 DEF Templates!InsertVersion
  <2>2. c \in Contents /\ Templates!Redact(c) \in Contents
            /\ v \in 1..Templates!MaxVersion
    <3>1. editor[h].next \in TemplateRow /\ v >= 1
             /\ v + changesLeft <= Templates!MaxVersion
      BY <2>1 DEF EditorAt, EditorKnows, Numbered
    <3> QED BY <3>1, Masked DEF TemplateRow, Templates!MaxVersion
  <2> HIDE DEF c
  <2>3. TemplateTypes'
    BY <2>1, <2>2 DEF Templates!replays, Templates!breaker
  <2>4. Numbered' /\ EditorKnows'
    BY <2>1 DEF Numbered, EditorKnows
  <2>5. InOrder'
    <3> SUFFICES ASSUME ~torn, versions[v] = Templates!Blank,
                        versions' =
                            [versions EXCEPT ![v] = Templates!Redact(c)]
                 PROVE  InOrder'
      BY <2>1 DEF InOrder
    <3>1. v <= template.version
          /\ (v = template.version => c = template.content)
      BY <2>1 DEF InOrder, c
    <3>2. \A n \in 1..Templates!MaxVersion : n > template.version =>
             versions'[n] = Templates!Blank
      BY <2>2, <3>1 DEF InOrder, TemplateRow
    <3>3. CASE v = template.version
      <4>1. versions'[template.version] = Templates!Redact(template.content)
        BY <2>2, <3>1, <3>3
      <4> QED BY <2>1, <3>2, <4>1 DEF InOrder
    <3>4. CASE v # template.version
      <4>1. versions'[template.version] = versions[template.version]
        BY <3>4
      <4> QED BY <2>1, <3>2, <3>4, <4>1 DEF InOrder
    <3> QED BY <3>3, <3>4
  <2>6. ReplaysFollow' /\ FailuresCounted' /\ Templates!OpensOnFailures'
    BY <2>1 DEF ReplaysFollow, FailuresCounted, Templates!OpensOnFailures,
       Templates!replays, Templates!breaker
  <2> QED BY <2>3, <2>4, <2>5, <2>6
<1>5. ASSUME NEW h \in Editor, Templates!EditorDies(h)
      PROVE  TemplateInv'
  <2>1. /\ editor' = [editor EXCEPT ![h] = Templates!Resting]
        /\ torn' = (torn \/ editor[h].pc = "number") /\ aiFaultsLeft' \in Nat
        /\ UNCHANGED <<template, versions, changesLeft, result, messages,
                       caller, Templates!breaker>>
    BY <1>5 DEF Templates!EditorDies
  <2>2. TemplateTypes' /\ Numbered' /\ EditorKnows' /\ InOrder'
    BY <2>1 DEF Templates!breaker, Numbered, EditorKnows, InOrder
  <2>3. ReplaysFollow' /\ FailuresCounted' /\ Templates!OpensOnFailures'
    BY <2>1 DEF Templates!breaker, ReplaysFollow, FailuresCounted,
       Templates!OpensOnFailures
  <2> QED BY <2>2, <2>3
<1>6. ASSUME NEW h \in Editor, Templates!RollbackRead(h)
      PROVE  TemplateInv'
  <2>0. PICK v \in 1..Templates!MaxVersion :
          editor' = [editor EXCEPT ![h] =
              [pc |-> "rollback", row |-> template,
               next |-> [template EXCEPT !.version = @ + 1,
                                         !.content = versions[v]]]]
    BY <1>6 DEF Templates!RollbackRead
  <2>1. PICK c \in Contents :
          editor' = [editor EXCEPT ![h] =
              [pc |-> "rollback", row |-> template,
               next |-> [template EXCEPT !.version = @ + 1,
                                         !.content = c]]]
    BY <2>0
  <2> DEFINE next == [template EXCEPT !.version = @ + 1, !.content = c]
             new == [pc |-> "rollback", row |-> template, next |-> next]
  <2>2. next \in TemplateRow /\ next.version = template.version + 1
    <3>1. template.version + 1 \in Nat
      BY DEF TemplateRow
    <3> QED BY <3>1, Renumbered
  <2> HIDE DEF next
  <2>3. new \in EditorAt /\ new.pc = "rollback" /\ new.row = template
        /\ new.next = next
    BY <2>2 DEF EditorAt
  <2>4. /\ editor' = [editor EXCEPT ![h] = new]
        /\ editor[h].pc = "rest" /\ changesLeft > 0
        /\ changesLeft' = changesLeft - 1
        /\ UNCHANGED <<template, versions, torn, Templates!replays>>
    BY <1>6, <2>1 DEF Templates!RollbackRead, next
  <2> HIDE DEF new
  <2>5. /\ next.version + changesLeft' <= Templates!MaxVersion
        /\ next.version >= 1
        /\ changesLeft' \in 0..Changes /\ changesLeft' <= changesLeft
    BY <2>2, <2>4 DEF Numbered, Templates!MaxVersion, TemplateRow
  <2> QED BY <2>2, <2>3, <2>4, <2>5, EditorReads
<1>7. ASSUME NEW h \in Editor, Templates!RollbackCommit(h)
      PROVE  TemplateInv'
  <2> DEFINE n == editor[h].next
             row == editor[h].row
             v == n.version
  <2>1. /\ editor[h].pc = "rollback"
        /\ editor' = [editor EXCEPT ![h] = Templates!Resting]
        /\ UNCHANGED <<changesLeft, messages, caller, Templates!breaker,
                       aiFaultsLeft>>
    BY <1>7 DEF Templates!RollbackCommit
  <2>2. /\ n \in TemplateRow /\ row \in TemplateRow /\ v = row.version + 1
        /\ v \in 1..Templates!MaxVersion
        /\ v + changesLeft <= Templates!MaxVersion
    <3>1. n \in TemplateRow /\ row \in TemplateRow /\ v = row.version + 1
             /\ v + changesLeft <= Templates!MaxVersion
      BY <2>1 DEF EditorAt, EditorKnows, Numbered
    <3> QED BY <3>1 DEF TemplateRow, Templates!MaxVersion
  <2> HIDE DEF n, row
  <2>3. CASE UNCHANGED <<template, versions, torn, result>>
    <3>1. TemplateTypes' /\ Numbered' /\ EditorKnows' /\ InOrder'
      BY <2>1, <2>3 DEF Templates!breaker, Numbered, EditorKnows, InOrder
    <3>2. ReplaysFollow' /\ FailuresCounted' /\ Templates!OpensOnFailures'
      BY <2>1, <2>3 DEF Templates!breaker, ReplaysFollow, FailuresCounted,
         Templates!OpensOnFailures
    <3> QED BY <3>1, <3>2
  <2>4. CASE /\ versions[v] = Templates!Blank
             /\ template' = [n EXCEPT !.active = template.active]
             /\ versions' =
                    [versions EXCEPT ![v] = Templates!Redact(n.content)]
             /\ torn' = (torn \/ template # row)
             /\ Templates!Edited(template')
    <3>1. /\ template' \in TemplateRow /\ template'.version = v
          /\ template'.content = n.content /\ n.content \in Contents
          /\ Templates!Redact(n.content) \in Contents
      BY <2>2, <2>4, Masked DEF TemplateRow
    <3>2. result' \in [Result -> ReplayRow] /\ ReplaysFollow'
      BY <2>1, <2>2, <2>4, <3>1, EditOvertakes
    <3>3. TemplateTypes'
      BY <2>1, <2>4, <3>1, <3>2 DEF Templates!breaker
    <3>4. Numbered' /\ EditorKnows'
      BY <2>1, <2>2, <3>1 DEF Numbered, EditorKnows
    <3>5. InOrder'
      <4> SUFFICES ASSUME ~torn, template = row PROVE InOrder'
        BY <2>4 DEF InOrder
      <4>1. versions'[v] = Templates!Redact(n.content)
        BY <2>2, <2>4
      <4>2. \A m \in 1..Templates!MaxVersion : m > v =>
                versions'[m] = Templates!Blank
        BY <2>2, <2>4 DEF InOrder, TemplateRow
      <4>3. \A g \in Editor : editor'[g].pc = "number" =>
               editor'[g].next.version < v
        <5> SUFFICES ASSUME NEW g \in Editor, editor'[g].pc = "number"
                     PROVE  editor'[g].next.version < v
          OBVIOUS
        <5>1. editor'[g] = editor[g] /\ editor[g].next.version \in Nat
          BY <2>1 DEF EditorAt, TemplateRow
        <5> QED BY <2>2, <5>1 DEF InOrder, TemplateRow
      <4>4. \A g \in Editor : editor'[g].pc = "number" =>
               editor'[g].next.version \in Nat
        BY <2>1 DEF EditorAt, TemplateRow
      <4> HIDE DEF v
      <4> QED BY <2>2, <3>1, <4>1, <4>2, <4>3, <4>4 DEF InOrder
    <3> QED BY <2>1, <3>2, <3>3, <3>4, <3>5 DEF FailuresCounted,
               Templates!OpensOnFailures, Templates!breaker
  <2> QED BY <1>7, <2>3, <2>4 DEF Templates!RollbackCommit, n, row
<1>8. ASSUME NEW a \in BOOLEAN, Templates!Switch(a)
      PROVE  TemplateInv'
  <2>1. /\ template' = [template EXCEPT !.active = a]
        /\ changesLeft' = changesLeft - 1 /\ changesLeft > 0
        /\ UNCHANGED <<versions, editor, torn, Templates!replays>>
    BY <1>8 DEF Templates!Switch
  <2>2. /\ template' \in TemplateRow /\ template'.version = template.version
        /\ template'.content = template.content
    BY <2>1 DEF TemplateRow
  <2>3. TemplateTypes'
    BY <2>1, <2>2 DEF Templates!replays, Templates!breaker
  <2>4. Numbered'
    BY <2>1, <2>2 DEF Numbered, EditorAt, TemplateRow, Templates!MaxVersion
  <2>5. EditorKnows' /\ InOrder'
    BY <2>1, <2>2 DEF EditorKnows, InOrder
  <2>6. ReplaysFollow' /\ FailuresCounted' /\ Templates!OpensOnFailures'
    BY <2>1, <2>2 DEF ReplaysFollow, FailuresCounted,
       Templates!OpensOnFailures, Templates!replays, Templates!breaker
  <2> QED BY <2>3, <2>4, <2>5, <2>6
<1>9. ASSUME ReplayStep, UNCHANGED Templates!template_
      PROVE  TemplateInv'
  <2>1. ReplaysHold'
    BY <1>9, ReplayTypes
  <2>2. Numbered' /\ EditorKnows' /\ InOrder'
    BY <1>9 DEF Templates!template_, Numbered, EditorKnows, InOrder
  <2> QED BY <2>1, <2>2 DEF ReplaysHold
<1>10. CASE UNCHANGED templateVars
  <2>1. TemplateTypes' /\ Numbered' /\ EditorKnows' /\ InOrder'
    BY <1>10 DEF templateVars, Numbered, EditorKnows, InOrder
  <2>2. ReplaysFollow' /\ FailuresCounted' /\ Templates!OpensOnFailures'
    BY <1>10 DEF templateVars, ReplaysFollow, FailuresCounted,
       Templates!OpensOnFailures
  <2> QED BY <2>1, <2>2
<1>11. ReplayStep => UNCHANGED Templates!template_
  BY DEF ReplayStep, Templates!RunReplay, Templates!ReplayTake,
     Templates!AskRefused, Templates!Ask, Templates!Answered,
     Templates!Unanswered, Templates!RecordFailure, Templates!SaveReplay,
     Templates!CallerDies, Templates!OpenExpires, Templates!CountExpires
<1> QED BY <1>1, <1>2, <1>3, <1>4, <1>5, <1>6, <1>7, <1>8, <1>9, <1>10, <1>11
           DEF Templates!Next, ReplayStep

\* What the newest number and the replays are, unless something is torn.
LEMMA NumbersFollow == TemplateInv => Templates!NumbersName
<1> SUFFICES ASSUME TemplateInv, ~torn PROVE Templates!NumbersName
  BY DEF Templates!NumbersName
<1>1. ASSUME NEW r \in Result, ~result[r].edited,
             result[r].used # Templates!Blank
      PROVE  versions[result[r].label]
                 \in {Templates!Blank, Templates!Redact(result[r].used)}
  <2>1. result[r].status # Templates!None
    BY <1>1 DEF TemplateInv, ReplaysFollow
  <2> QED BY <1>1, <2>1 DEF TemplateInv, ReplaysFollow, InOrder
<1>2. template.version = 0 \/ template.version > 0
  BY DEF TemplateInv, TemplateTypes, TemplateRow
<1> QED BY <1>1, <1>2 DEF Templates!NumbersName, TemplateInv, InOrder

LEMMA TemplatesSteps ==
    ASSUME part = "templates", [Next]_vars
    PROVE  [Templates!Next]_templateVars
BY DEF Next, vars, templateVars

\* The number of a template names one content: the history of a number holds
\* what the template was and what a replay with it used, and the breaker of
\* the AI calls opens on real failures only.
\* Code: DiagnosisTemplateViewSet, run_diagnosis_template_replay.
TemplatesHeld == part = "templates" => TemplateInv
THEOREM TemplatesHold == Spec => []TemplatesSound
<1>1. Init => TemplatesHeld
  BY TemplateInit DEF Init, TemplatesHeld
<1>2. TemplatesHeld /\ [Next]_vars => TemplatesHeld'
  BY PartStays, TemplatesSteps, TemplateStep DEF TemplatesHeld
<1>3. TemplatesHeld => TemplatesSound
  BY NumbersFollow DEF TemplateInv, TemplatesHeld, TemplatesSound
<1> QED BY <1>1, <1>2, <1>3, PTL DEF Spec

-----------------------------------------------------------------------------
(* Alerts of a fingerprint and their healing runs.                           *)

\* Handlers, tasks and tickets that are under way know their alert and run.
RequestAt ==
    {q \in Alerts!Request :
        q.pc \notin {"idle", "store", "create"} => q.alert \in Alert}
TaskAt == {x \in Alerts!Held :
              /\ x.pc # "idle" => x.alert \in Alert
              /\ x.pc \in {"link", "launch"} => x.run \in Run}
TicketAt == {x \in Alerts!TicketRow :
                /\ x.status # "absent" => x.alert \in Alert
                /\ x.status \in {"replayed", "linked"} => x.run \in Run}
RunStatus == Alerts!Ended \cup {"absent", "pending", "queued", "running"}
AlertTypes ==
    /\ alert \in [Alert -> Alerts!AlertRow] /\ key \in BOOLEAN
    /\ policy \in [kind : AlertKind, gate : Gate, ignored : BOOLEAN]
    /\ handler \in [Handler -> RequestAt] /\ worker \in [Worker -> TaskAt]
    /\ alertQueue \in [Alerts!Job \X Alert -> Nat]
    /\ run \in [Run -> RunStatus]
    /\ ticket \in [Ticket -> TicketAt]
    /\ windows \in Nat /\ autoRuns \in Nat /\ overtaken \subseteq Alert

\* What lets an alert be shown as 'executing': of a task, only the step
\* between the save and the link.
Linking(a) == \E w \in Worker : worker[w].alert = a /\ worker[w].pc = "link"
Runs(a) == alert[a].run # Alerts!None /\ run[alert[a].run] \notin Alerts!Ended
ExecutingHeld ==
    /\ \A a \in Alert : alert[a].healing = "executing" =>
          a \in overtaken \/ Linking(a) \/ Alerts!Answering(a) \/ Runs(a)
    /\ \A t \in Ticket : ticket[t].status = "linked" =>
          \/ alert[ticket[t].alert].run # Alerts!None
          \/ ticket[t].alert \in overtaken

\* Every window let one analysis through: it is with a handler about to queue
\* it, in a message, with a task that may still start a run, or spent.
Tokens ==
    {x \in {"handler"} \X Handler \X {0} : handler[x[2]].pc = "queue"}
    \cup {x \in {"analyze", "heal"} \X Alert \X (Nat \ {0}) :
             x[3] <= alertQueue[<<x[1], x[2]>>]}
    \cup {x \in {"worker"} \X Worker \X {0} :
             worker[x[2]].pc \in {"rag", "breaker", "start", "link"}}
WindowsSpent ==
    IsFiniteSet(Tokens) /\ Cardinality(Tokens) + autoRuns <= windows
AlertInv == AlertTypes /\ ExecutingHeld /\ WindowsSpent

-----------------------------------------------------------------------------
\* The rows that stand for nothing.
LEMMA AlertBlank ==
    /\ Alerts!NoRow \in Alerts!AlertRow /\ Alerts!NoRow.healing = "none"
    /\ Alerts!NoRow.run = Alerts!None
    /\ Alerts!AtRest \in RequestAt /\ Alerts!AtRest.pc = "idle"
    /\ Alerts!Free \in TaskAt /\ Alerts!Free.pc = "idle"
    /\ Alerts!NoTicket \in TicketAt /\ Alerts!NoTicket.status = "absent"
BY DEF Alerts!NoRow, Alerts!AtRest, Alerts!Free, Alerts!NoTicket,
   Alerts!AlertRow, Alerts!Request, Alerts!Held, Alerts!TicketRow,
   Alerts!Healing, RequestAt, TaskAt, TicketAt

LEMMA AlertInit == Alerts!Init => AlertInv
<1> SUFFICES ASSUME Alerts!Init PROVE AlertInv
  OBVIOUS
<1> USE AlertBlank DEF Alerts!Init
<1>1. AlertTypes
  BY DEF AlertTypes, Alerts!Job, RunStatus
<1>2. ExecutingHeld
  BY DEF ExecutingHeld
<1>3. Tokens = {}
  BY DEF Tokens, Alerts!Job
<1>4. WindowsSpent
  BY <1>3, FS_EmptySet DEF WindowsSpent
<1> QED BY <1>1, <1>2, <1>4 DEF AlertInv

-----------------------------------------------------------------------------
(* What a step writes. *)

\* A row of an alert with other columns.
LEMMA RowChanged ==
    ASSUME NEW row \in Alerts!AlertRow, NEW s \in {"firing", "resolved"},
           NEW g \in Alerts!Healing, NEW r \in Run,
           NEW by \in {Alerts!None, "manual", "auto"}
    PROVE  /\ [row EXCEPT !.status = s] \in Alerts!AlertRow
           /\ [row EXCEPT !.healing = g] \in Alerts!AlertRow
           /\ [row EXCEPT !.trigger = by] \in Alerts!AlertRow
           /\ [row EXCEPT !.status = s, !.healing = g] \in Alerts!AlertRow
           /\ [row EXCEPT !.run = r, !.trigger = by, !.healing = g]
                  \in Alerts!AlertRow
           /\ [row EXCEPT !.plan = TRUE, !.healing = g] \in Alerts!AlertRow
           /\ [row EXCEPT !.healing = g, !.plan = TRUE, !.trigger = by]
                 \in Alerts!AlertRow
BY DEF Alerts!AlertRow

LEMMA RowLinked ==
    ASSUME NEW row \in Alerts!AlertRow, NEW r \in Run
    PROVE  [row EXCEPT !.run = r] \in Alerts!AlertRow
BY DEF Alerts!AlertRow

\* A request at its next step.
LEMMA RequestNew ==
    ASSUME NEW q \in RequestAt, NEW a \in Alert, NEW g \in Alerts!Healing,
           NEW s \in {"firing", "resolved"}, NEW b \in BOOLEAN
    PROVE  /\ [Alerts!AtRest EXCEPT !.pc = "store", !.status = s,
                  !.analyse = b]
                 \in RequestAt
           /\ [q EXCEPT !.pc = "create"] \in RequestAt
           /\ [q EXCEPT !.pc = "debounce", !.alert = a] \in RequestAt
           /\ q.pc = "debounce" => [q EXCEPT !.pc = "queue"] \in RequestAt
           /\ [Alerts!AtRest EXCEPT !.pc = "rediagnose", !.alert = a]
                  \in RequestAt
           /\ [Alerts!AtRest EXCEPT !.pc = "bind", !.alert = a, !.healing = g]
                 \in RequestAt
<1>1. /\ [Alerts!AtRest EXCEPT !.pc = "store", !.status = s, !.analyse = b]
            \in RequestAt
      /\ [Alerts!AtRest EXCEPT !.pc = "rediagnose", !.alert = a] \in RequestAt
  BY DEF Alerts!AtRest, Alerts!Request, RequestAt, Alerts!Healing
<1>2. [Alerts!AtRest EXCEPT !.pc = "bind", !.alert = a, !.healing = g]
         \in RequestAt
  BY DEF Alerts!AtRest, Alerts!Request, RequestAt
<1>3. /\ [q EXCEPT !.pc = "create"] \in RequestAt
      /\ [q EXCEPT !.pc = "debounce", !.alert = a] \in RequestAt
      /\ q.pc = "debounce" => [q EXCEPT !.pc = "queue"] \in RequestAt
  <2>1. q \in Alerts!Request /\ (q.pc = "debounce" => q.alert \in Alert)
    BY DEF RequestAt
  <2>2. /\ [q EXCEPT !.pc = "create"] \in RequestAt
        /\ q.pc = "debounce" => [q EXCEPT !.pc = "queue"] \in RequestAt
    BY <2>1 DEF Alerts!Request, RequestAt
  <2>3. [q EXCEPT !.pc = "debounce", !.alert = a] \in RequestAt
    BY <2>1 DEF Alerts!Request, RequestAt
  <2> QED BY <2>2, <2>3
<1> QED BY <1>1, <1>2, <1>3

\* A task at its next step.
LEMMA TaskNew ==
    ASSUME NEW x \in TaskAt, NEW a \in Alert, NEW row \in Alerts!AlertRow,
           NEW r \in Run, NEW at \in {"await", "start"}
    PROVE  /\ [Alerts!Free EXCEPT !.pc = "boot", !.alert = a] \in TaskAt
           /\ [Alerts!Free EXCEPT !.pc = "rag", !.alert = a, !.copy = row]
                  \in TaskAt
           /\ [Alerts!Free EXCEPT !.pc = at, !.alert = a, !.copy = row]
                  \in TaskAt
           /\ x.pc # "idle" =>
                 /\ [x EXCEPT !.pc = "breaker", !.copy = row] \in TaskAt
                 /\ [x EXCEPT !.pc = "await", !.copy = row] \in TaskAt
                 /\ [x EXCEPT !.pc = "link", !.run = r] \in TaskAt
           /\ x.pc = "link" => [x EXCEPT !.pc = "launch"] \in TaskAt
<1>1. /\ [Alerts!Free EXCEPT !.pc = "boot", !.alert = a] \in TaskAt
      /\ [Alerts!Free EXCEPT !.pc = "rag", !.alert = a, !.copy = row]
            \in TaskAt
      /\ [Alerts!Free EXCEPT !.pc = at, !.alert = a, !.copy = row] \in TaskAt
  <2>1. Alerts!Free \in Alerts!Held
    BY AlertBlank DEF TaskAt
  <2>2. ASSUME NEW f \in Alerts!Held
        PROVE  [f EXCEPT !.pc = "boot", !.alert = a] \in TaskAt
    BY DEF Alerts!Held, TaskAt
  <2>3. ASSUME NEW f \in Alerts!Held, NEW pc \in {"rag", "await", "start"}
        PROVE  [f EXCEPT !.pc = pc, !.alert = a, !.copy = row] \in TaskAt
    BY DEF Alerts!Held, TaskAt
  <2>4. [Alerts!Free EXCEPT !.pc = "boot", !.alert = a] \in TaskAt
    BY <2>1, <2>2
  <2>5. \A pc \in {"rag", "await", "start"} :
           [Alerts!Free EXCEPT !.pc = pc, !.alert = a, !.copy = row] \in TaskAt
    BY <2>1, <2>3
  <2> QED BY <2>4, <2>5
<1>2. x.pc # "idle" =>
         /\ [x EXCEPT !.pc = "breaker", !.copy = row] \in TaskAt
         /\ [x EXCEPT !.pc = "await", !.copy = row] \in TaskAt
  BY DEF Alerts!Held, TaskAt
<1>3. /\ x.pc # "idle" => [x EXCEPT !.pc = "link", !.run = r] \in TaskAt
      /\ x.pc = "link" => [x EXCEPT !.pc = "launch"] \in TaskAt
  BY DEF Alerts!Held, TaskAt
<1> QED BY <1>1, <1>2, <1>3

\* A ticket at its next step.
LEMMA TicketNew ==
    ASSUME NEW x \in TicketAt, NEW a \in Alert, NEW v \in BOOLEAN,
           NEW r \in Run
    PROVE  /\ [Alerts!NoTicket EXCEPT !.status = "pending", !.alert = a,
                               !.verified = v] \in TicketAt
           /\ x.status # "absent" =>
                 /\ [x EXCEPT !.status = "approved", !.run = Alerts!None]
                        \in TicketAt
                 /\ [x EXCEPT !.status = "replayed", !.run = r] \in TicketAt
                 /\ \A s \in {"failed", "finished", "rejected", "canceled"} :
                       [x EXCEPT !.status = s] \in TicketAt
           /\ x.status = "replayed" => [x EXCEPT !.status = "linked"]
                                          \in TicketAt
BY DEF Alerts!NoTicket, Alerts!TicketRow, TicketAt

\* One message more, one less.
LEMMA QueueNew ==
    ASSUME alertQueue \in [Alerts!Job \X Alert -> Nat],
           NEW name \in Alerts!Job, NEW a \in Alert
    PROVE  /\ [alertQueue EXCEPT ![<<name, a>>] = @ + 1]
                  \in [Alerts!Job \X Alert -> Nat]
           /\ alertQueue[<<name, a>>] > 0 =>
                 [alertQueue EXCEPT ![<<name, a>>] = @ - 1]
                     \in [Alerts!Job \X Alert -> Nat]
OBVIOUS

\* A step that takes nothing away from an alert shown as 'executing'.
LEMMA ExecutingKept ==
    ASSUME ExecutingHeld, AlertTypes, overtaken \subseteq overtaken',
           \A a \in Alert : a \in overtaken' \/ alert'[a].run = alert[a].run,
           \A a \in Alert : alert'[a].healing = "executing" =>
              a \in overtaken' \/ alert[a].healing = "executing",
           \A w \in Worker : worker[w].pc = "link" => worker'[w] = worker[w],
           \A t \in Ticket :
              /\ ticket[t].status \in {"approved", "replayed", "linked",
                                       "failed"} => ticket'[t] = ticket[t]
              /\ ticket'[t].status = "linked" => ticket'[t] = ticket[t],
           \A r \in Run : run[r] \notin Alerts!Ended =>
               run'[r] \notin Alerts!Ended
    PROVE  ExecutingHeld'
<1>1. ASSUME NEW a \in Alert, alert'[a].healing = "executing",
             a \notin overtaken'
      PROVE  Linking(a)' \/ Alerts!Answering(a)' \/ Runs(a)'
  <2>1. Linking(a) \/ Alerts!Answering(a) \/ Runs(a)
    BY <1>1 DEF ExecutingHeld
  <2>2. Linking(a) => Linking(a)'
    BY DEF Linking
  <2>3. Alerts!Answering(a) => Alerts!Answering(a)'
    BY DEF Alerts!Answering
  <2>4. Runs(a) => Runs(a)'
    BY <1>1 DEF Runs, AlertTypes, Alerts!AlertRow
  <2> QED BY <2>1, <2>2, <2>3, <2>4
<1>2. ASSUME NEW t \in Ticket, ticket'[t].status = "linked"
      PROVE  \/ alert'[ticket'[t].alert].run # Alerts!None
             \/ ticket'[t].alert \in overtaken'
  BY <1>2 DEF ExecutingHeld, AlertTypes, TicketAt
<1> QED BY <1>1, <1>2 DEF ExecutingHeld

LEMMA OneMore ==
    ASSUME NEW S, IsFiniteSet(S), NEW y
    PROVE  /\ IsFiniteSet(S \cup {y}) /\ Cardinality(S \cup {y}) \in Nat
           /\ Cardinality(S \cup {y}) <= Cardinality(S) + 1
<1>1. Cardinality(S) \in Nat
  BY FS_CardinalityType
<1>2. /\ IsFiniteSet(S \cup {y})
      /\ Cardinality(S \cup {y}) =
            IF y \in S THEN Cardinality(S) ELSE Cardinality(S) + 1
  BY FS_AddElement
<1> QED BY <1>1, <1>2

\* One token moves, is spent or comes with a window.
LEMMA TokenMoves ==
    ASSUME WindowsSpent, NEW x \in Tokens, NEW y,
           Tokens' \subseteq (Tokens \ {x}) \cup {y},
           UNCHANGED <<windows, autoRuns>>, AlertTypes
    PROVE  WindowsSpent'
<1> DEFINE T == Tokens
           U == Tokens'
<1>1. /\ IsFiniteSet(T \ {x}) /\ Cardinality(T \ {x}) = Cardinality(T) - 1
      /\ Cardinality(T) \in Nat
  BY FS_RemoveElement, FS_CardinalityType DEF WindowsSpent
<1>2. /\ IsFiniteSet((T \ {x}) \cup {y})
      /\ Cardinality((T \ {x}) \cup {y}) <= Cardinality(T)
      /\ Cardinality((T \ {x}) \cup {y}) \in Nat
  <2>1. /\ IsFiniteSet((T \ {x}) \cup {y})
        /\ Cardinality((T \ {x}) \cup {y}) \in Nat
        /\ Cardinality((T \ {x}) \cup {y}) <= Cardinality(T \ {x}) + 1
    BY <1>1, OneMore
  <2> QED BY <1>1, <2>1
<1>3. IsFiniteSet(U) /\ Cardinality(U) <= Cardinality((T \ {x}) \cup {y})
      /\ Cardinality(U) \in Nat
  BY <1>2, FS_Subset, FS_CardinalityType
<1> QED BY <1>1, <1>2, <1>3 DEF WindowsSpent, AlertTypes

LEMMA TokenSpent ==
    ASSUME WindowsSpent, NEW x \in Tokens, Tokens' \subseteq Tokens \ {x},
           autoRuns' = autoRuns + 1, UNCHANGED windows, AlertTypes
    PROVE  WindowsSpent'
<1> DEFINE T == Tokens
           U == Tokens'
<1>1. /\ IsFiniteSet(T \ {x}) /\ Cardinality(T \ {x}) = Cardinality(T) - 1
      /\ Cardinality(T) \in Nat
  BY FS_RemoveElement, FS_CardinalityType DEF WindowsSpent
<1>2. IsFiniteSet(U) /\ Cardinality(U) <= Cardinality(T \ {x})
      /\ Cardinality(U) \in Nat
  BY <1>1, FS_Subset, FS_CardinalityType
<1> QED BY <1>1, <1>2 DEF WindowsSpent, AlertTypes

LEMMA TokenMade ==
    ASSUME WindowsSpent, NEW y, Tokens' \subseteq Tokens \cup {y},
           windows' = windows + 1, UNCHANGED autoRuns, AlertTypes
    PROVE  WindowsSpent'
<1> DEFINE T == Tokens
           U == Tokens'
<1>1. /\ IsFiniteSet(T \cup {y}) /\ Cardinality(T) \in Nat
      /\ Cardinality(T \cup {y}) <= Cardinality(T) + 1
      /\ Cardinality(T \cup {y}) \in Nat
  BY FS_AddElement, FS_CardinalityType DEF WindowsSpent
<1>2. IsFiniteSet(U) /\ Cardinality(U) <= Cardinality(T \cup {y})
      /\ Cardinality(U) \in Nat
  BY <1>1, FS_Subset, FS_CardinalityType
<1> QED BY <1>1, <1>2 DEF WindowsSpent, AlertTypes

LEMMA TokensKept ==
    ASSUME WindowsSpent, AlertTypes, UNCHANGED <<windows, autoRuns>>,
           \A h \in Handler : handler'[h].pc = "queue" =>
              handler[h].pc = "queue",
           \A w \in Worker :
              worker'[w].pc \in {"rag", "breaker", "start", "link"} =>
              worker[w].pc \in {"rag", "breaker", "start", "link"},
           \A name \in {"analyze", "heal"}, a \in Alert :
              /\ alertQueue[<<name, a>>] \in Nat
              /\ alertQueue'[<<name, a>>] \in Nat
              /\ alertQueue'[<<name, a>>] <= alertQueue[<<name, a>>]
    PROVE  WindowsSpent'
<1>1. Tokens' \subseteq Tokens
  BY DEF Tokens
<1> DEFINE T == Tokens
           U == Tokens'
<1>2. IsFiniteSet(U) /\ Cardinality(U) <= Cardinality(T)
      /\ Cardinality(U) \in Nat /\ Cardinality(T) \in Nat
  BY <1>1, FS_Subset, FS_CardinalityType DEF WindowsSpent
<1> QED BY <1>2 DEF WindowsSpent, AlertTypes

-----------------------------------------------------------------------------
(* The handlers. *)

\* The rows of alerts change, none of them to 'executing'; a run taken back is
\* noted.
Lowered ==
    /\ alert' \in [Alert -> Alerts!AlertRow]
    /\ overtaken \subseteq overtaken' /\ overtaken' \subseteq Alert
    /\ \A a \in Alert \ overtaken' :
          /\ alert'[a].run = alert[a].run
          /\ alert'[a].healing = "executing" => alert[a].healing = "executing"
LEMMA RowLowered ==
    ASSUME AlertTypes, NEW a \in Alert, NEW row \in Alerts!AlertRow,
           row.run = alert[a].run,
           row.healing = "executing" => alert[a].healing = "executing",
           alert' = [alert EXCEPT ![a] = row], UNCHANGED overtaken
    PROVE  Lowered
BY DEF Lowered, AlertTypes
LEMMA AlertSame ==
    ASSUME AlertTypes, UNCHANGED <<alert, overtaken>> PROVE Lowered
BY DEF Lowered, AlertTypes
LEMMA HealLowered ==
    ASSUME AlertTypes, NEW a \in Alert,
           NEW g \in Alerts!Healing \ {"executing"},
           Alerts!Heal(a, g), UNCHANGED overtaken
    PROVE  Lowered
<1> DEFINE row == [alert[a] EXCEPT !.healing = g]
<1>1. alert' = [alert EXCEPT ![a] = row]
  BY DEF Alerts!Heal
<1>2. row \in Alerts!AlertRow /\ row.run = alert[a].run /\ row.healing = g
  BY DEF AlertTypes, Alerts!AlertRow
<1> HIDE DEF row
<1> QED BY <1>1, <1>2, RowLowered
LEMMA SaveLowered ==
    ASSUME AlertTypes, NEW w \in Worker, worker[w].alert \in Alert,
           NEW row \in Alerts!AlertRow, row.healing # "executing",
           Alerts!Save(w, row)
    PROVE  Lowered
BY DEF Lowered, AlertTypes, Alerts!Save

\* No analysis and no healing is queued.
NoneQueued ==
    /\ alertQueue' \in [Alerts!Job \X Alert -> Nat]
    /\ \A name \in {"analyze", "heal"}, a \in Alert :
          alertQueue'[<<name, a>>] <= alertQueue[<<name, a>>]
LEMMA QueueSame == ASSUME AlertTypes, UNCHANGED alertQueue PROVE NoneQueued
<1>1. \A name \in {"analyze", "heal"}, a \in Alert :
         alertQueue[<<name, a>>] \in Nat
  BY DEF AlertTypes, Alerts!Job
<1> QED BY <1>1 DEF NoneQueued, AlertTypes

\* A handler that does so and is not about to queue an analysis, or ends.
LEMMA HandlerKeeps ==
    ASSUME AlertInv, Lowered, NoneQueued, NEW h \in Handler,
           NEW new \in RequestAt, new.pc # "queue",
           handler' = [handler EXCEPT ![h] = new], key' \in BOOLEAN,
           policy' = policy, worker' = worker, run' = run, ticket' = ticket,
           windows' = windows, autoRuns' = autoRuns
    PROVE  AlertInv'
<1> USE DEF AlertInv
<1>1. AlertTypes'
  BY DEF AlertTypes, Lowered, NoneQueued
<1>2. ExecutingHeld'
  BY ExecutingKept DEF Lowered
<1>3. \A name \in {"analyze", "heal"}, a \in Alert :
         alertQueue[<<name, a>>] \in Nat /\ alertQueue'[<<name, a>>] \in Nat
  BY DEF AlertTypes, Alerts!Job, NoneQueued
<1>4. WindowsSpent'
  BY <1>3, TokensKept DEF AlertTypes, NoneQueued
<1> QED BY <1>1, <1>2, <1>4

LEMMA ReceiveReadKeeps ==
    ASSUME AlertInv, NEW h \in Handler, NEW s \in {"firing", "resolved"},
           Alerts!ReceiveRead(h, s)
    PROVE  AlertInv'
<1>1. PICK b \in BOOLEAN :
        handler' = [handler EXCEPT ![h] =
           [Alerts!AtRest EXCEPT !.pc = "store", !.status = s, !.analyse = b]]
  BY DEF Alerts!ReceiveRead
<1> DEFINE new == [Alerts!AtRest EXCEPT !.pc = "store", !.status = s,
        !.analyse = b]
<1>2. new \in RequestAt /\ new.pc # "queue"
  BY DEF Alerts!AtRest, RequestAt, Alerts!Request, Alerts!Healing
<1> HIDE DEF new
<1>3. /\ handler' = [handler EXCEPT ![h] = new]
      /\ UNCHANGED <<alert, key, policy, worker, alertQueue, run, ticket,
                     windows, autoRuns, overtaken>>
  BY <1>1 DEF Alerts!ReceiveRead, new
<1>4. Lowered /\ NoneQueued /\ key' \in BOOLEAN
  BY <1>3, AlertSame, QueueSame DEF AlertInv, AlertTypes
<1> QED BY <1>2, <1>3, <1>4, HandlerKeeps

\* The row is stored, the handler ends or goes on.
LEMMA ReceiveStoreKeeps ==
    ASSUME AlertInv, NEW h \in Handler, Alerts!ReceiveStore(h)
    PROVE  AlertInv'
<1> USE AlertBlank DEF AlertInv
<1>1. handler[h] \in RequestAt /\ handler[h].status \in {"firing", "resolved"}
  BY DEF AlertTypes, RequestAt, Alerts!Request
<1> DEFINE s == handler[h].status
           waits == [handler[h] EXCEPT !.pc = "create"]
           goes(a) == [handler[h] EXCEPT !.pc = "debounce", !.alert = a]
           stored(a) == [alert[a] EXCEPT
                           !.status = s,
                           !.healing = IF policy.ignored THEN "ignored"
                                       ELSE @]
<1>2. waits \in RequestAt /\ waits.pc = "create"
  BY <1>1 DEF RequestAt, Alerts!Request
<1>3. ASSUME NEW a \in Alert
      PROVE  goes(a) \in RequestAt /\ goes(a).pc = "debounce"
  BY <1>1 DEF RequestAt, Alerts!Request
<1>4. ASSUME NEW a \in Alert
      PROVE  /\ stored(a) \in Alerts!AlertRow /\ stored(a).run = alert[a].run
             /\ stored(a).healing \in {alert[a].healing, "ignored"}
  BY <1>1 DEF AlertTypes, Alerts!AlertRow, Alerts!Healing
<1>5. /\ UNCHANGED <<key, policy, worker, alertQueue, run, ticket, windows,
                     autoRuns, overtaken>>
      /\ \/ /\ \/ handler' = [handler EXCEPT ![h] = waits]
               \/ handler' = [handler EXCEPT ![h] = Alerts!AtRest]
            /\ UNCHANGED alert
         \/ \E a \in Alert :
               /\ \/ handler' = [handler EXCEPT ![h] = goes(a)]
                  \/ handler' = [handler EXCEPT ![h] = Alerts!AtRest]
               /\ alert' = [alert EXCEPT ![a] = stored(a)]
  <2>1. UNCHANGED <<key, policy, worker, alertQueue, run, ticket, windows,
                    autoRuns, overtaken>>
    BY DEF Alerts!ReceiveStore
  <2>2. CASE handler' = [handler EXCEPT ![h].pc = "create"] /\ UNCHANGED alert
    BY <2>1, <2>2
  <2>3. CASE handler' = [handler EXCEPT ![h] = Alerts!AtRest]
                 /\ UNCHANGED alert
    BY <2>1, <2>3
  <2>4. ASSUME NEW a \in Alerts!Rows, Alerts!Stored(h, a),
               alert' = [alert EXCEPT
                            ![a].status = handler[h].status,
                            ![a].healing = IF policy.ignored THEN "ignored"
                                           ELSE @]
        PROVE  /\ \/ handler' = [handler EXCEPT ![h] = goes(a)]
                  \/ handler' = [handler EXCEPT ![h] = Alerts!AtRest]
               /\ alert' = [alert EXCEPT ![a] = stored(a)]
    <3>1. alert' = [alert EXCEPT ![a] = stored(a)]
      BY <2>4
    <3>2. CASE handler[h].analyse
      BY <2>4, <3>1, <3>2 DEF Alerts!Stored
    <3>3. CASE ~handler[h].analyse
      BY <2>4, <3>1, <3>3 DEF Alerts!Stored
    <3> QED BY <3>2, <3>3
  <2>5. Alerts!Rows \subseteq Alert
    BY DEF Alerts!Rows
  <2> HIDE DEF waits, goes, stored
  <2> QED BY <2>1, <2>2, <2>3, <2>4, <2>5 DEF Alerts!ReceiveStore
<1> HIDE DEF s, waits, goes, stored
<1>6. Lowered
  BY <1>4, <1>5, AlertSame, RowLowered
<1>7. PICK new \in RequestAt : handler' = [handler EXCEPT ![h] = new]
                               /\ new.pc # "queue"
  BY <1>2, <1>3, <1>5
<1>8. NoneQueued /\ key' \in BOOLEAN
  BY <1>5, QueueSame DEF AlertTypes
<1> QED BY <1>5, <1>6, <1>7, <1>8, HandlerKeeps

LEMMA ReceiveCreateKeeps ==
    ASSUME AlertInv, NEW h \in Handler, Alerts!ReceiveCreate(h)
    PROVE  AlertInv'
<1> USE AlertBlank DEF AlertInv
<1>1. handler[h] \in RequestAt /\ handler[h].status \in {"firing", "resolved"}
  BY DEF AlertTypes, RequestAt, Alerts!Request
<1>2. PICK a \in Alert :
        /\ \/ /\ Alerts!Stored(h, a) /\ Alerts!Post("boot", a)
              /\ alert' = [alert EXCEPT
                    ![a].status = handler[h].status,
                    ![a].healing = IF policy.ignored THEN "ignored" ELSE @]
           \/ /\ handler' = [handler EXCEPT ![h] = Alerts!AtRest]
              /\ Alerts!Refused
              /\ alert' = [alert EXCEPT ![a].status = handler[h].status]
        /\ UNCHANGED <<key, policy, worker, run, ticket, windows, autoRuns,
                       overtaken>>
  BY DEF Alerts!ReceiveCreate
<1> DEFINE s == handler[h].status
           goes == [handler[h] EXCEPT !.pc = "debounce", !.alert = a]
           stored == [alert[a] EXCEPT
                        !.status = s,
                        !.healing = IF policy.ignored THEN "ignored" ELSE @]
           plain == [alert[a] EXCEPT !.status = s]
<1>3. goes \in RequestAt /\ goes.pc = "debounce"
  BY <1>1 DEF RequestAt, Alerts!Request
<1>4. /\ stored \in Alerts!AlertRow /\ stored.run = alert[a].run
      /\ stored.healing \in {alert[a].healing, "ignored"}
      /\ plain \in Alerts!AlertRow /\ plain.run = alert[a].run
      /\ plain.healing = alert[a].healing
  BY <1>1 DEF AlertTypes, Alerts!AlertRow, Alerts!Healing
<1>5. \/ handler' = [handler EXCEPT ![h] = goes]
      \/ handler' = [handler EXCEPT ![h] = Alerts!AtRest]
  BY <1>2 DEF Alerts!Stored
<1>6. alert' = [alert EXCEPT ![a] = stored]
          \/ alert' = [alert EXCEPT ![a] = plain]
  BY <1>2
<1> HIDE DEF s, goes, stored, plain
<1>7. Lowered
  BY <1>2, <1>4, <1>6, RowLowered
<1>8. NoneQueued
  <2>1. CASE UNCHANGED alertQueue
    BY <2>1, QueueSame
  <2>2. CASE alertQueue' = [alertQueue EXCEPT ![<<"boot", a>>] = @ + 1]
    <3>1. alertQueue' \in [Alerts!Job \X Alert -> Nat]
      BY <2>2, QueueNew DEF Alerts!Job, AlertTypes
    <3>2. \A name \in {"analyze", "heal"}, b \in Alert :
             /\ alertQueue'[<<name, b>>] = alertQueue[<<name, b>>]
             /\ alertQueue[<<name, b>>] \in Nat
      BY <2>2 DEF Alerts!Job, AlertTypes
    <3> QED BY <3>1, <3>2 DEF NoneQueued
  <2> QED BY <1>2, <2>1, <2>2 DEF Alerts!Post, Alerts!Refused
<1>9. PICK new \in RequestAt : handler' = [handler EXCEPT ![h] = new]
                               /\ new.pc # "queue"
  BY <1>3, <1>5
<1>10. key' \in BOOLEAN
  BY <1>2 DEF AlertTypes
<1> QED BY <1>2, <1>7, <1>8, <1>9, <1>10, HandlerKeeps

\* The debounce lets an analysis through, and a window is counted.
LEMMA ReceiveDebounceKeeps ==
    ASSUME AlertInv, NEW h \in Handler, Alerts!ReceiveDebounce(h)
    PROVE  AlertInv'
<1> USE AlertBlank DEF AlertInv
<1>1. /\ handler[h] \in RequestAt /\ handler[h].pc = "debounce"
      /\ handler[h].alert \in Alert
      /\ UNCHANGED <<policy, worker, alertQueue, run, ticket, autoRuns,
                     overtaken>>
  BY DEF AlertTypes, RequestAt, Alerts!ReceiveDebounce
<1>2. CASE /\ handler' = [handler EXCEPT ![h] = Alerts!AtRest]
           /\ UNCHANGED <<alert, key, windows>>
  <2>1. Lowered /\ NoneQueued /\ key' \in BOOLEAN
    BY <1>1, <1>2, AlertSame, QueueSame DEF AlertTypes
  <2> QED BY <1>1, <1>2, <2>1, HandlerKeeps
<1>3. CASE /\ key' \in BOOLEAN /\ windows' = windows + 1
           /\ handler' = [handler EXCEPT ![h].pc = "queue"]
           /\ Alerts!Heal(handler[h].alert, "analyzing")
  <2> DEFINE new == [handler[h] EXCEPT !.pc = "queue"]
  <2>1. new \in RequestAt /\ handler' = [handler EXCEPT ![h] = new]
    BY <1>1, <1>3 DEF RequestAt, Alerts!Request
  <2> HIDE DEF new
  <2>2. Lowered
    BY <1>1, <1>3, HealLowered DEF Alerts!Healing
  <2>3. AlertTypes'
    BY <1>1, <1>3, <2>1, <2>2 DEF AlertTypes, Lowered
  <2>4. ExecutingHeld'
    BY <1>1, <2>2, ExecutingKept DEF Lowered
  <2>5. \A g \in Handler \ {h} : handler'[g] = handler[g]
    BY <2>1
  <2>6. Tokens' \subseteq Tokens \cup {<<"handler", h, 0>>}
    BY <1>1, <2>5 DEF Tokens
  <2>7. WindowsSpent'
    BY <1>1, <1>3, <2>6, TokenMade
  <2> QED BY <2>3, <2>4, <2>7
<1> QED BY <1>2, <1>3 DEF Alerts!ReceiveDebounce, AlertTypes

\* The analysis is with its message now, or the alert has failed.
LEMMA ReceiveQueueKeeps ==
    ASSUME AlertInv, NEW h \in Handler, Alerts!ReceiveQueue(h)
    PROVE  AlertInv'
<1> USE AlertBlank DEF AlertInv
<1> DEFINE a == handler[h].alert
<1>1. /\ handler[h] \in RequestAt /\ handler[h].pc = "queue" /\ a \in Alert
      /\ handler' = [handler EXCEPT ![h] = Alerts!AtRest]
      /\ UNCHANGED <<key, policy, worker, run, ticket, windows, autoRuns,
                     overtaken>>
  BY DEF AlertTypes, RequestAt, Alerts!ReceiveQueue
<1> HIDE DEF a
<1>2. CASE Alerts!Refused /\ Alerts!Heal(a, "failed")
  <2>1. Lowered /\ NoneQueued /\ key' \in BOOLEAN
    BY <1>1, <1>2, HealLowered, QueueSame DEF AlertTypes, Alerts!Refused,
       Alerts!Healing
  <2> QED BY <1>1, <2>1, HandlerKeeps
<1>3. CASE alertQueue' = [alertQueue EXCEPT ![<<"analyze", a>>] = @ + 1]
           /\ UNCHANGED alert
  <2>1. Lowered
    BY <1>1, <1>3, AlertSame
  <2>2. alertQueue' \in [Alerts!Job \X Alert -> Nat]
    BY <1>1, <1>3, QueueNew DEF Alerts!Job, AlertTypes
  <2>3. AlertTypes'
    BY <1>1, <2>1, <2>2 DEF AlertTypes, Lowered
  <2>4. ExecutingHeld'
    BY <1>1, <2>1, ExecutingKept DEF Lowered
  <2>5. /\ handler'[h].pc # "queue"
        /\ \A g \in Handler \ {h} : handler'[g] = handler[g]
    BY <1>1 DEF AlertTypes
  <2> DEFINE x == <<"handler", h, 0>>
             n == alertQueue[<<"analyze", a>>] + 1
             y == <<"analyze", a, n>>
  <2>6. x \in Tokens
    BY <1>1 DEF Tokens
  <2>7. /\ \A name \in {"analyze", "heal"}, b \in Alert :
              <<name, b>> # <<"analyze", a>> =>
                 alertQueue'[<<name, b>>] = alertQueue[<<name, b>>]
        /\ alertQueue'[<<"analyze", a>>] = n /\ n \in Nat
        /\ alertQueue[<<"analyze", a>>] \in Nat
    BY <1>1, <1>3 DEF Alerts!Job, AlertTypes
  <2>8. Tokens' \subseteq (Tokens \ {x}) \cup {y}
    BY <1>1, <2>5, <2>7 DEF Tokens
  <2>9. WindowsSpent'
    BY <1>1, <2>6, <2>8, TokenMoves
  <2> QED BY <2>3, <2>4, <2>9
<1> QED BY <1>2, <1>3 DEF Alerts!ReceiveQueue, Alerts!Post, a

\* The explanation of a failed run is stored as a proposal.
LEMMA RediagnoseKeeps ==
    ASSUME AlertInv, NEW h \in Handler,
           \/ Alerts!RediagnoseSave(h)
           \/ \E a \in Alert : Alerts!RediagnoseBegin(h, a)
    PROVE  AlertInv'
<1> USE AlertBlank DEF AlertInv
<1>1. CASE Alerts!RediagnoseSave(h)
  <2>1. /\ handler[h].alert \in Alert
        /\ handler' = [handler EXCEPT ![h] = Alerts!AtRest]
        /\ UNCHANGED <<key, policy, worker, alertQueue, run, ticket,
                       alertsLeft, windows, autoRuns, overtaken>>
        /\ Alerts!Heal(handler[h].alert, "suggested") \/ UNCHANGED alert
    BY <1>1 DEF Alerts!RediagnoseSave, AlertTypes, RequestAt
  <2>2. Lowered /\ NoneQueued /\ key' \in BOOLEAN
    BY <2>1, HealLowered, AlertSame, QueueSame DEF Alerts!Healing, AlertTypes
  <2> QED BY <2>1, <2>2, HandlerKeeps
<1>2. ASSUME NEW a \in Alert, Alerts!RediagnoseBegin(h, a)
      PROVE  AlertInv'
  <2> DEFINE new == [Alerts!AtRest EXCEPT !.pc = "rediagnose", !.alert = a]
  <2>1. new \in RequestAt /\ new.pc # "queue"
    BY DEF Alerts!AtRest, RequestAt, Alerts!Request, Alerts!Healing
  <2>2. /\ handler' = [handler EXCEPT ![h] = new]
        /\ UNCHANGED <<alert, key, policy, worker, alertQueue, run, ticket,
                       windows, autoRuns, overtaken>>
    BY <1>2 DEF Alerts!RediagnoseBegin
  <2> HIDE DEF new
  <2>3. Lowered /\ NoneQueued /\ key' \in BOOLEAN
    BY <2>2, AlertSame, QueueSame DEF AlertTypes
  <2> QED BY <2>1, <2>2, <2>3, HandlerKeeps
<1> QED BY <1>1, <1>2

\* A pipeline is bound, and the healing state read before is written back.
LEMMA BindKeeps ==
    ASSUME AlertInv, NEW h \in Handler,
           Alerts!BindSave(h) \/ \E a \in Alert : Alerts!BindRead(h, a)
    PROVE  AlertInv'
<1> USE AlertBlank DEF AlertInv
<1>1. CASE Alerts!BindSave(h)
  <2> DEFINE a == handler[h].alert
             read == handler[h].healing
             g == IF read = "none" THEN "suggested" ELSE read
             row == [alert[a] EXCEPT !.plan = TRUE, !.healing = g]
  <2>1. /\ a \in Alert /\ read \in Alerts!Healing
        /\ handler' = [handler EXCEPT ![h] = Alerts!AtRest]
        /\ alert' = [alert EXCEPT ![a] = row]
        /\ overtaken' = IF read \in {"analyzing", "executing"}
                           /\ alert[a].healing # read
                        THEN overtaken \cup {a} ELSE overtaken
        /\ UNCHANGED <<key, policy, worker, alertQueue, run, ticket, windows,
                       autoRuns>>
    BY <1>1 DEF Alerts!BindSave, AlertTypes, RequestAt, Alerts!Request
  <2>2. g \in Alerts!Healing /\ (g = "executing" => read = "executing")
    BY <2>1 DEF Alerts!Healing
  <2> HIDE DEF a, read, g
  <2>3. row \in Alerts!AlertRow /\ row.run = alert[a].run /\ row.healing = g
    BY <2>1, <2>2 DEF AlertTypes, Alerts!AlertRow
  <2> HIDE DEF row
  <2>4. Lowered
    BY <2>1, <2>2, <2>3 DEF Lowered, AlertTypes
  <2>5. NoneQueued /\ key' \in BOOLEAN
    BY <2>1, QueueSame DEF AlertTypes
  <2> QED BY <2>1, <2>4, <2>5, HandlerKeeps
<1>2. ASSUME NEW a \in Alert, Alerts!BindRead(h, a)
      PROVE  AlertInv'
  <2> DEFINE g == alert[a].healing
             new == [Alerts!AtRest EXCEPT !.pc = "bind", !.alert = a,
                 !.healing = g]
  <2>1. /\ handler' = [handler EXCEPT ![h] = new]
        /\ UNCHANGED <<alert, key, policy, worker, alertQueue, run, ticket,
                       windows, autoRuns, overtaken>>
    BY <1>2 DEF Alerts!BindRead
  <2>2. g \in Alerts!Healing
    BY DEF AlertTypes, Alerts!AlertRow
  <2> HIDE DEF g
  <2>3. new \in RequestAt /\ new.pc # "queue"
    BY <2>2 DEF Alerts!AtRest, RequestAt, Alerts!Request
  <2> HIDE DEF new
  <2>4. Lowered /\ NoneQueued /\ key' \in BOOLEAN
    BY <2>1, AlertSame, QueueSame DEF AlertTypes
  <2> QED BY <2>1, <2>3, <2>4, HandlerKeeps
<1> QED BY <1>1, <1>2

-----------------------------------------------------------------------------
(* The tasks. *)

AnalysesAt == {"rag", "breaker", "start", "link"}

\* What a task that is under way has in hand.
LEMMA TaskHolds ==
    ASSUME AlertTypes, NEW w \in Worker
    PROVE  /\ worker[w] \in TaskAt /\ worker[w].copy \in Alerts!AlertRow
           /\ worker[w].pc # "idle" => worker[w].alert \in Alert
           /\ worker[w].pc \in {"link", "launch"} => worker[w].run \in Run
<1>1. worker[w] \in TaskAt
  BY DEF AlertTypes
<1>2. worker[w] \in Alerts!Held
  BY <1>1 DEF TaskAt
<1> QED BY <1>1, <1>2 DEF TaskAt, Alerts!Held

\* Tickets that are being answered stay, a run that has not ended does not end.
TicketsKept ==
    /\ ticket' \in [Ticket -> TicketAt]
    /\ \A t \in Ticket :
          /\ ticket[t].status \in {"approved", "replayed", "linked", "failed"}
                => ticket'[t] = ticket[t]
          /\ ticket'[t].status = "linked" => ticket'[t] = ticket[t]
RunsKept ==
    /\ run' \in [Run -> RunStatus]
    /\ \A r \in Run : run[r] \notin Alerts!Ended => run'[r] \notin Alerts!Ended
LEMMA TicketsSame == ASSUME AlertTypes, UNCHANGED ticket PROVE TicketsKept
BY DEF TicketsKept, AlertTypes
LEMMA RunsSame == ASSUME AlertTypes, UNCHANGED run PROVE RunsKept
BY DEF RunsKept, AlertTypes

\* A task that does not write 'executing' and does not come to an analysis.
LEMMA TaskKeeps ==
    ASSUME AlertInv, Lowered, NoneQueued, TicketsKept, RunsKept,
           NEW w \in Worker, NEW new \in TaskAt,
           worker' = [worker EXCEPT ![w] = new], worker[w].pc # "link",
           new.pc \in AnalysesAt => worker[w].pc \in AnalysesAt,
           key' = key, policy' = policy, handler' = handler,
           windows' = windows, autoRuns' = autoRuns
    PROVE  AlertInv'
<1> USE DEF AlertInv
<1>1. AlertTypes'
  BY DEF AlertTypes, Lowered, NoneQueued, TicketsKept, RunsKept
<1>2. \A v \in Worker : /\ v # w => worker'[v] = worker[v]
                        /\ v = w => worker'[v] = new
  BY DEF AlertTypes
<1>3. ExecutingHeld'
  BY <1>2, ExecutingKept DEF Lowered, TicketsKept, RunsKept
<1>4. \A name \in {"analyze", "heal"}, a \in Alert :
         alertQueue[<<name, a>>] \in Nat /\ alertQueue'[<<name, a>>] \in Nat
  BY DEF AlertTypes, Alerts!Job, NoneQueued
<1>5. WindowsSpent'
  BY <1>2, <1>4, TokensKept DEF AlertTypes, NoneQueued, AnalysesAt
<1> QED BY <1>1, <1>3, <1>5

\* A message that is taken.
LEMMA TakeLess ==
    ASSUME AlertTypes, NEW w \in Worker, NEW name \in Alerts!Job,
           NEW a \in Alert,
           NEW new \in TaskAt, Alerts!Take(w, name, a, new)
    PROVE  /\ NoneQueued /\ worker[w].pc = "idle"
           /\ worker' = [worker EXCEPT ![w] = new]
           /\ alertQueue[<<name, a>>] \in Nat \ {0}
           /\ alertQueue' = [alertQueue EXCEPT ![<<name, a>>] = @ - 1]
<1>1. /\ worker[w].pc = "idle" /\ worker' = [worker EXCEPT ![w] = new]
      /\ alertQueue[<<name, a>>] > 0 /\ alertQueue[<<name, a>>] \in Nat
      /\ alertQueue' = [alertQueue EXCEPT ![<<name, a>>] = @ - 1]
  BY DEF Alerts!Take, AlertTypes
<1>2. alertQueue' \in [Alerts!Job \X Alert -> Nat]
  BY <1>1, QueueNew DEF AlertTypes
<1>3. ASSUME NEW m \in {"analyze", "heal"}, NEW b \in Alert
      PROVE  alertQueue'[<<m, b>>] <= alertQueue[<<m, b>>]
  <2>1. <<m, b>> \in Alerts!Job \X Alert /\ alertQueue[<<m, b>>] \in Nat
    BY DEF Alerts!Job, AlertTypes
  <2>2. CASE <<m, b>> = <<name, a>>
    <3>1. alertQueue'[<<m, b>>] = alertQueue[<<m, b>>] - 1
      BY <1>1, <2>1, <2>2 DEF AlertTypes
    <3> QED BY <2>1, <3>1
  <2>3. CASE <<m, b>> # <<name, a>>
    <3>1. alertQueue'[<<m, b>>] = alertQueue[<<m, b>>]
      BY <1>1, <2>1, <2>3 DEF AlertTypes
    <3> QED BY <2>1, <3>1
  <2> QED BY <2>2, <2>3
<1> QED BY <1>1, <1>2, <1>3 DEF NoneQueued

\* The task at the creation of a row marks it and takes the mark back.
LEMMA BootKeeps ==
    ASSUME AlertInv, NEW w \in Worker,
           Alerts!BootEnd(w) \/ \E a \in Alert : Alerts!BootBegin(w, a)
    PROVE  AlertInv'
<1> USE AlertBlank DEF AlertInv
<1>1. CASE Alerts!BootEnd(w)
  <2>1. /\ worker[w].pc = "boot" /\ worker[w].alert \in Alert
        /\ Alerts!Heal(worker[w].alert, "none")
        /\ worker' = [worker EXCEPT ![w] = Alerts!Free]
        /\ UNCHANGED <<key, policy, handler, alertQueue, run, ticket, windows,
                       autoRuns, overtaken>>
    BY <1>1, TaskHolds DEF Alerts!BootEnd
  <2>2. Lowered /\ NoneQueued /\ TicketsKept /\ RunsKept
    BY <2>1, HealLowered, QueueSame, TicketsSame, RunsSame DEF Alerts!Healing
  <2>3. Alerts!Free.pc \notin AnalysesAt
    BY DEF AnalysesAt
  <2> QED BY <2>1, <2>2, <2>3, TaskKeeps
<1>2. ASSUME NEW a \in Alert, Alerts!BootBegin(w, a)
      PROVE  AlertInv'
  <2> DEFINE new == [Alerts!Free EXCEPT !.pc = "boot", !.alert = a]
  <2>1. new \in TaskAt /\ new.pc = "boot"
    BY DEF Alerts!Free, TaskAt, Alerts!Held
  <2>2. /\ Alerts!Take(w, "boot", a, new) /\ Alerts!Heal(a, "analyzing")
        /\ UNCHANGED <<key, policy, handler, run, ticket, windows, autoRuns,
                       overtaken>>
    BY <1>2 DEF Alerts!BootBegin
  <2> HIDE DEF new
  <2>3. NoneQueued /\ worker[w].pc = "idle"
        /\ worker' = [worker EXCEPT ![w] = new]
    BY <2>1, <2>2, TakeLess DEF Alerts!Job
  <2>4. Lowered /\ TicketsKept /\ RunsKept
    BY <2>2, HealLowered, TicketsSame, RunsSame DEF Alerts!Healing
  <2>5. new.pc \notin AnalysesAt
    BY <2>1 DEF AnalysesAt
  <2> QED BY <2>1, <2>2, <2>3, <2>4, <2>5, TaskKeeps
<1> QED BY <1>1, <1>2

\* The analysis of a message is with the task that took it.
LEMMA AnalyzeBeginKeeps ==
    ASSUME AlertInv, NEW w \in Worker,
           NEW a \in Alert, Alerts!AnalyzeBegin(w, a)
    PROVE  AlertInv'
<1> USE AlertBlank DEF AlertInv
<1> DEFINE copy == [alert[a] EXCEPT !.healing = "analyzing"]
           new == [Alerts!Free EXCEPT !.pc = "rag", !.alert = a, !.copy = copy]
           n == alertQueue[<<"analyze", a>>]
           x == <<"analyze", a, n>>
           y == <<"worker", w, 0>>
<1>1. /\ copy \in Alerts!AlertRow /\ copy.run = alert[a].run
      /\ copy.healing = "analyzing"
  BY DEF AlertTypes, Alerts!AlertRow, Alerts!Healing
<1>2. /\ Alerts!Take(w, "analyze", a, new)
      /\ alert' = [alert EXCEPT ![a] = copy]
      /\ UNCHANGED <<key, policy, handler, run, ticket, windows, autoRuns,
                     overtaken>>
  BY DEF Alerts!AnalyzeBegin
<1> HIDE DEF copy
<1>3. new \in TaskAt /\ new.pc = "rag"
  BY <1>1 DEF Alerts!Free, TaskAt, Alerts!Held
<1> HIDE DEF new
<1>4. /\ NoneQueued /\ worker[w].pc = "idle"
      /\ worker' = [worker EXCEPT ![w] = new]
      /\ n \in Nat \ {0}
      /\ alertQueue' = [alertQueue EXCEPT ![<<"analyze", a>>] = @ - 1]
  BY <1>2, <1>3, TakeLess DEF Alerts!Job
<1>5. Lowered
  BY <1>1, <1>2, RowLowered
<1>6. AlertTypes'
  BY <1>2, <1>3, <1>4, <1>5 DEF AlertTypes, Lowered, NoneQueued
<1>7. /\ \A v \in Worker \ {w} : worker'[v] = worker[v]
      /\ worker'[w] = new
  BY <1>4 DEF AlertTypes
<1>8. ExecutingHeld'
  BY <1>2, <1>4, <1>5, <1>7, ExecutingKept DEF Lowered
<1>9. /\ \A name \in {"analyze", "heal"}, b \in Alert :
            <<name, b>> # <<"analyze", a>> =>
               alertQueue'[<<name, b>>] = alertQueue[<<name, b>>]
      /\ alertQueue'[<<"analyze", a>>] = n - 1
  BY <1>4 DEF Alerts!Job, AlertTypes
<1>10. x \in Tokens
  BY <1>4 DEF Tokens
<1>11. Tokens' \subseteq (Tokens \ {x}) \cup {y}
  BY <1>2, <1>4, <1>7, <1>9 DEF Tokens
<1>12. WindowsSpent'
  BY <1>2, <1>10, <1>11, TokenMoves
<1> QED BY <1>6, <1>8, <1>12

\* The proposal is saved; an automatic one goes on to the breaker.
LEMMA AnalyzeEndKeeps ==
    ASSUME AlertInv, NEW w \in Worker,
           Alerts!AnalyzePropose(w) \/ Alerts!AnalyzeFail(w)
               \/ Alerts!AwaitSave(w)
    PROVE  AlertInv'
<1> USE AlertBlank DEF AlertInv
<1>1. /\ worker[w] \in TaskAt /\ worker[w].pc \in {"rag", "await"}
      /\ worker[w].alert \in Alert /\ worker[w].copy \in Alerts!AlertRow
  BY TaskHolds DEF Alerts!AnalyzePropose, Alerts!AnalyzeFail, Alerts!AwaitSave
<1>2. Alerts!Free.pc \notin AnalysesAt
  BY DEF AnalysesAt
<1>3. ASSUME NEW g \in Alerts!Healing, g # "executing",
             Alerts!Save(w, [worker[w].copy EXCEPT !.healing = g]),
             worker' = [worker EXCEPT ![w] = Alerts!Free],
             UNCHANGED <<key, policy, handler, alertQueue, run, ticket,
                         windows, autoRuns>>
      PROVE  AlertInv'
  <2> DEFINE row == [worker[w].copy EXCEPT !.healing = g]
  <2>1. row \in Alerts!AlertRow /\ row.healing = g
    BY <1>1 DEF Alerts!AlertRow
  <2> HIDE DEF row
  <2>2. Alerts!Save(w, row)
    BY <1>3 DEF row
  <2>3. Lowered /\ NoneQueued /\ TicketsKept /\ RunsKept
    BY <1>1, <1>3, <2>1, <2>2, SaveLowered, QueueSame, TicketsSame, RunsSame
  <2> QED BY <1>1, <1>2, <1>3, <2>3, TaskKeeps
<1>4. CASE Alerts!AnalyzeFail(w) \/ Alerts!AwaitSave(w)
  BY <1>3, <1>4 DEF Alerts!AnalyzeFail, Alerts!AwaitSave, Alerts!Healing
<1>5. CASE Alerts!AnalyzePropose(w)
  <2>1. PICK row \in Alerts!Proposals(worker[w].copy) :
          /\ Alerts!Save(w, row)
          /\ worker' = [worker EXCEPT
                ![w] = IF policy.kind = "auto" /\ row.status = "firing"
                       THEN [@ EXCEPT !.pc = "breaker", !.copy = row]
                       ELSE Alerts!Free]
    BY <1>5 DEF Alerts!AnalyzePropose
  <2>2. policy.kind \in {"none", "manual", "auto"}
    BY AlertNames DEF AlertTypes
  <2>3. row \in Alerts!AlertRow /\ row.healing = "suggested"
    <3> DEFINE copy == worker[w].copy
               Planned(by) == [copy EXCEPT !.healing = "suggested",
                                           !.plan = TRUE, !.trigger = by]
    <3>1. copy \in Alerts!AlertRow
      BY <1>1
    <3>2. \/ \E by \in {"manual", "auto"} : row = Planned(by)
          \/ row = [copy EXCEPT !.healing = "suggested"]
      BY <2>1, <2>2 DEF Alerts!Proposals
    <3> HIDE DEF AlertInv, copy
    <3>3. \A by \in {"manual", "auto"} : Planned(by) \in Alerts!AlertRow
                                        /\ Planned(by).healing = "suggested"
      BY <3>1 DEF Alerts!AlertRow, Alerts!Healing
    <3>4. [copy EXCEPT !.healing = "suggested"] \in Alerts!AlertRow
          /\ [copy EXCEPT !.healing = "suggested"].healing = "suggested"
      BY <3>1 DEF Alerts!AlertRow, Alerts!Healing
    <3> HIDE DEF Planned
    <3> QED BY <3>2, <3>3, <3>4
  <2> DEFINE goes == [worker[w] EXCEPT !.pc = "breaker", !.copy = row]
  <2>4. goes \in TaskAt /\ worker[w].pc = "rag"
    BY <1>1, <1>5, <2>3 DEF TaskAt, Alerts!Held, Alerts!AnalyzePropose
  <2>5. PICK new \in TaskAt : worker' = [worker EXCEPT ![w] = new]
    BY <2>1, <2>4
  <2>6. Lowered /\ NoneQueued /\ TicketsKept /\ RunsKept
    BY <1>1, <1>5, <2>1, <2>3, SaveLowered, QueueSame, TicketsSame, RunsSame
       DEF Alerts!AnalyzePropose
  <2>7. worker[w].pc \in AnalysesAt /\ worker[w].pc # "link"
    BY <2>4 DEF AnalysesAt
  <2> QED BY <1>5, <2>5, <2>6, <2>7, TaskKeeps DEF Alerts!AnalyzePropose
<1> QED BY <1>4, <1>5

\* Tickets the interceptor makes.
LEMMA InterceptKeeps ==
    ASSUME AlertTypes, NEW a \in Alert,
           NEW v \in BOOLEAN, Alerts!Intercept(a, v)
    PROVE  TicketsKept
<1>1. CASE UNCHANGED ticket
  BY <1>1, TicketsSame
<1>2. ASSUME NEW t \in Ticket, ticket[t].status = "absent",
             ticket' = [ticket EXCEPT
                          ![t] = [Alerts!NoTicket EXCEPT !.status = "pending",
                                                  !.alert = a,
                                                  !.verified = v]]
      PROVE  TicketsKept
  <2> DEFINE new == [Alerts!NoTicket EXCEPT !.status = "pending", !.alert = a,
                                     !.verified = v]
  <2>1. new \in TicketAt /\ new.status = "pending"
    BY DEF Alerts!NoTicket, Alerts!TicketRow, TicketAt
  <2> HIDE DEF new
  <2>2. ticket' = [ticket EXCEPT ![t] = new]
    BY <1>2 DEF new
  <2> QED BY <1>2, <2>1, <2>2 DEF TicketsKept, AlertTypes
<1> QED BY <1>1, <1>2 DEF Alerts!Intercept

\* The breaker lets the analysis go on as a message, or the alert waits.
LEMMA AnalyzeBreakerKeeps ==
    ASSUME AlertInv, NEW w \in Worker, Alerts!AnalyzeBreaker(w)
    PROVE  AlertInv'
<1> USE AlertBlank DEF AlertInv
<1> DEFINE a == worker[w].alert
<1>1. /\ worker[w] \in TaskAt /\ worker[w].pc = "breaker"
      /\ a \in Alert /\ worker[w].copy \in Alerts!AlertRow
      /\ UNCHANGED <<key, policy, handler, run, windows, autoRuns>>
  BY TaskHolds DEF Alerts!AnalyzeBreaker
<1>2. Alerts!Free.pc \notin AnalysesAt /\ worker[w].pc # "link"
      /\ worker[w].pc \in AnalysesAt
  BY <1>1 DEF AnalysesAt
<1>3. RunsKept
  BY <1>1, RunsSame
<1>4. CASE /\ worker' = [worker EXCEPT ![w] = Alerts!Free] /\ Alerts!Refused
           /\ Alerts!Save(w, [worker[w].copy EXCEPT !.healing = "failed"])
           /\ UNCHANGED ticket
  <2> DEFINE row == [worker[w].copy EXCEPT !.healing = "failed"]
  <2>1. row \in Alerts!AlertRow /\ row.healing = "failed"
    BY <1>1 DEF Alerts!AlertRow, Alerts!Healing
  <2> HIDE DEF row
  <2>2. Alerts!Save(w, row)
    BY <1>4 DEF row
  <2>3. Lowered /\ NoneQueued /\ TicketsKept
    BY <1>1, <1>4, <2>1, <2>2, SaveLowered, QueueSame, TicketsSame
       DEF Alerts!Refused
  <2> QED BY <1>1, <1>2, <1>3, <1>4, <2>3, TaskKeeps
<1>5. CASE /\ worker' = [worker EXCEPT ![w].pc = "await",
                                       ![w].copy.trigger = "manual"]
           /\ \/ Alerts!Blocked(FALSE) /\ Alerts!Intercept(a, FALSE)
                     /\ UNCHANGED alertsLeft
              \/ ~Alerts!Blocked(FALSE) /\ UNCHANGED <<ticket, alertsLeft>>
              \/ Alerts!Spend("faults") /\ UNCHANGED ticket
           /\ UNCHANGED <<alert, alertQueue, overtaken>>
  <2> DEFINE copy == [worker[w].copy EXCEPT !.trigger = "manual"]
             new == [worker[w] EXCEPT !.pc = "await", !.copy = copy]
  <2>1. copy \in Alerts!AlertRow
    BY <1>1 DEF Alerts!AlertRow
  <2>2. worker' = [worker EXCEPT ![w] = new]
    BY <1>5
  <2> HIDE DEF copy
  <2>3. new \in TaskAt
    BY <1>1, <2>1 DEF TaskAt, Alerts!Held
  <2> HIDE DEF new
  <2>4. Lowered /\ NoneQueued /\ TicketsKept
    BY <1>1, <1>5, AlertSame, QueueSame, TicketsSame, InterceptKeeps
  <2> QED BY <1>1, <1>2, <1>3, <2>2, <2>3, <2>4, TaskKeeps
<1>6. CASE /\ worker' = [worker EXCEPT ![w] = Alerts!Free]
           /\ alertQueue' = [alertQueue EXCEPT ![<<"heal", a>>] = @ + 1]
           /\ UNCHANGED <<alert, overtaken, ticket>>
  <2> HIDE DEF a
  <2> DEFINE n == alertQueue[<<"heal", a>>] + 1
             x == <<"worker", w, 0>>
             y == <<"heal", a, n>>
  <2>1. Lowered
    BY <1>6, AlertSame
  <2>2. alertQueue' \in [Alerts!Job \X Alert -> Nat]
    BY <1>1, <1>6, QueueNew DEF Alerts!Job, AlertTypes
  <2>3. AlertTypes'
    BY <1>1, <1>6, <2>1, <2>2 DEF AlertTypes, Lowered
  <2>4. /\ \A v \in Worker \ {w} : worker'[v] = worker[v]
        /\ worker'[w] = Alerts!Free
    BY <1>6 DEF AlertTypes
  <2>5. ExecutingHeld'
    BY <1>1, <1>6, <2>1, <2>4, ExecutingKept DEF Lowered
  <2>6. /\ \A name \in {"analyze", "heal"}, b \in Alert :
              <<name, b>> # <<"heal", a>> =>
                 alertQueue'[<<name, b>>] = alertQueue[<<name, b>>]
        /\ alertQueue'[<<"heal", a>>] = n /\ n \in Nat
        /\ alertQueue[<<"heal", a>>] \in Nat
    BY <1>1, <1>6 DEF Alerts!Job, AlertTypes
  <2>7. x \in Tokens
    BY <1>1 DEF Tokens
  <2>8. Tokens' \subseteq (Tokens \ {x}) \cup {y}
    BY <1>1, <2>4, <2>6 DEF Tokens
  <2>9. WindowsSpent'
    BY <1>1, <2>7, <2>8, TokenMoves
  <2> QED BY <2>3, <2>5, <2>9
<1> QED BY <1>4, <1>5, <1>6 DEF Alerts!AnalyzeBreaker, Alerts!Post

\* A healing message is taken: it ends, waits for an approval or is at work.
LEMMA HealBeginKeeps ==
    ASSUME AlertInv, NEW w \in Worker, NEW a \in Alert, Alerts!HealBegin(w, a)
    PROVE  AlertInv'
<1> USE AlertBlank DEF AlertInv
<1> DEFINE held(at) == [Alerts!Free EXCEPT !.pc = at, !.alert = a,
        !.copy = alert[a]]
<1>1. /\ alert[a] \in Alerts!AlertRow
      /\ UNCHANGED <<key, policy, handler, run, windows, autoRuns, overtaken>>
  BY DEF AlertTypes, Alerts!HealBegin
<1>2. /\ held("await") \in TaskAt /\ held("await").pc = "await"
      /\ held("start") \in TaskAt /\ held("start").pc = "start"
  BY <1>1 DEF Alerts!Free, TaskAt, Alerts!Held
<1>3. "await" \notin AnalysesAt /\ Alerts!Free.pc \notin AnalysesAt
  BY DEF AnalysesAt
<1>4. \/ /\ Alerts!Take(w, "heal", a, Alerts!Free)
         /\ UNCHANGED <<alert, ticket>>
      \/ /\ Alerts!Take(w, "heal", a, held("await"))
         /\ Alerts!Intercept(a, TRUE)
         /\ UNCHANGED alert
      \/ /\ Alerts!Take(w, "heal", a, held("start"))
         /\ UNCHANGED <<alert, ticket>>
      \/ /\ Alerts!Take(w, "heal", a, Alerts!Free)
         /\ Alerts!Heal(a, "failed") /\ UNCHANGED ticket
  BY DEF Alerts!HealBegin
<1> HIDE DEF held
<1>5. ASSUME NEW new \in TaskAt, new.pc \notin AnalysesAt,
             Alerts!Take(w, "heal", a, new), Lowered, TicketsKept
      PROVE  AlertInv'
  <2>1. NoneQueued /\ worker[w].pc = "idle"
        /\ worker' = [worker EXCEPT ![w] = new]
    BY <1>5, TakeLess DEF Alerts!Job
  <2>2. RunsKept
    BY <1>1, RunsSame
  <2> QED BY <1>1, <1>5, <2>1, <2>2, TaskKeeps
<1>6. CASE Alerts!Take(w, "heal", a, Alerts!Free)
               /\ UNCHANGED <<alert, ticket>>
  BY <1>1, <1>3, <1>5, <1>6, AlertSame, TicketsSame
<1>7. CASE /\ Alerts!Take(w, "heal", a, held("await"))
           /\ Alerts!Intercept(a, TRUE)
           /\ UNCHANGED alert
  BY <1>1, <1>2, <1>3, <1>5, <1>7, AlertSame, InterceptKeeps
<1>8. CASE /\ Alerts!Take(w, "heal", a, Alerts!Free)
           /\ Alerts!Heal(a, "failed")
           /\ UNCHANGED ticket
  BY <1>1, <1>3, <1>5, <1>8, HealLowered, TicketsSame DEF Alerts!Healing
<1>9. CASE Alerts!Take(w, "heal", a, held("start"))
               /\ UNCHANGED <<alert, ticket>>
  <2> DEFINE new == held("start")
             n == alertQueue[<<"heal", a>>]
             x == <<"heal", a, n>>
             y == <<"worker", w, 0>>
  <2> HIDE DEF new
  <2>1. /\ NoneQueued /\ worker[w].pc = "idle"
        /\ worker' = [worker EXCEPT ![w] = new]
        /\ n \in Nat \ {0}
        /\ alertQueue' = [alertQueue EXCEPT ![<<"heal", a>>] = @ - 1]
    BY <1>2, <1>9, TakeLess DEF Alerts!Job, new
  <2>2. Lowered
    BY <1>1, <1>9, AlertSame
  <2>3. new \in TaskAt
    BY <1>2 DEF new
  <2>4. AlertTypes'
    BY <1>1, <1>9, <2>1, <2>2, <2>3 DEF AlertTypes, Lowered, NoneQueued
  <2>5. /\ \A v \in Worker \ {w} : worker'[v] = worker[v]
    BY <2>1 DEF AlertTypes
  <2>6. ExecutingHeld'
    BY <1>1, <1>9, <2>1, <2>2, <2>5, ExecutingKept DEF Lowered
  <2>7. /\ \A name \in {"analyze", "heal"}, b \in Alert :
              <<name, b>> # <<"heal", a>> =>
                 alertQueue'[<<name, b>>] = alertQueue[<<name, b>>]
        /\ alertQueue'[<<"heal", a>>] = n - 1
    BY <2>1 DEF Alerts!Job, AlertTypes
  <2>8. x \in Tokens
    BY <2>1 DEF Tokens
  <2>9. Tokens' \subseteq (Tokens \ {x}) \cup {y}
    BY <1>1, <2>1, <2>5, <2>7 DEF Tokens
  <2>10. WindowsSpent'
    BY <1>1, <2>8, <2>9, TokenMoves
  <2> QED BY <2>4, <2>6, <2>10
<1> QED BY <1>4, <1>6, <1>7, <1>8, <1>9

\* The alert is saved as 'executing', its run is about to be linked.
LEMMA HealStartKeeps ==
    ASSUME AlertInv, NEW w \in Worker, Alerts!HealStart(w)
    PROVE  AlertInv'
<1> USE AlertBlank DEF AlertInv
<1>0. PICK a \in Alert : a = worker[w].alert
  BY TaskHolds DEF Alerts!HealStart
<1> DEFINE row == [worker[w].copy EXCEPT !.healing = "executing"]
<1>1. /\ worker[w] \in TaskAt /\ worker[w].pc = "start"
      /\ a \in Alert /\ worker[w].copy \in Alerts!AlertRow
      /\ UNCHANGED <<key, policy, handler, alertQueue, ticket, windows,
                     autoRuns>>
      /\ alert' = [alert EXCEPT ![a] = row]
      /\ overtaken' = IF alert[a].run # row.run THEN overtaken \cup {a}
                      ELSE overtaken
  BY <1>0, TaskHolds DEF Alerts!HealStart, Alerts!Save
<1>2. row \in Alerts!AlertRow
  BY <1>1 DEF Alerts!AlertRow, Alerts!Healing
<1>3. PICK r \in Run :
          /\ run[r] = "absent" /\ run' = [run EXCEPT ![r] = "pending"]
          /\ worker' = [worker EXCEPT ![w].pc = "link", ![w].run = r]
  BY DEF Alerts!HealStart
<1> DEFINE new == [worker[w] EXCEPT !.pc = "link", !.run = r]
<1>4. /\ new \in TaskAt /\ new.pc = "link" /\ new.alert = a
      /\ worker' = [worker EXCEPT ![w] = new]
  BY <1>0, <1>1, <1>3 DEF TaskAt, Alerts!Held
<1> HIDE DEF new, row
<1>5. RunsKept
  BY <1>3 DEF RunsKept, AlertTypes, RunStatus, Alerts!Ended
<1>6. /\ alert' \in [Alert -> Alerts!AlertRow] /\ overtaken' \subseteq Alert
      /\ overtaken \subseteq overtaken'
  BY <1>1, <1>2 DEF AlertTypes
<1>7. AlertTypes'
  BY <1>1, <1>4, <1>5, <1>6 DEF AlertTypes, RunsKept
<1>8. /\ \A v \in Worker \ {w} : worker'[v] = worker[v]
      /\ worker'[w] = new
  BY <1>4 DEF AlertTypes
<1>9. ExecutingHeld'
  <2>1. ASSUME NEW b \in Alert, alert'[b].healing = "executing", b # a,
               b \notin overtaken'
        PROVE  Linking(b)' \/ Alerts!Answering(b)' \/ Runs(b)'
    <3>1. alert'[b] = alert[b] /\ alert[b] \in Alerts!AlertRow
      BY <1>1, <2>1 DEF AlertTypes
    <3>2. Linking(b) \/ Alerts!Answering(b) \/ Runs(b)
      BY <1>6, <2>1, <3>1 DEF ExecutingHeld
    <3>3. Linking(b) => Linking(b)'
      BY <1>1, <1>8 DEF Linking
    <3>4. Alerts!Answering(b) => Alerts!Answering(b)'
      BY <1>1 DEF Alerts!Answering
    <3>5. Runs(b) => Runs(b)'
      BY <1>5, <3>1 DEF Runs, RunsKept, Alerts!AlertRow
    <3> QED BY <3>2, <3>3, <3>4, <3>5
  <2>2. Linking(a)'
    BY <1>4, <1>8 DEF Linking
  <2>3. ASSUME NEW t \in Ticket, ticket'[t].status = "linked"
        PROVE  \/ alert'[ticket'[t].alert].run # Alerts!None
               \/ ticket'[t].alert \in overtaken'
    <3>1. ticket[t].alert \in Alert /\ ticket' = ticket
          /\ ticket[t].status = "linked"
      BY <1>1, <2>3 DEF AlertTypes, TicketAt
    <3>2. \/ alert[ticket[t].alert].run # Alerts!None
          \/ ticket[t].alert \in overtaken
      BY <3>1 DEF ExecutingHeld
    <3>3. CASE ticket[t].alert = a
      BY <1>1, <1>6, <3>1, <3>2, <3>3 DEF AlertTypes
    <3>4. CASE ticket[t].alert # a
      BY <1>1, <1>6, <3>1, <3>2, <3>4 DEF AlertTypes
    <3> QED BY <3>3, <3>4
  <2>4. \A b \in Alert : b = a \/ b # a
    OBVIOUS
  <2> QED BY <2>1, <2>2, <2>3, <2>4 DEF ExecutingHeld
<1>10. \A name \in {"analyze", "heal"}, b \in Alert :
         alertQueue[<<name, b>>] \in Nat
  BY DEF AlertTypes, Alerts!Job
<1>11. WindowsSpent'
  BY <1>1, <1>8, <1>10, TokensKept
<1> QED BY <1>7, <1>9, <1>11

\* The run is linked: the analysis is spent.
LEMMA HealLinkKeeps ==
    ASSUME AlertInv, NEW w \in Worker, Alerts!HealLink(w)
    PROVE  AlertInv'
<1> USE AlertBlank DEF AlertInv
<1>0. PICK a \in Alert, r \in Run : a = worker[w].alert /\ r = worker[w].run
  BY TaskHolds DEF Alerts!HealLink
<1> DEFINE row == [alert[a] EXCEPT !.run = r, !.trigger = "auto",
                                   !.healing = "executing"]
           new == [worker[w] EXCEPT !.pc = "launch"]
           x == <<"worker", w, 0>>
<1>1. /\ worker[w] \in TaskAt /\ worker[w].pc = "link"
      /\ a \in Alert /\ r \in Run /\ r # Alerts!None
      /\ alert[a] \in Alerts!AlertRow
      /\ UNCHANGED <<key, policy, handler, alertQueue, run, ticket, windows>>
      /\ alert' = [alert EXCEPT ![a] = row]
      /\ worker' = [worker EXCEPT ![w] = new]
      /\ autoRuns' = autoRuns + 1
      /\ overtaken' = IF run[r] \in Alerts!Ended THEN overtaken \cup {a}
                      ELSE overtaken
  BY <1>0, TaskHolds, AlertNames DEF AlertTypes, Alerts!HealLink,
     Alerts!Overtaken
<1>2. row \in Alerts!AlertRow /\ row.run = r
  BY <1>1 DEF Alerts!AlertRow, Alerts!Healing
<1>3. new \in TaskAt /\ new.pc = "launch"
  BY <1>1 DEF TaskAt, Alerts!Held
<1> HIDE DEF row, new
<1>4. /\ alert' \in [Alert -> Alerts!AlertRow] /\ overtaken' \subseteq Alert
      /\ overtaken \subseteq overtaken'
      /\ alert'[a].run = r
  BY <1>1, <1>2 DEF AlertTypes
<1>5. AlertTypes'
  BY <1>1, <1>3, <1>4 DEF AlertTypes
<1>6. /\ \A v \in Worker \ {w} : worker'[v] = worker[v]
      /\ worker'[w] = new
  BY <1>1 DEF AlertTypes
<1>7. ExecutingHeld'
  <2>1. ASSUME NEW b \in Alert, alert'[b].healing = "executing", b # a,
               b \notin overtaken'
        PROVE  Linking(b)' \/ Alerts!Answering(b)' \/ Runs(b)'
    <3>1. alert'[b] = alert[b] /\ alert[b] \in Alerts!AlertRow
      BY <1>1, <2>1 DEF AlertTypes
    <3>2. Linking(b) \/ Alerts!Answering(b) \/ Runs(b)
      BY <1>4, <2>1, <3>1 DEF ExecutingHeld
    <3>3. Linking(b) => Linking(b)'
      BY <1>0, <1>6, <2>1 DEF Linking
    <3>4. Alerts!Answering(b) => Alerts!Answering(b)'
      BY <1>1 DEF Alerts!Answering
    <3>5. Runs(b) => Runs(b)'
      BY <1>1, <3>1 DEF Runs
    <3> QED BY <3>2, <3>3, <3>4, <3>5
  <2>2. a \in overtaken' \/ Runs(a)'
    BY <1>1, <1>4 DEF Runs
  <2>3. ASSUME NEW t \in Ticket, ticket'[t].status = "linked"
        PROVE  \/ alert'[ticket'[t].alert].run # Alerts!None
               \/ ticket'[t].alert \in overtaken'
    <3>1. ticket[t].alert \in Alert /\ ticket' = ticket
          /\ ticket[t].status = "linked"
      BY <1>1, <2>3 DEF AlertTypes, TicketAt
    <3>2. \/ alert[ticket[t].alert].run # Alerts!None
          \/ ticket[t].alert \in overtaken
      BY <3>1 DEF ExecutingHeld
    <3>3. CASE ticket[t].alert = a
      BY <1>1, <1>4, <3>1, <3>3
    <3>4. CASE ticket[t].alert # a
      BY <1>1, <1>4, <3>1, <3>2, <3>4 DEF AlertTypes
    <3> QED BY <3>3, <3>4
  <2>4. \A b \in Alert : b = a \/ b # a
    OBVIOUS
  <2> QED BY <2>1, <2>2, <2>3, <2>4 DEF ExecutingHeld
<1>8. x \in Tokens
  BY <1>1 DEF Tokens
<1>9. Tokens' \subseteq Tokens \ {x}
  BY <1>1, <1>3, <1>6 DEF Tokens
<1>10. WindowsSpent'
  BY <1>1, <1>8, <1>9, TokenSpent
<1> QED BY <1>5, <1>7, <1>10

\* The engine of the run is queued, or the alert has failed.
LEMMA HealLaunchKeeps ==
    ASSUME AlertInv, NEW w \in Worker, Alerts!HealLaunch(w)
    PROVE  AlertInv'
<1> USE AlertBlank DEF AlertInv
<1>1. /\ worker[w] \in TaskAt /\ worker[w].pc = "launch"
      /\ worker[w].alert \in Alert /\ worker[w].run \in Run
      /\ worker' = [worker EXCEPT ![w] = Alerts!Free]
      /\ UNCHANGED <<key, policy, handler, alertQueue, ticket, windows,
                     autoRuns, overtaken>>
      /\ \/ Alerts!Launch(worker[w].run) /\ UNCHANGED alert
         \/ Alerts!Heal(worker[w].alert, "failed") /\ UNCHANGED run
  BY TaskHolds DEF Alerts!HealLaunch
<1>2. Lowered
  BY <1>1, HealLowered, AlertSame DEF Alerts!Healing
<1>3. RunsKept
  <2>1. CASE UNCHANGED run
    BY <2>1, RunsSame
  <2>2. CASE Alerts!Launch(worker[w].run)
    BY <1>1, <2>2 DEF Alerts!Launch, RunsKept, AlertTypes, RunStatus,
       Alerts!Ended
  <2> QED BY <1>1, <2>1, <2>2
<1>4. NoneQueued /\ TicketsKept /\ Alerts!Free.pc \notin AnalysesAt
  BY <1>1, QueueSame, TicketsSame DEF AnalysesAt
<1> QED BY <1>1, <1>2, <1>3, <1>4, TaskKeeps

-----------------------------------------------------------------------------
(* Views, tickets and runs. *)

\* Handlers, tasks and messages stay.
LEMMA OthersKeep ==
    ASSUME WindowsSpent,
           UNCHANGED <<handler, worker, alertQueue, windows, autoRuns>>
    PROVE  WindowsSpent'
BY DEF WindowsSpent, Tokens

\* A step at one alert, its tickets included.
LEMMA ExecutingBut ==
    ASSUME AlertInv, NEW a \in Alert, overtaken \subseteq overtaken', RunsKept,
           \A b \in Alert \ {a} : alert'[b] = alert[b],
           worker' = worker,
           \A t \in Ticket : ticket[t].alert # a \/ ticket'[t].alert # a =>
              ticket'[t] = ticket[t],
           a \in overtaken' \/ Alerts!Answering(a)' \/ Runs(a)',
           \A t \in Ticket :
              ticket'[t].alert = a /\ ticket'[t].status = "linked" =>
                 alert'[a].run # Alerts!None \/ a \in overtaken'
    PROVE  ExecutingHeld'
<1> USE DEF AlertInv
<1>1. ASSUME NEW b \in Alert, alert'[b].healing = "executing", b # a,
             b \notin overtaken'
      PROVE  Linking(b)' \/ Alerts!Answering(b)' \/ Runs(b)'
  <2>1. alert'[b] = alert[b] /\ alert[b] \in Alerts!AlertRow
    BY <1>1 DEF AlertTypes
  <2>2. Linking(b) \/ Alerts!Answering(b) \/ Runs(b)
    BY <1>1, <2>1 DEF ExecutingHeld
  <2>3. Linking(b) => Linking(b)'
    BY DEF Linking
  <2>4. Alerts!Answering(b) => Alerts!Answering(b)'
    BY <1>1 DEF Alerts!Answering
  <2>5. Runs(b) => Runs(b)'
    BY <2>1 DEF Runs, RunsKept, Alerts!AlertRow
  <2> QED BY <2>2, <2>3, <2>4, <2>5
<1>2. ASSUME NEW t \in Ticket, ticket'[t].status = "linked",
             ticket'[t].alert # a
      PROVE  \/ alert'[ticket'[t].alert].run # Alerts!None
             \/ ticket'[t].alert \in overtaken'
  BY <1>2 DEF ExecutingHeld, AlertTypes, TicketAt
<1> QED BY <1>1, <1>2 DEF ExecutingHeld

\* An operator starts a run for the alert.
LEMMA TriggerKeeps ==
    ASSUME AlertInv, NEW a \in Alert, Alerts!TriggerHealing(a)
    PROVE  AlertInv'
<1> USE DEF AlertInv
<1>1. PICK r \in Run, s \in {"queued", "pending"} :
        /\ run[r] = "absent" /\ run' = [run EXCEPT ![r] = s]
        /\ alert' = [alert EXCEPT ![a].run = r, ![a].trigger = "manual",
                                  ![a].healing = "executing"]
  BY DEF Alerts!TriggerHealing
<1> DEFINE row == [alert[a] EXCEPT !.run = r, !.trigger = "manual",
                                   !.healing = "executing"]
<1>2. /\ row \in Alerts!AlertRow /\ row.run = r
      /\ alert' = [alert EXCEPT ![a] = row]
  <2>1. alert[a] \in Alerts!AlertRow
    BY DEF AlertTypes
  <2>2. alert' = [alert EXCEPT ![a] = row]
    BY <1>1
  <2> HIDE DEF AlertInv
  <2>3. row \in Alerts!AlertRow /\ row.run = r
    BY <2>1 DEF Alerts!AlertRow, Alerts!Healing
  <2> QED BY <2>2, <2>3
<1> HIDE DEF row
<1>3. UNCHANGED <<key, policy, handler, worker, alertQueue, ticket, windows,
                  autoRuns, overtaken>>
  BY DEF Alerts!TriggerHealing
<1>4. RunsKept /\ run'[r] \notin Alerts!Ended
  BY <1>1 DEF RunsKept, AlertTypes, RunStatus, Alerts!Ended
<1>5. AlertTypes'
  BY <1>2, <1>3, <1>4 DEF AlertTypes, RunsKept
<1>6. Runs(a)' /\ alert'[a].run # Alerts!None
  BY <1>2, <1>4, AlertNames DEF Runs, AlertTypes
<1>7. ExecutingHeld'
  BY <1>2, <1>3, <1>4, <1>6, ExecutingBut DEF AlertTypes
<1>8. WindowsSpent'
  BY <1>3, OthersKeep
<1> QED BY <1>5, <1>7, <1>8

\* A ticket at work.
LEMMA TicketsHeld ==
    ASSUME AlertInv, NEW t \in Ticket, ticket[t].status # "absent"
    PROVE  /\ ticket[t] \in TicketAt /\ ticket[t].alert \in Alert
           /\ alert[ticket[t].alert] \in Alerts!AlertRow
           /\ \A u \in Ticket :
                 ticket[u].alert = ticket[t].alert
                 /\ ticket[u].status = "linked" =>
                    \/ alert[ticket[t].alert].run # Alerts!None
                    \/ ticket[t].alert \in overtaken
BY DEF AlertInv, AlertTypes, TicketAt, ExecutingHeld

LEMMA ApproveKeeps ==
    ASSUME AlertInv, NEW t \in Ticket, Alerts!Approve(t)
    PROVE  AlertInv'
<1> USE DEF AlertInv
<1>1. ticket[t].status # "absent"
  BY DEF Alerts!Approve
<1>2. PICK a \in Alert : a = ticket[t].alert
  BY <1>1, TicketsHeld
<1> DEFINE new == [ticket[t] EXCEPT !.status = "approved", !.run = Alerts!None]
           row == [alert[a] EXCEPT !.healing = "executing"]
<1>3. /\ new \in TicketAt /\ new.status = "approved" /\ new.alert = a
      /\ ticket' = [ticket EXCEPT ![t] = new]
  BY <1>1, <1>2, TicketsHeld DEF TicketAt, Alerts!TicketRow, Alerts!Approve
<1>4. /\ row \in Alerts!AlertRow /\ row.run = alert[a].run
      /\ alert' = [alert EXCEPT ![a] = row]
  BY <1>2, <1>1, TicketsHeld DEF Alerts!AlertRow, Alerts!Healing,
     Alerts!Approve, Alerts!Heal
<1>5. UNCHANGED <<key, policy, handler, worker, alertQueue, run, windows,
                  autoRuns, overtaken>>
  BY DEF Alerts!Approve
<1> HIDE DEF new, row
<1>6. AlertTypes'
  BY <1>3, <1>4, <1>5 DEF AlertTypes
<1>7. /\ ticket'[t] = new /\ \A u \in Ticket \ {t} : ticket'[u] = ticket[u]
      /\ alert'[a] = row /\ \A b \in Alert \ {a} : alert'[b] = alert[b]
  BY <1>3, <1>4 DEF AlertTypes
<1>8. Alerts!Answering(a)' /\ RunsKept
  BY <1>3, <1>5, <1>7, RunsSame DEF Alerts!Answering
<1>9. \A u \in Ticket :
        ticket'[u].alert = a /\ ticket'[u].status = "linked" =>
           alert'[a].run # Alerts!None \/ a \in overtaken'
  BY <1>1, <1>2, <1>3, <1>4, <1>5, <1>7, TicketsHeld
<1>10. ExecutingHeld'
  BY <1>2, <1>3, <1>5, <1>7, <1>8, <1>9, ExecutingBut
<1>11. WindowsSpent'
  BY <1>5, OthersKeep
<1> QED BY <1>6, <1>10, <1>11

\* The replay of an approved ticket.
LEMMA ReplayKeeps ==
    ASSUME AlertInv, NEW t \in Ticket, Alerts!Replay(t)
    PROVE  AlertInv'
<1> USE DEF AlertInv
<1>1. ticket[t].status # "absent"
  BY DEF Alerts!Replay
<1>2. PICK a \in Alert : a = ticket[t].alert
  BY <1>1, TicketsHeld
<1>3. UNCHANGED <<alert, key, policy, handler, worker, alertQueue, windows,
                  autoRuns, overtaken>>
  BY DEF Alerts!Replay
<1>4. PICK new \in TicketAt :
          /\ new.alert = a /\ new.status \in {"replayed", "failed"}
          /\ ticket' = [ticket EXCEPT ![t] = new]
  <2>1. ASSUME NEW r \in Run,
               ticket' = [ticket EXCEPT ![t].status = "replayed", ![t].run = r]
        PROVE  \E new \in TicketAt :
                  /\ new.alert = a /\ new.status \in {"replayed", "failed"}
                  /\ ticket' = [ticket EXCEPT ![t] = new]
    <3> DEFINE new == [ticket[t] EXCEPT !.status = "replayed", !.run = r]
    <3>1. new \in TicketAt /\ new.alert = a /\ new.status = "replayed"
      BY <1>1, <1>2, TicketsHeld DEF TicketAt, Alerts!TicketRow
    <3>2. ticket' = [ticket EXCEPT ![t] = new]
      BY <2>1
    <3> QED BY <3>1, <3>2
  <2>2. ASSUME ticket' = [ticket EXCEPT ![t].status = "failed"]
        PROVE  \E new \in TicketAt :
                  /\ new.alert = a /\ new.status \in {"replayed", "failed"}
                  /\ ticket' = [ticket EXCEPT ![t] = new]
    <3> DEFINE new == [ticket[t] EXCEPT !.status = "failed"]
    <3>1. new \in TicketAt /\ new.alert = a /\ new.status = "failed"
      BY <1>1, <1>2, TicketsHeld DEF TicketAt, Alerts!TicketRow
    <3>2. ticket' = [ticket EXCEPT ![t] = new]
      BY <2>2
    <3> QED BY <3>1, <3>2
  <2> QED BY <2>1, <2>2 DEF Alerts!Replay
<1>5. RunsKept
  <2>1. CASE UNCHANGED run
    BY <2>1, RunsSame
  <2>2. ASSUME NEW r \in Run, NEW s \in {"queued", "pending"},
               run' = [run EXCEPT ![r] = s]
        PROVE  RunsKept
    BY <2>2 DEF RunsKept, AlertTypes, RunStatus, Alerts!Ended
  <2> QED BY <2>1, <2>2 DEF Alerts!Replay
<1>6. AlertTypes'
  BY <1>3, <1>4, <1>5 DEF AlertTypes, RunsKept
<1>7. ticket'[t] = new /\ \A u \in Ticket \ {t} : ticket'[u] = ticket[u]
  BY <1>4 DEF AlertTypes
<1>8. Alerts!Answering(a)'
  BY <1>4, <1>7 DEF Alerts!Answering
<1>9. \A u \in Ticket :
        ticket'[u].alert = a /\ ticket'[u].status = "linked" =>
           alert'[a].run # Alerts!None \/ a \in overtaken'
  BY <1>1, <1>2, <1>3, <1>4, <1>7, TicketsHeld
<1>10. ExecutingHeld'
  BY <1>2, <1>3, <1>4, <1>5, <1>7, <1>8, <1>9, ExecutingBut
<1>11. WindowsSpent'
  BY <1>3, OthersKeep
<1> QED BY <1>6, <1>10, <1>11

\* The run of the replay is linked.
LEMMA LinkRunKeeps ==
    ASSUME AlertInv, NEW t \in Ticket, Alerts!LinkRun(t)
    PROVE  AlertInv'
<1> USE DEF AlertInv
<1>1. ticket[t].status # "absent"
  BY DEF Alerts!LinkRun
<1>2. PICK a \in Alert, r \in Run : a = ticket[t].alert /\ r = ticket[t].run
  BY <1>1, TicketsHeld DEF Alerts!LinkRun, TicketAt
<1> DEFINE new == [ticket[t] EXCEPT !.status = "linked"]
           row == [alert[a] EXCEPT !.run = r]
<1>3. /\ new \in TicketAt /\ new.status = "linked" /\ new.alert = a
      /\ ticket' = [ticket EXCEPT ![t] = new]
  BY <1>1, <1>2, TicketsHeld DEF TicketAt, Alerts!TicketRow, Alerts!LinkRun
<1>4. /\ row \in Alerts!AlertRow /\ row.run = r
      /\ alert' = [alert EXCEPT ![a] = row]
  BY <1>2, <1>1, TicketsHeld DEF Alerts!AlertRow, Alerts!LinkRun
<1>5. UNCHANGED <<key, policy, handler, worker, alertQueue, run, windows,
                  autoRuns, overtaken>>
  BY DEF Alerts!LinkRun
<1> HIDE DEF new, row
<1>6. AlertTypes'
  BY <1>3, <1>4, <1>5 DEF AlertTypes
<1>7. /\ ticket'[t] = new /\ \A u \in Ticket \ {t} : ticket'[u] = ticket[u]
      /\ alert'[a] = row /\ \A b \in Alert \ {a} : alert'[b] = alert[b]
  BY <1>3, <1>4 DEF AlertTypes
<1>8. /\ Alerts!Answering(a)' /\ RunsKept /\ alert'[a].run # Alerts!None
  BY <1>3, <1>4, <1>5, <1>7, RunsSame, AlertNames DEF Alerts!Answering
<1>9. ExecutingHeld'
  BY <1>2, <1>3, <1>5, <1>7, <1>8, ExecutingBut
<1>10. WindowsSpent'
  BY <1>5, OthersKeep
<1> QED BY <1>6, <1>9, <1>10

\* The ticket is done; if its run has ended the late 'executing' is noted.
LEMMA FinishKeeps ==
    ASSUME AlertInv, NEW t \in Ticket, Alerts!FinishTicket(t)
    PROVE  AlertInv'
<1> USE DEF AlertInv
<1>1. ticket[t].status = "linked" /\ ticket[t].status # "absent"
  BY DEF Alerts!FinishTicket
<1>2. PICK a \in Alert : a = ticket[t].alert
  BY <1>1, TicketsHeld
<1> DEFINE new == [ticket[t] EXCEPT !.status = "finished"]
           row == [alert[a] EXCEPT !.healing = "executing"]
<1>3. /\ new \in TicketAt /\ new.status = "finished" /\ new.alert = a
      /\ ticket' = [ticket EXCEPT ![t] = new]
  BY <1>1, <1>2, TicketsHeld DEF TicketAt, Alerts!TicketRow,
     Alerts!FinishTicket
<1>4. /\ row \in Alerts!AlertRow /\ row.run = alert[a].run
      /\ alert' = [alert EXCEPT ![a] = row]
  BY <1>2, <1>1, TicketsHeld DEF Alerts!AlertRow, Alerts!Healing,
     Alerts!FinishTicket, Alerts!Heal
<1>5. /\ UNCHANGED <<key, policy, handler, worker, alertQueue, run, windows,
                     autoRuns>>
      /\ overtaken' = IF alert[a].run # Alerts!None
             /\ run[alert[a].run] \in Alerts!Ended
                      THEN overtaken \cup {a} ELSE overtaken
  BY <1>2 DEF Alerts!FinishTicket, Alerts!Overtaken
<1> HIDE DEF new, row
<1>6. AlertTypes' /\ overtaken \subseteq overtaken'
  BY <1>3, <1>4, <1>5 DEF AlertTypes
<1>7. /\ ticket'[t] = new /\ \A u \in Ticket \ {t} : ticket'[u] = ticket[u]
      /\ alert'[a] = row /\ \A b \in Alert \ {a} : alert'[b] = alert[b]
  BY <1>3, <1>4 DEF AlertTypes
<1>8. alert[a].run # Alerts!None \/ a \in overtaken
  BY <1>1, <1>2, TicketsHeld
<1>9. a \in overtaken' \/ Runs(a)'
  BY <1>4, <1>5, <1>7, <1>8 DEF Runs
<1>10. RunsKept
  BY <1>5, RunsSame
<1>11. \A u \in Ticket :
        ticket'[u].alert = a /\ ticket'[u].status = "linked" =>
           alert'[a].run # Alerts!None \/ a \in overtaken'
  BY <1>4, <1>6, <1>7, <1>8
<1>12. ExecutingHeld'
  <2>1. \A u \in Ticket : ticket[u].alert # a \/ ticket'[u].alert # a =>
           ticket'[u] = ticket[u]
    BY <1>2, <1>3, <1>7
  <2>2. worker' = worker /\ \A b \in Alert \ {a} : alert'[b] = alert[b]
    BY <1>5, <1>7
  <2> HIDE DEF AlertInv
  <2> QED BY <1>6, <1>9, <1>10, <1>11, <2>1, <2>2, ExecutingBut
<1>13. WindowsSpent'
  BY <1>5, OthersKeep
<1> QED BY <1>6, <1>12, <1>13

\* A ticket nobody approved.
LEMMA UnansweredKeeps ==
    ASSUME AlertInv,
           NEW t \in Ticket, Alerts!RejectTicket(t) \/ Alerts!ExpireTicket(t)
    PROVE  AlertInv'
<1> USE DEF AlertInv
<1>1. /\ ticket[t].status = "pending" /\ ticket[t].status # "absent"
      /\ UNCHANGED <<key, policy, handler, worker, alertQueue, run, windows,
                     autoRuns, overtaken>>
  BY DEF Alerts!RejectTicket, Alerts!ExpireTicket
<1>2. PICK s \in {"rejected", "canceled"} :
        ticket' = [ticket EXCEPT ![t].status = s]
  BY DEF Alerts!RejectTicket, Alerts!ExpireTicket
<1> DEFINE new == [ticket[t] EXCEPT !.status = s]
<1>3. /\ new \in TicketAt /\ new.status = s
      /\ ticket' = [ticket EXCEPT ![t] = new]
  BY <1>1, <1>2, TicketsHeld DEF TicketAt, Alerts!TicketRow
<1> HIDE DEF new
<1>4. Lowered
  <2>1. CASE UNCHANGED alert
    BY <1>1, <2>1, AlertSame
  <2>2. CASE Alerts!Heal(ticket[t].alert, "failed")
    BY <1>1, <2>2, TicketsHeld, HealLowered DEF Alerts!Healing
  <2> QED BY <2>1, <2>2 DEF Alerts!RejectTicket, Alerts!ExpireTicket
<1>5. TicketsKept /\ RunsKept
  BY <1>1, <1>3, RunsSame DEF TicketsKept, AlertTypes
<1>6. AlertTypes'
  BY <1>1, <1>4, <1>5 DEF AlertTypes, Lowered, TicketsKept, RunsKept
<1>7. ExecutingHeld'
  BY <1>1, <1>4, <1>5, ExecutingKept DEF Lowered, TicketsKept, RunsKept
<1>8. WindowsSpent'
  BY <1>1, OthersKeep
<1> QED BY <1>6, <1>7, <1>8

\* A run writes its state into the alerts it is linked to.
LEMMA RunKeeps ==
    ASSUME AlertInv, NEW r \in Run, Alerts!RunStep(r) \/ Alerts!RunStop(r)
    PROVE  AlertInv'
<1> USE DEF AlertInv
<1>1. PICK s \in {"running", "success", "failed", "cancelled"} :
        run[r] \notin Alerts!Ended /\ Alerts!SaveRun(r, s)
  BY DEF Alerts!RunStep, Alerts!RunBegin, Alerts!RunEnd, Alerts!RunStop,
     Alerts!Ended
<1>2. /\ run' = [run EXCEPT ![r] = s]
      /\ UNCHANGED <<key, policy, handler, worker, alertQueue, ticket, windows,
                     autoRuns, overtaken>>
  BY <1>1 DEF Alerts!SaveRun
<1>3. ASSUME NEW a \in Alert
      PROVE  /\ alert'[a] = IF alert[a].run = r
                            THEN [alert[a] EXCEPT !.healing =
                                     Alerts!SyncState(s)]
                            ELSE alert[a]
             /\ alert[a] \in Alerts!AlertRow
  BY <1>1 DEF Alerts!SaveRun, AlertTypes
<1>4. /\ Alerts!SyncState(s) \in Alerts!Healing
      /\ Alerts!SyncState(s) = "executing" => s \notin Alerts!Ended
  BY DEF Alerts!SyncState, Alerts!Healing, Alerts!Ended
<1>5. ASSUME NEW a \in Alert
      PROVE  /\ alert'[a] \in Alerts!AlertRow /\ alert'[a].run = alert[a].run
             /\ \/ alert'[a].healing = alert[a].healing /\ alert[a].run # r
                \/ alert'[a].healing = Alerts!SyncState(s) /\ alert[a].run = r
  BY <1>3, <1>4 DEF Alerts!AlertRow
<1>6. AlertTypes'
  <2>1. alert' = [a \in Alert |-> alert'[a]]
    BY <1>1 DEF Alerts!SaveRun
  <2>2. alert' \in [Alert -> Alerts!AlertRow]
    BY <1>5, <2>1
  <2>3. run' \in [Run -> RunStatus]
    BY <1>2 DEF AlertTypes, RunStatus, Alerts!Ended
  <2> QED BY <1>2, <2>2, <2>3 DEF AlertTypes
<1>7. \A q \in Run : q # r => run'[q] = run[q]
  BY <1>2 DEF AlertTypes
<1>8. run'[r] = s
  BY <1>2 DEF AlertTypes
<1>9. ExecutingHeld'
  <2>1. ASSUME NEW a \in Alert, alert'[a].healing = "executing"
        PROVE  \/ a \in overtaken' \/ Linking(a)' \/ Alerts!Answering(a)'
               \/ Runs(a)'
    <3>1. CASE alert[a].run = r
      BY <1>4, <1>5, <1>8, <2>1, <3>1, AlertNames DEF Runs
    <3>2. CASE alert[a].run # r
      <4>1. alert'[a] = alert[a] /\ alert[a].healing = "executing"
            /\ alert[a].run \in Run \cup {Alerts!None}
        BY <1>3, <2>1, <3>2 DEF Alerts!AlertRow
      <4>2. \/ a \in overtaken \/ Linking(a) \/ Alerts!Answering(a) \/ Runs(a)
        BY <4>1 DEF ExecutingHeld
      <4>3. Runs(a) => Runs(a)'
        BY <1>7, <3>2, <4>1 DEF Runs
      <4>4. (Linking(a) => Linking(a)')
                /\ (Alerts!Answering(a) => Alerts!Answering(a)')
        BY <1>2 DEF Linking, Alerts!Answering
      <4> QED BY <1>2, <4>2, <4>3, <4>4
    <3> QED BY <3>1, <3>2
  <2>2. ASSUME NEW t \in Ticket, ticket'[t].status = "linked"
        PROVE  \/ alert'[ticket'[t].alert].run # Alerts!None
               \/ ticket'[t].alert \in overtaken'
    BY <1>2, <1>5, <2>2 DEF ExecutingHeld, AlertTypes, TicketAt
  <2> QED BY <2>1, <2>2 DEF ExecutingHeld
<1>10. WindowsSpent'
  BY <1>2, OthersKeep
<1> QED BY <1>6, <1>9, <1>10

\* Every step of the alerts.
LEMMA AlertStep == AlertInv /\ [Alerts!Next]_alertVars => AlertInv'
<1> SUFFICES ASSUME AlertInv, [Alerts!Next]_alertVars PROVE AlertInv'
  OBVIOUS
<1>1. ASSUME NEW h \in Handler, Alerts!HandlerStep(h)
      PROVE  AlertInv'
  BY <1>1, ReceiveStoreKeeps, ReceiveCreateKeeps, ReceiveDebounceKeeps,
     ReceiveQueueKeeps, RediagnoseKeeps, BindKeeps DEF Alerts!HandlerStep
<1>2. ASSUME NEW h \in Handler,
             \/ \E status \in {"firing", "resolved"} :
                    Alerts!ReceiveRead(h, status)
             \/ \E a \in Alert :
                    Alerts!RediagnoseBegin(h, a) \/ Alerts!BindRead(h, a)
      PROVE  AlertInv'
  BY <1>2, ReceiveReadKeeps, RediagnoseKeeps, BindKeeps
<1>3. ASSUME NEW w \in Worker, Alerts!TaskStep(w)
      PROVE  AlertInv'
  BY <1>3, BootKeeps, AnalyzeBeginKeeps, AnalyzeEndKeeps, AnalyzeBreakerKeeps,
     HealBeginKeeps, HealStartKeeps, HealLinkKeeps, HealLaunchKeeps
     DEF Alerts!TaskStep
<1>4. ASSUME NEW t \in Ticket,
             Alerts!TicketStep(t) \/ Alerts!Approve(t)
                 \/ Alerts!RejectTicket(t) \/ Alerts!ExpireTicket(t)
      PROVE  AlertInv'
  BY <1>4, ReplayKeeps, LinkRunKeeps, FinishKeeps, ApproveKeeps,
     UnansweredKeeps DEF Alerts!TicketStep
<1>5. CASE Alerts!KeyExpires \/ UNCHANGED alertVars
  <2>1. /\ UNCHANGED <<alert, policy, handler, worker, alertQueue, run, ticket,
                       windows, autoRuns, overtaken>>
        /\ key' \in BOOLEAN
    BY <1>5 DEF Alerts!KeyExpires, alertVars, AlertInv, AlertTypes
  <2>2. AlertTypes' /\ ExecutingHeld'
    BY <2>1 DEF AlertInv, AlertTypes, ExecutingHeld, Linking, Alerts!Answering,
       Runs
  <2>3. WindowsSpent'
    BY <2>1, OthersKeep DEF AlertInv
  <2> QED BY <2>2, <2>3 DEF AlertInv
<1> QED BY <1>1, <1>2, <1>3, <1>4, <1>5, TriggerKeeps, RunKeeps DEF Alerts!Next

\* A token is a window, and what holds 'executing' will end it.
LEMMA AlertFollows == AlertInv =>
    Alerts!OneRunPerWindow /\ Alerts!ExecutingIsLive
<1> SUFFICES ASSUME AlertInv
             PROVE  Alerts!OneRunPerWindow /\ Alerts!ExecutingIsLive
  OBVIOUS
<1>1. Alerts!OneRunPerWindow
  <2>1. Cardinality(Tokens) \in Nat
    BY FS_CardinalityType DEF AlertInv, WindowsSpent
  <2> QED BY <2>1 DEF AlertInv, WindowsSpent, AlertTypes,
             Alerts!OneRunPerWindow
<1>2. Alerts!ExecutingIsLive
  BY DEF AlertInv, ExecutingHeld, Alerts!ExecutingIsLive, Linking,
     Alerts!Writing, Runs
<1> QED BY <1>1, <1>2

LEMMA AlertTyped == AlertInv => Alerts!AlertTypeOK
BY DEF AlertInv, AlertTypes, Alerts!AlertTypeOK, RequestAt, TaskAt, TicketAt,
   RunStatus


LEMMA AlertsSteps ==
    ASSUME part = "alerts", [Next]_vars
    PROVE  [Alerts!Next]_alertVars
BY DEF Next, vars, alertVars

\* Every automatic run has a debounce window of its own, and an alert shown as
\* 'executing' has a run, a task or a ticket that will end it, unless a late
\* write is named, for any number of alerts, handlers, workers and tickets.
\* Code: receive, analyze_alert_event, trigger_self_healing, the signals.
AlertsHeld == part = "alerts" => AlertInv
THEOREM AlertsHold == Spec => []AlertsSound
<1>1. Init => AlertsHeld
  BY AlertInit DEF Init, AlertsHeld
<1>2. AlertsHeld /\ [Next]_vars => AlertsHeld'
  BY PartStays, AlertsSteps, AlertStep DEF AlertsHeld
<1>3. AlertsHeld => AlertsSound
  BY AlertFollows DEF AlertsHeld, AlertsSound
<1> QED BY <1>1, <1>2, <1>3, PTL DEF Spec

-----------------------------------------------------------------------------
(* The configuration items, their cached forms and their subscribers.      *)

Steps == {"idle", "save", "put", "clear", "publish"}
Kinds == {"none", "create", "update", "destroy", "rollback", "set"}
WriterAt == [pc : Steps, kind : Kinds, at : Process \cup {"none"},
             item : Item \cup {"none"}, new : Config!Rows,
             old : Value \cup {"none"}, todo : SUBSET Config!Entries,
             told : SUBSET Value]
Formed(x) == x.pc # "idle" =>
    /\ x.item \in Item /\ x.new \in Config!RowAt
    /\ x.kind = "set" => x.new.state = "live"
Message == [place : Config!Place, told : SUBSET Value]
ConfigTypes ==
    /\ item \in [Item -> Config!Rows]
    /\ reader = [r \in Reader |-> reader[r]]
    /\ writer \in [Writer -> WriterAt]
    /\ \A w \in Writer : Formed(writer[w])
    /\ cache = [e \in Config!Entries |-> cache[e]]
    /\ wire \in [Process -> Seq(Message)]
    /\ level \in [Process -> [Config!Place -> SUBSET Value]]

Busy(w) == writer[w].pc \in {"put", "clear", "publish"}
Trusted == marred \cap {"overlap", "redis", "category"} = {}
Heard   == marred = {}

\* As long as no changes overlap, one writer at most is past its save.
OneWriter == "overlap" \notin marred =>
    \A w, x \in Writer : Busy(w) /\ Busy(x) => w = x
\* What is read is what the items are, and an entry that differs from them is
\* left behind or one the writer is still to replace.
Due(w, e) ==
    \/ writer[w].pc \in {"put", "clear"} /\ e \in writer[w].todo
    \/ writer[w].pc = "put" /\ e = <<"item", writer[w].new.place>>
EntriesHeld == Trusted =>
    /\ \A r \in Reader : \A e : reader[r].pc = "loaded" /\ reader[r].entry = e =>
           reader[r].found = {Config!Content(e)}
    /\ \A e \in Config!Entries \ stranded :
          Config!Agrees(e) \/ \E w \in Writer : Due(w, e)
    /\ \A w \in Writer : \A q : writer[w].pc = "put" /\ writer[w].new.place = q =>
           Config!Current(q) = {writer[w].new.value}
\* The last a process was or will be told of a place is the value there, unless
\* the writer is still to tell it.
Newest(p, q, v) ==
    \/ /\ \A n \in 1..Len(wire[p]) : wire[p][n].place # q
       /\ level[p][q] = v
    \/ \E n \in 1..Len(wire[p]) :
          /\ wire[p][n].place = q /\ wire[p][n].told = v
          /\ \A m \in 1..Len(wire[p]) : m > n => wire[p][m].place # q
OnePlace ==
    \A i, j \in Item : /\ item[i].state = "live" /\ item[j].state = "live"
                       /\ item[i].place = item[j].place
                       => i = j
ProcessesTold == Heard =>
    /\ listening = Process
    /\ OnePlace
    /\ \A w \in Writer : Busy(w) =>
          /\ writer[w].kind # "set" /\ writer[w].pc # "put"
          /\ \A q : writer[w].pc = "publish" /\ writer[w].new.place = q =>
                Config!Current(q) \in {{}, writer[w].told}
    /\ \A q \in Config!Place :
          \/ Config!Current(q) = {}
          \/ \E w \in Writer : Busy(w) /\ writer[w].new.place = q
          \/ \A p \in Process : Newest(p, q, Config!Current(q))

ConfigInv == ConfigTypes /\ OneWriter /\ EntriesHeld /\ ProcessesTold

-----------------------------------------------------------------------------
LEMMA FreeWriter ==
    /\ Config!Free \in WriterAt /\ Config!Free.pc = "idle"
    /\ Formed(Config!Free)
BY DEF Config!Free, WriterAt, Steps, Kinds, Config!Rows, Formed

LEMMA ConfigInit == Config!Init => ConfigInv
<1> SUFFICES ASSUME Config!Init PROVE ConfigInv
  OBVIOUS
<1>1. /\ item = [i \in Item |-> Config!NoRow] /\ marred = {}
      /\ cache = [e \in Config!Entries |-> {}]
      /\ reader = [r \in Reader |-> Config!AtRest]
      /\ writer = [w \in Writer |-> Config!Free]
      /\ wire = [p \in Process |-> <<>>] /\ listening = Process
      /\ level = [p \in Process |-> [q \in Config!Place |-> {}]]
  BY DEF Config!Init
<1>2. ConfigTypes
  BY <1>1, FreeWriter DEF ConfigTypes, Config!Rows, Message
<1>3. \A q : Config!Current(q) = {}
  BY <1>1 DEF Config!Current, Config!NoRow
<1>4. OneWriter /\ ProcessesTold
  BY <1>1, <1>3, FreeWriter DEF OneWriter, ProcessesTold, Busy, OnePlace,
     Config!NoRow
<1>5. EntriesHeld
  BY <1>1, FreeWriter DEF EntriesHeld, Config!Agrees, Config!AtRest
<1> QED BY <1>2, <1>4, <1>5 DEF ConfigInv

\* Content is a matter of the rows.
LEMMA SameRows ==
    ASSUME UNCHANGED item
    PROVE  /\ \A q : Config!Current(q)' = Config!Current(q)
           /\ \A e : Config!Content(e)' = Config!Content(e)
           /\ OnePlace' = OnePlace
BY DEF Config!Current, Config!Content, OnePlace

\* Nothing the two parts speak of changes but readers and writers.
LEMMA EntriesStay ==
    ASSUME EntriesHeld, UNCHANGED <<item, cache, stranded>>,
           Trusted' => Trusted,
           \A r \in Reader : \A e :
              reader'[r].pc = "loaded" /\ reader'[r].entry = e =>
                 \/ reader'[r] = reader[r]
                 \/ reader'[r].found = {Config!Content(e)},
           \A w \in Writer : \A e : Due(w, e) => Due(w, e)',
           \A w \in Writer : writer'[w].pc = "put" => writer'[w] = writer[w]
    PROVE  EntriesHeld'
<1> SUFFICES ASSUME Trusted' PROVE EntriesHeld'
  BY DEF EntriesHeld
<1>1. \A r \in Reader : \A e :
         reader'[r].pc = "loaded" /\ reader'[r].entry = e =>
            reader'[r].found = {Config!Content(e)'}
  BY SameRows DEF EntriesHeld
<1>2. \A e : Config!Agrees(e)' = Config!Agrees(e)
  BY DEF Config!Agrees, Config!Content, Config!Current
<1>3. \A e \in Config!Entries \ stranded' :
         Config!Agrees(e)' \/ \E w \in Writer : Due(w, e)'
  BY <1>2 DEF EntriesHeld
<1>4. \A w \in Writer : \A q : writer'[w].pc = "put" /\ writer'[w].new.place = q
         => Config!Current(q)' = {writer'[w].new.value}
  BY SameRows DEF EntriesHeld
<1> QED BY <1>1, <1>3, <1>4 DEF EntriesHeld

LEMMA ToldStays ==
    ASSUME ProcessesTold, UNCHANGED <<item, wire, listening, level>>,
           Heard' => Heard,
           \A w \in Writer : /\ Busy(w)' = Busy(w)
                             /\ Busy(w) => writer'[w] = writer[w]
    PROVE  ProcessesTold'
<1> SUFFICES ASSUME Heard' PROVE ProcessesTold'
  BY DEF ProcessesTold
<1>1. \A q : Config!Current(q)' = Config!Current(q)
  BY DEF Config!Current
<1>2. \A p, q, v : Newest(p, q, v)' = Newest(p, q, v)
  BY DEF Newest
<1>3. listening' = Process /\ OnePlace'
  BY DEF ProcessesTold, OnePlace
<1>4. \A w \in Writer : Busy(w)' =>
         /\ writer'[w].kind # "set" /\ writer'[w].pc # "put"
         /\ \A q : writer'[w].pc = "publish" /\ writer'[w].new.place = q =>
               Config!Current(q)' \in {{}, writer'[w].told}
  BY <1>1 DEF ProcessesTold
<1>5. ASSUME NEW q \in Config!Place
      PROVE  \/ Config!Current(q)' = {}
             \/ \E w \in Writer : Busy(w)' /\ writer'[w].new.place = q
             \/ \A p \in Process : Newest(p, q, Config!Current(q))'
  <2>1. PICK v : v = Config!Current(q)
    OBVIOUS
  <2>2. v = Config!Current(q)'
    BY <1>1, <2>1
  <2>3. (\A p \in Process : Newest(p, q, v)) =>
           \A p \in Process : Newest(p, q, Config!Current(q))'
    BY <2>2 DEF Newest
  <2>4. \/ v = {} \/ \E w \in Writer : Busy(w) /\ writer[w].new.place = q
        \/ \A p \in Process : Newest(p, q, v)
    BY <2>1 DEF ProcessesTold
  <2> QED BY <2>2, <2>3, <2>4
<1> QED BY <1>3, <1>4, <1>5 DEF ProcessesTold

\* Only one writer changes.
LEMMA WriterChange ==
    ASSUME ConfigTypes, NEW w \in Writer, NEW new \in WriterAt,
           Formed(new),
           writer' = [writer EXCEPT ![w] = new]
    PROVE  /\ writer' \in [Writer -> WriterAt] /\ writer'[w] = new
           /\ \A x \in Writer \ {w} : writer'[x] = writer[x]
           /\ \A x \in Writer : Formed(writer'[x])
BY DEF ConfigTypes

\* Readers.
LEMMA ReadLoadKeeps ==
    ASSUME ConfigInv, NEW r \in Reader, NEW e \in Config!Entries,
           Config!ReadLoad(r, e)
    PROVE  ConfigInv'
<1> USE DEF ConfigInv
<1>1. PICK new : new = [pc |-> "loaded", entry |-> e,
                        found |-> {Config!Content(e)}]
  OBVIOUS
<1>2. /\ UNCHANGED <<item, cache, writer, wire, listening, level, stranded,
                     marred>>
      /\ reader' = [reader EXCEPT ![r] = new]
  BY <1>1 DEF Config!ReadLoad
<1>3. ConfigTypes'
  BY <1>2 DEF ConfigTypes
<1>4. OneWriter' /\ ProcessesTold'
  BY <1>2, ToldStays DEF OneWriter, Busy, Heard
<1>5. EntriesHeld'
  <2>1. \A x \in Reader : \A d :
           reader'[x].pc = "loaded" /\ reader'[x].entry = d =>
              \/ reader'[x] = reader[x]
              \/ reader'[x].found = {Config!Content(d)}
    BY <1>1, <1>2 DEF ConfigTypes
  <2> QED BY <1>2, <2>1, EntriesStay DEF Trusted, Due
<1> QED BY <1>3, <1>4, <1>5

LEMMA ReadFillKeeps ==
    ASSUME ConfigInv, NEW r \in Reader, Config!ReadFill(r)
    PROVE  ConfigInv'
<1> USE DEF ConfigInv
<1>1. PICK f, e : f = reader[r].found /\ e = reader[r].entry
  OBVIOUS
<1>2. /\ reader[r].pc = "loaded"
      /\ UNCHANGED <<item, writer, wire, listening, level, marred>>
      /\ reader' = [reader EXCEPT ![r] = Config!AtRest]
      /\ \/ /\ cache' = [cache EXCEPT ![e] = f]
            /\ stranded' = stranded \ {e}
         \/ UNCHANGED <<cache, stranded>>
  BY <1>1 DEF Config!ReadFill
<1>3. ConfigTypes'
  BY <1>2 DEF ConfigTypes
<1>4. OneWriter' /\ ProcessesTold'
  BY <1>2, ToldStays DEF OneWriter, Busy, Heard
<1>5. EntriesHeld'
  <2>1. SUFFICES ASSUME Trusted' PROVE EntriesHeld'
    BY DEF EntriesHeld
  <2>2. Trusted /\ f = {Config!Content(e)}
    BY <1>1, <1>2, <2>1 DEF Trusted, EntriesHeld
  <2>3. \A x \in Reader : reader'[x].pc = "loaded" => reader'[x] = reader[x]
    BY <1>2 DEF ConfigTypes, Config!AtRest
  <2>4. \A d \in Config!Entries \ stranded' :
           \/ d = e /\ Config!Agrees(d)'
           \/ d \notin stranded /\ cache'[d] = cache[d]
    BY <1>2, <2>2, SameRows DEF ConfigTypes, Config!Agrees
  <2>5. \A d \in Config!Entries \ stranded' :
           Config!Agrees(d)' \/ \E w \in Writer : Due(w, d)'
    BY <1>2, <2>2, <2>4, SameRows DEF EntriesHeld, Due, Config!Agrees
  <2> QED BY <1>2, <2>2, <2>3, <2>5, SameRows DEF EntriesHeld
<1> QED BY <1>3, <1>4, <1>5

LEMMA ChangeReadKeeps ==
    ASSUME ConfigInv, NEW w \in Writer, NEW p \in Process, NEW i \in Item,
           NEW r \in Config!RowAt,
           NEW kind \in {"update", "destroy", "rollback", "set"},
           Config!ChangeRead(w, p, kind, i, r)
    PROVE  ConfigInv'
<1> USE DEF ConfigInv
<1>1. PICK new : new = [pc |-> "save", kind |-> kind, at |-> p, item |-> i,
                        new |-> r, old |-> item[i].value, todo |-> {},
                        told |-> {}]
  OBVIOUS
<1>2. /\ writer[w].pc = "idle" /\ item[i].state = "live"
      /\ writer' = [writer EXCEPT ![w] = new]
      /\ UNCHANGED <<item, cache, reader, wire, listening, level, stranded,
                     marred>>
  BY <1>1 DEF Config!ChangeRead
<1>3. new \in WriterAt /\ new.pc = "save" /\ Formed(new)
  <2>1. item[i] \in Config!RowAt
    <3>1. item[i] \in Config!Rows /\ item[i].state = "live"
      BY <1>2 DEF ConfigTypes
    <3> HIDE DEF ConfigInv
    <3> QED BY <3>1 DEF Config!Rows, Config!NoRow
  <2>2. kind = "set" => r.state = "live"
    BY <1>2, <2>1 DEF Config!ChangeRead, Config!Makes, Config!RowAt
  <2> QED BY <1>1, <2>1, <2>2 DEF WriterAt, Steps, Kinds, Config!Rows,
             Config!RowAt, Formed
<1>4. /\ writer' \in [Writer -> WriterAt] /\ writer'[w] = new
      /\ \A x \in Writer \ {w} : writer'[x] = writer[x]
      /\ \A x \in Writer : Formed(writer'[x])
  BY <1>2, <1>3, WriterChange
<1>5. \A x \in Writer : /\ Busy(x)' = Busy(x)
                        /\ Busy(x) => writer'[x] = writer[x]
  BY <1>2, <1>3, <1>4 DEF Busy
<1>6. ConfigTypes'
  BY <1>2, <1>4 DEF ConfigTypes
<1>7. OneWriter' /\ ProcessesTold'
  BY <1>2, <1>5, ToldStays DEF OneWriter, Heard
<1>8. EntriesHeld'
  <2>1. /\ \A x \in Writer : \A e : Due(x, e) => Due(x, e)'
        /\ \A x \in Writer : writer'[x].pc = "put" => writer'[x] = writer[x]
    BY <1>2, <1>5 DEF Due, Busy
  <2> QED BY <1>2, <2>1, EntriesStay DEF Trusted
<1> QED BY <1>6, <1>7, <1>8

\* A place no row comes to or leaves keeps its value.
LEMMA OtherPlace ==
    ASSUME ConfigTypes, NEW i \in Item, NEW r \in Config!RowAt,
           item' = [item EXCEPT ![i] = r], NEW q, q # r.place,
           item[i].state # "live" \/ item[i].place # q
    PROVE  Config!Current(q)' = Config!Current(q)
<1>1. \A j \in Item : \/ j # i /\ item'[j] = item[j]
                      \/ j = i /\ item'[j] = r
  BY DEF ConfigTypes
<1>2. \A j \in Item : (item'[j].state = "live" /\ item'[j].place = q)
                      <=> (item[j].state = "live" /\ item[j].place = q)
  BY <1>1
<1>3. \A j \in Item : item[j].state = "live" /\ item[j].place = q =>
                          item'[j] = item[j]
  BY <1>1
<1> QED BY <1>2, <1>3 DEF Config!Current

\* A row is saved: the entries and the processes are still to learn of it, but
\* for the entries it leaves behind.
LEMMA RowChange ==
    ASSUME ConfigInv, NEW w \in Writer, NEW new \in WriterAt, NEW i \in Item,
           ~Busy(w), NEW r \in Config!RowAt,
           writer' = [writer EXCEPT ![w] = new],
           item' = [item EXCEPT ![i] = r], ~Config!Taken(i, r.place),
           Formed(new), new.new = r,
           UNCHANGED <<cache, reader, wire, listening, level>>,
           marred \cup Config!Overlap(w) \subseteq marred',
           stranded' = stranded \cup Config!LeftBehind(i, r.place),
           \/ /\ new.pc = "clear" /\ new.todo = Config!Cleared(r.place)
              /\ new.kind # "set"
           \/ /\ new.pc = "put" /\ r.state = "live" /\ "set" \in marred'
              /\ new.todo = Config!Cleared(r.place) \ {<<"item", r.place>>}
    PROVE  ConfigInv'
<1> USE DEF ConfigInv
<1>1. /\ writer' \in [Writer -> WriterAt] /\ writer'[w] = new
      /\ \A x \in Writer \ {w} : writer'[x] = writer[x]
      /\ \A x \in Writer : Formed(writer'[x])
  BY WriterChange
<1>2. "overlap" \notin marred' =>
         /\ \A x \in Reader : reader[x].pc = "idle"
         /\ \A x \in Writer \ {w} : writer[x].pc = "idle"
  BY DEF Config!Overlap
<1>3. ConfigTypes'
  BY <1>1 DEF ConfigTypes, Config!Rows
<1>4. OneWriter'
  BY <1>1, <1>2 DEF OneWriter, Busy
<1>5. \A j \in Item : j # i /\ item[j].state = "live" =>
         item[j].place # r.place
  BY DEF Config!Taken, Config!Absent
<1>6. \A j \in Item : item'[j] = IF j = i THEN r ELSE item[j]
  BY DEF ConfigTypes
<1>7. EntriesHeld'
  <2>1. SUFFICES ASSUME Trusted' PROVE EntriesHeld'
    BY DEF EntriesHeld
  <2>2. Trusted /\ "overlap" \notin marred'
    BY <2>1 DEF Trusted
  <2>3. ASSUME new.pc = "put" PROVE Config!Current(r.place)' = {r.value}
    BY <1>5, <1>6, <2>3 DEF Config!Current
  <2>4. ASSUME NEW e \in Config!Entries \ stranded'
        PROVE  Config!Agrees(e)' \/ \E x \in Writer : Due(x, e)'
    <3>1. CASE e \in Config!Cleared(r.place)
      BY <1>1, <3>1 DEF Due
    <3>2. CASE e \notin Config!Cleared(r.place)
      <4>1. ASSUME NEW q \in Config!Covered(e)
            PROVE  Config!Current(q)' = Config!Current(q)
        <5>1. q # r.place
          BY <3>2 DEF Config!Covered
        <5>2. item[i].state # "live" \/ item[i].place # q
          BY <2>4, <3>2 DEF Config!Covered, Config!LeftBehind
        <5> QED BY <5>1, <5>2, OtherPlace
      <4>2. Config!Content(e)' = Config!Content(e)
        BY <4>1 DEF Config!Content
      <4>3. e \notin stranded /\ Config!Agrees(e)' = Config!Agrees(e)
        BY <4>2 DEF Config!Agrees
      <4>4. \A x \in Writer : ~Due(x, e)
        BY <1>2, <2>2 DEF Due, Busy
      <4> QED BY <2>2, <4>3, <4>4 DEF EntriesHeld
    <3> QED BY <3>1, <3>2
  <2> QED BY <1>1, <1>2, <2>2, <2>3, <2>4 DEF EntriesHeld
<1>8. ProcessesTold'
  <2>1. SUFFICES ASSUME Heard' PROVE ProcessesTold'
    BY DEF ProcessesTold
  <2>2. "overlap" \notin marred' /\ "set" \notin marred' /\ Heard
    BY <2>1 DEF Heard
  <2>3. listening' = Process /\ OnePlace
    BY <2>2 DEF ProcessesTold
  <2>4. new.pc = "clear" /\ new.kind # "set" /\ Busy(w)'
    BY <1>1, <2>2 DEF Busy
  <2>5. \A x \in Writer : Busy(x)' => x = w
    BY <1>1, <1>2, <2>2 DEF Busy
  <2>6. OnePlace'
    BY <1>5, <1>6, <2>3 DEF OnePlace
  <2>7. ASSUME NEW q \in Config!Place, q # r.place
        PROVE  Config!Current(q)' \in {{}, Config!Current(q)}
    <3>1. CASE item[i].state # "live" \/ item[i].place # q
      BY <2>7, <3>1, OtherPlace
    <3>2. CASE item[i].state = "live" /\ item[i].place = q
      <4>1. \A j \in Item : ~(item'[j].state = "live" /\ item'[j].place = q)
        BY <1>6, <2>3, <2>7, <3>2 DEF OnePlace
      <4> QED BY <4>1 DEF Config!Current
    <3> QED BY <3>1, <3>2
  <2>8. \A x \in Writer : ~Busy(x)
    BY <1>2, <2>2 DEF Busy
  <2> QED BY <1>1, <2>2, <2>3, <2>4, <2>5, <2>6, <2>7, <2>8
          DEF ProcessesTold, Newest
<1> QED BY <1>3, <1>4, <1>7, <1>8

LEMMA ChangeSaveKeeps ==
    ASSUME ConfigInv, NEW w \in Writer, Config!ChangeSave(w) PROVE ConfigInv'
<1> USE DEF ConfigInv
<1>1. PICK old, kind, i, r :
         old = writer[w] /\ kind = old.kind /\ i = old.item /\ r = old.new
  OBVIOUS
<1>2. /\ old \in WriterAt /\ old.pc = "save" /\ i \in Item
      /\ r \in Config!RowAt /\ ~Busy(w)
      /\ kind = "set" => r.state = "live"
      /\ UNCHANGED <<cache, reader, wire, listening, level>>
  BY <1>1 DEF Config!ChangeSave, ConfigTypes, Busy, Formed
<1>3. CASE /\ writer' = [writer EXCEPT ![w] = Config!Free]
           /\ UNCHANGED <<item, stranded, marred>>
  <2>1. /\ writer' \in [Writer -> WriterAt] /\ writer'[w] = Config!Free
        /\ \A x \in Writer \ {w} : writer'[x] = writer[x]
        /\ \A x \in Writer : Formed(writer'[x])
    BY <1>3, FreeWriter, WriterChange
  <2>2. \A x \in Writer : /\ Busy(x)' = Busy(x)
                          /\ Busy(x) => writer'[x] = writer[x]
    BY <1>2, <2>1, FreeWriter DEF Busy
  <2>3. ConfigTypes'
    BY <1>2, <1>3, <2>1 DEF ConfigTypes
  <2>4. OneWriter' /\ ProcessesTold'
    BY <1>2, <1>3, <2>2, ToldStays DEF OneWriter, Heard
  <2>5. EntriesHeld'
    <3>1. /\ \A x \in Writer : \A e : Due(x, e) => Due(x, e)'
          /\ \A x \in Writer : writer'[x].pc = "put" => writer'[x] = writer[x]
      BY <2>2 DEF Due, Busy
    <3> QED BY <1>2, <1>3, <3>1, EntriesStay DEF Trusted
  <2> QED BY <2>3, <2>4, <2>5
<1>4. CASE /\ ~Config!Taken(i, r.place)
           /\ item' = [item EXCEPT ![i] = r]
           /\ writer' = [writer EXCEPT
                ![w].pc = IF kind = "set" THEN "put" ELSE "clear",
                ![w].todo = Config!Cleared(r.place) \
                   (IF kind = "set" THEN {<<"item", r.place>>} ELSE {})]
           /\ stranded' = stranded \cup Config!LeftBehind(i, r.place)
           /\ marred' = marred \cup Config!Overlap(w)
                               \cup (IF kind = "set" THEN {"set"} ELSE {})
  <2>1. PICK pc, rem : /\ pc = IF kind = "set" THEN "put" ELSE "clear"
                       /\ rem = Config!Cleared(r.place) \
                            (IF kind = "set" THEN {<<"item", r.place>>} ELSE {})
    OBVIOUS
  <2>2. PICK new : new = [old EXCEPT !.pc = pc, !.todo = rem]
    OBVIOUS
  <2>3. rem \in SUBSET Config!Entries
    BY <1>2, <2>1 DEF Config!Entries, Config!RowAt
  <2>4. /\ new \in WriterAt /\ new.pc = pc /\ new.todo = rem
        /\ new.kind = kind /\ new.new = r /\ Formed(new)
    BY <1>1, <1>2, <2>1, <2>2, <2>3 DEF WriterAt, Steps, Formed
  <2>5. writer' = [writer EXCEPT ![w] = new]
    BY <1>1, <1>4, <2>1, <2>2
  <2>6. CASE kind = "set"
    BY <1>2, <1>4, <2>1, <2>4, <2>5, <2>6, RowChange
  <2>7. CASE kind # "set"
    <3>1. rem = Config!Cleared(r.place) /\ pc = "clear"
      BY <2>1, <2>7
    <3> QED BY <1>2, <1>4, <2>4, <2>5, <2>7, <3>1, RowChange
  <2> QED BY <2>6, <2>7
<1> QED BY <1>1, <1>3, <1>4 DEF Config!ChangeSave

LEMMA PerformCreateKeeps ==
    ASSUME ConfigInv, NEW w \in Writer, NEW p \in Process, NEW i \in Item,
           NEW r \in Config!RowAt, Config!PerformCreate(w, p, i, r)
    PROVE  ConfigInv'
<1>1. PICK new : new = [pc |-> "clear", kind |-> "create", at |-> p,
                        item |-> i, new |-> r, old |-> "none",
                        todo |-> Config!Cleared(r.place), told |-> {}]
  OBVIOUS
<1>2. /\ new \in WriterAt /\ new.pc = "clear" /\ Formed(new) /\ new.new = r
      /\ new.todo = Config!Cleared(r.place) /\ new.kind # "set"
  <2>1. Config!Cleared(r.place) \in SUBSET Config!Entries
    BY DEF Config!Entries, Config!RowAt
  <2> QED BY <1>1, <2>1 DEF WriterAt, Steps, Kinds, Config!Rows, Formed
<1>3. /\ ~Config!Taken(i, r.place) /\ ~Busy(w) /\ item[i].state # "live"
      /\ item' = [item EXCEPT ![i] = r]
      /\ writer' = [writer EXCEPT ![w] = new]
      /\ UNCHANGED <<cache, reader, wire, listening, level, stranded>>
      /\ marred' = marred \cup Config!Overlap(w)
  BY <1>1 DEF Config!PerformCreate, Busy
<1>4. stranded' = stranded \cup Config!LeftBehind(i, r.place)
  BY <1>3 DEF Config!LeftBehind
<1> QED BY <1>2, <1>3, <1>4, RowChange

\* A writer corrects one entry, or it is noted that Redis failed.
LEMMA EntryChange ==
    ASSUME ConfigInv, NEW w \in Writer, NEW e \in Config!Entries,
           NEW new \in WriterAt, writer' = [writer EXCEPT ![w] = new],
           Formed(new), Busy(w), new.pc = "clear", new.kind = writer[w].kind,
           new.new = writer[w].new,
           \A d \in Config!Entries : Due(w, d) => d = e \/ d \in new.todo,
           UNCHANGED <<item, reader, wire, listening, level>>,
           \/ /\ UNCHANGED marred /\ stranded' = stranded \ {e}
              /\ cache' = [cache EXCEPT ![e] = cache'[e]]
              /\ Trusted => Config!Agrees(e)'
           \/ marred' = marred \cup {"redis"}
              /\ UNCHANGED <<cache, stranded>>
    PROVE  ConfigInv'
<1> USE DEF ConfigInv
<1>1. /\ writer' \in [Writer -> WriterAt] /\ writer'[w] = new
      /\ \A x \in Writer \ {w} : writer'[x] = writer[x]
      /\ \A x \in Writer : Formed(writer'[x])
  BY WriterChange
<1>2. \A x \in Writer : /\ Busy(x)' = Busy(x)
                        /\ writer'[x].kind = writer[x].kind
                        /\ writer'[x].new = writer[x].new
                        /\ writer'[x].pc = "put" => writer[x].pc = "put"
                        /\ writer'[x].pc = "publish" => writer'[x] = writer[x]
  BY <1>1 DEF Busy
<1>3. ConfigTypes'
  <2>1. cache' = [d \in Config!Entries |-> cache'[d]]
    BY DEF ConfigTypes
  <2> QED BY <1>1, <2>1 DEF ConfigTypes
<1>4. OneWriter'
  BY <1>2 DEF OneWriter
<1>5. ProcessesTold'
  BY <1>1, <1>2, SameRows DEF ProcessesTold, Heard, Newest
<1>6. EntriesHeld'
  <2>1. SUFFICES ASSUME Trusted' PROVE EntriesHeld'
    BY DEF EntriesHeld
  <2>2. /\ Trusted /\ UNCHANGED marred /\ stranded' = stranded \ {e}
        /\ cache' = [cache EXCEPT ![e] = cache'[e]] /\ Config!Agrees(e)'
    BY <2>1 DEF Trusted
  <2>3. ASSUME NEW d \in Config!Entries \ stranded'
        PROVE  Config!Agrees(d)' \/ \E x \in Writer : Due(x, d)'
    <3>1. CASE d = e
      BY <2>2, <3>1
    <3>2. CASE d # e
      <4>1. d \notin stranded /\ Config!Agrees(d)' = Config!Agrees(d)
        BY <2>2, <2>3, <3>2, SameRows DEF Config!Agrees, ConfigTypes
      <4>2. \A x \in Writer : Due(x, d) => Due(x, d)'
        BY <1>1, <3>2 DEF Due
      <4> QED BY <2>2, <4>1, <4>2 DEF EntriesHeld
    <3> QED BY <3>1, <3>2
  <2>4. \A x \in Writer : \A q :
           writer'[x].pc = "put" /\ writer'[x].new.place = q =>
              Config!Current(q)' = {writer'[x].new.value}
    BY <1>2, <2>2, SameRows DEF EntriesHeld
  <2>5. \A x \in Reader : \A d :
           reader'[x].pc = "loaded" /\ reader'[x].entry = d =>
              reader'[x].found = {Config!Content(d)'}
    BY <2>2, SameRows DEF EntriesHeld
  <2> QED BY <2>3, <2>4, <2>5 DEF EntriesHeld
<1> QED BY <1>3, <1>4, <1>5, <1>6

LEMMA SetPutKeeps ==
    ASSUME ConfigInv, NEW w \in Writer, Config!ConfigSetPut(w)
    PROVE  ConfigInv'
<1> USE DEF ConfigInv
<1>1. PICK old, r, e :
         old = writer[w] /\ r = old.new /\ e = <<"item", r.place>>
  OBVIOUS
<1>2. /\ old \in WriterAt /\ old.pc = "put" /\ Formed(old) /\ Busy(w)
      /\ r \in Config!RowAt /\ e \in Config!Entries
      /\ UNCHANGED <<item, reader, wire, listening, level>>
  BY <1>1 DEF Config!ConfigSetPut, ConfigTypes, Busy, Formed, Config!RowAt,
     Config!Entries, Config!Cleared
<1>3. PICK new : new = [old EXCEPT !.pc = "clear"]
  OBVIOUS
<1>4. /\ new \in WriterAt /\ new.pc = "clear" /\ new.kind = old.kind
      /\ new.new = r /\ new.todo = old.todo /\ Formed(new)
  BY <1>1, <1>2, <1>3 DEF WriterAt, Steps, Formed
<1>5. writer' = [writer EXCEPT ![w] = new]
  BY <1>1, <1>3 DEF Config!ConfigSetPut
<1>6. \A d \in Config!Entries : Due(w, d) => d = e \/ d \in new.todo
  BY <1>1, <1>4 DEF Due
<1>7. \/ /\ UNCHANGED marred /\ stranded' = stranded \ {e}
         /\ cache' = [cache EXCEPT ![e] = cache'[e]]
         /\ cache'[e] = {[q \in Config!Covered(e) |-> {r.value}]}
      \/ marred' = marred \cup {"redis"} /\ UNCHANGED <<cache, stranded>>
  BY <1>1, <1>2 DEF Config!ConfigSetPut, ConfigTypes
<1>8. \A q \in Config!Covered(e) : q = r.place
  BY <1>1 DEF Config!Covered, Config!Cleared
<1>9. ASSUME Trusted, cache'[e] = {[q \in Config!Covered(e) |-> {r.value}]}
      PROVE  Config!Agrees(e)'
  <2>1. Config!Current(r.place) = {r.value}
    BY <1>1, <1>2, <1>9 DEF EntriesHeld
  <2>2. Config!Content(e) = [q \in Config!Covered(e) |-> {r.value}]
    BY <1>8, <2>1 DEF Config!Content
  <2> QED BY <1>2, <1>9, <2>2, SameRows DEF Config!Agrees
<1> QED BY <1>1, <1>2, <1>4, <1>5, <1>6, <1>7, <1>9, EntryChange

LEMMA InvalidateKeeps ==
    ASSUME ConfigInv, NEW w \in Writer, NEW e \in Config!Entries,
           Config!Invalidate(w, e)
    PROVE  ConfigInv'
<1> USE DEF ConfigInv
<1>1. PICK old : old = writer[w]
  OBVIOUS
<1>2. PICK new : new = [old EXCEPT !.todo = @ \ {e}]
  OBVIOUS
<1>3. /\ old \in WriterAt /\ old.pc = "clear" /\ Formed(old) /\ Busy(w)
      /\ UNCHANGED <<item, reader, wire, listening, level>>
  BY <1>1 DEF Config!Invalidate, ConfigTypes, Busy
<1>4. /\ new \in WriterAt /\ new.pc = "clear" /\ new.kind = old.kind
      /\ new.new = old.new /\ new.todo = old.todo \ {e} /\ Formed(new)
  BY <1>2, <1>3 DEF WriterAt, Steps, Formed
<1>5. writer' = [writer EXCEPT ![w] = new]
  BY <1>1, <1>2 DEF Config!Invalidate
<1>6. \A d \in Config!Entries : Due(w, d) => d = e \/ d \in new.todo
  BY <1>1, <1>3, <1>4 DEF Due
<1>7. \/ /\ UNCHANGED marred /\ stranded' = stranded \ {e}
         /\ cache' = [cache EXCEPT ![e] = cache'[e]] /\ cache'[e] = {}
      \/ marred' = marred \cup {"redis"} /\ UNCHANGED <<cache, stranded>>
  BY DEF Config!Invalidate, ConfigTypes
<1>8. cache'[e] = {} => Config!Agrees(e)'
  BY DEF Config!Agrees
<1> QED BY <1>1, <1>3, <1>4, <1>5, <1>6, <1>7, <1>8, EntryChange

LEMMA NotifySelfKeeps ==
    ASSUME ConfigInv, NEW w \in Writer, Config!NotifySelf(w) PROVE ConfigInv'
<1> USE DEF ConfigInv
<1>1. PICK old, r, c :
         old = writer[w] /\ r = old.new /\ c = Config!Current(r.place)
  OBVIOUS
<1>2. /\ old \in WriterAt /\ old.pc = "clear" /\ old.todo = {} /\ Formed(old)
      /\ r \in Config!RowAt /\ Busy(w)
      /\ UNCHANGED <<item, cache, reader, wire, listening, stranded, marred>>
  BY <1>1 DEF Config!NotifySelf, ConfigTypes, Formed, Busy
<1>3. c \in SUBSET Value
  BY <1>1 DEF Config!Current, ConfigTypes, Config!Rows, Config!RowAt,
     Config!NoRow
<1>4. PICK new \in WriterAt :
          /\ writer' = [writer EXCEPT ![w] = new] /\ Formed(new)
          /\ \/ /\ old.kind = "set" /\ new.pc = "idle" /\ UNCHANGED level
             \/ /\ old.kind # "set" /\ new.pc = "publish" /\ new.told = c
                /\ new.kind = old.kind /\ new.new = r
                /\ Config!Tell(old.at, r.place, c)
  <2>1. CASE old.kind = "set"
    BY <1>1, <2>1, FreeWriter DEF Config!NotifySelf
  <2>2. CASE old.kind # "set"
    <3>1. PICK new : new = [old EXCEPT !.pc = "publish", !.told = c]
      OBVIOUS
    <3>2. /\ new \in WriterAt /\ new.pc = "publish" /\ new.told = c
          /\ new.kind = old.kind /\ new.new = r /\ Formed(new)
      BY <1>1, <1>2, <1>3, <3>1 DEF WriterAt, Steps, Formed
    <3>3. writer' = [writer EXCEPT ![w] = new]
      BY <1>1, <2>2, <3>1 DEF Config!NotifySelf
    <3>4. Config!Tell(old.at, r.place, c)
      BY <1>1, <2>2 DEF Config!NotifySelf
    <3> QED BY <2>2, <3>2, <3>3, <3>4
  <2> QED BY <2>1, <2>2
<1>5. /\ writer' \in [Writer -> WriterAt] /\ writer'[w] = new
      /\ \A x \in Writer \ {w} : writer'[x] = writer[x]
      /\ \A x \in Writer : Formed(writer'[x])
  BY <1>4, WriterChange
<1>6. /\ level' \in [Process -> [Config!Place -> SUBSET Value]]
      /\ \A p \in Process : \A q \in Config!Place :
            level'[p][q] = level[p][q] \/ q = r.place
  <2>1. UNCHANGED level \/ level' = [level EXCEPT ![old.at] =
                                       [@ EXCEPT ![r.place] = c]]
    BY <1>4 DEF Config!Tell
  <2>2. level \in [Process -> [Config!Place -> SUBSET Value]]
    BY DEF ConfigTypes
  <2> HIDE DEF ConfigInv
  <2> QED BY <1>3, <2>1, <2>2
<1>7. ConfigTypes'
  BY <1>2, <1>5, <1>6 DEF ConfigTypes
<1>8. OneWriter'
  BY <1>2, <1>4, <1>5 DEF OneWriter, Busy
<1>9. EntriesHeld'
  <2>1. \A d : ~Due(w, d)
    BY <1>1, <1>2 DEF Due
  <2>2. /\ \A x \in Writer : \A d : Due(x, d) => Due(x, d)'
        /\ \A x \in Writer : writer'[x].pc = "put" => writer'[x] = writer[x]
    BY <1>4, <1>5, <2>1 DEF Due
  <2> QED BY <1>2, <2>2, EntriesStay DEF Trusted
<1>10. ProcessesTold'
  <2>1. SUFFICES ASSUME Heard' PROVE ProcessesTold'
    BY DEF ProcessesTold
  <2>2. Heard /\ old.kind # "set"
    BY <1>1, <1>2, <2>1 DEF Heard, ProcessesTold
  <2>3. /\ Busy(w)' /\ new.new = r /\ new.told = c /\ new.kind # "set"
        /\ new.pc = "publish"
    BY <1>4, <1>5, <2>2 DEF Busy
  <2>4. \A x \in Writer \ {w} : Busy(x)' = Busy(x)
    BY <1>5 DEF Busy
  <2>5. \A p \in Process : \A q \in Config!Place : \A v :
           q # r.place => Newest(p, q, v)' = Newest(p, q, v)
    BY <1>2, <1>6 DEF Newest
  <2>6. ASSUME NEW q \in Config!Place
        PROVE  \/ Config!Current(q)' = {}
               \/ \E x \in Writer : Busy(x)' /\ writer'[x].new.place = q
               \/ \A p \in Process : Newest(p, q, Config!Current(q))'
    <3>1. CASE q = r.place
      BY <1>5, <2>3, <3>1
    <3>2. CASE q # r.place
      <4>1. PICK v : v = Config!Current(q)
        OBVIOUS
      <4>2. v = Config!Current(q)'
        BY <1>2, <4>1, SameRows
      <4>3. \/ v = {}
            \/ \E x \in Writer \ {w} : Busy(x) /\ writer[x].new.place = q
            \/ \A p \in Process : Newest(p, q, v)
        BY <1>1, <2>2, <3>2, <4>1 DEF ProcessesTold
      <4>4. (\A p \in Process : Newest(p, q, v)) =>
               \A p \in Process : Newest(p, q, Config!Current(q))'
        <5>1. ASSUME NEW p \in Process, Newest(p, q, v)
              PROVE  Newest(p, q, Config!Current(q))'
          BY <2>5, <3>2, <4>2, <5>1
        <5> QED BY <5>1
      <4> QED BY <1>5, <2>4, <4>2, <4>3, <4>4
    <3> QED BY <3>1, <3>2
  <2>7. \A x \in Writer : Busy(x)' =>
           /\ writer'[x].kind # "set" /\ writer'[x].pc # "put"
           /\ \A q : writer'[x].pc = "publish" /\ writer'[x].new.place = q =>
                 Config!Current(q)' \in {{}, writer'[x].told}
    <3>1. Config!Current(r.place)' = c
      BY <1>1, <1>2, SameRows
    <3>2. ASSUME NEW x \in Writer \ {w}, Busy(x)'
          PROVE  /\ writer'[x].kind # "set" /\ writer'[x].pc # "put"
                 /\ \A q : /\ writer'[x].pc = "publish"
                           /\ writer'[x].new.place = q
                           => Config!Current(q)' \in {{}, writer'[x].told}
      BY <1>2, <1>5, <2>2, <2>4, <3>2, SameRows DEF ProcessesTold
    <3> QED BY <1>5, <2>3, <3>1, <3>2
  <2>8. listening' = Process /\ OnePlace'
    BY <1>2, <2>2, SameRows DEF ProcessesTold
  <2> QED BY <2>6, <2>7, <2>8 DEF ProcessesTold
<1> QED BY <1>7, <1>8, <1>9, <1>10

\* What a message does to a queue, at its end and at its head.
LEMMA AppendMessage ==
    ASSUME NEW s \in Seq(Message), NEW m \in Message
    PROVE  /\ Append(s, m) \in Seq(Message) /\ Len(s) \in Nat
           /\ Len(Append(s, m)) = Len(s) + 1
           /\ Append(s, m)[Len(s) + 1] = m
           /\ \A n \in 1..Len(s) : Append(s, m)[n] = s[n]
OBVIOUS

LEMMA TailMessage ==
    ASSUME NEW s \in Seq(Message), s # <<>>
    PROVE  /\ Tail(s) \in Seq(Message) /\ Len(s) \in Nat /\ Len(s) >= 1
           /\ Head(s) = s[1] /\ s[1] \in Message
           /\ Len(Tail(s)) = Len(s) - 1
           /\ \A n \in 1..(Len(s) - 1) : Tail(s)[n] = s[n + 1]
OBVIOUS

LEMMA BroadcastKeeps ==
    ASSUME ConfigInv, NEW w \in Writer, Config!Broadcast(w) PROVE ConfigInv'
<1> USE DEF ConfigInv
<1>1. PICK old, m : /\ old = writer[w]
                    /\ m = [place |-> old.new.place, told |-> old.told]
  OBVIOUS
<1>2. /\ old \in WriterAt /\ old.pc = "publish" /\ Formed(old) /\ Busy(w)
      /\ m \in Message /\ m.place = old.new.place /\ m.told = old.told
      /\ writer' = [writer EXCEPT ![w] = Config!Free]
      /\ UNCHANGED <<item, cache, reader, listening, level, stranded>>
  BY <1>1 DEF Config!Broadcast, ConfigTypes, Formed, WriterAt, Message, Busy,
     Config!RowAt
<1>3. /\ writer' \in [Writer -> WriterAt] /\ writer'[w] = Config!Free
      /\ \A x \in Writer \ {w} : writer'[x] = writer[x]
      /\ \A x \in Writer : Formed(writer'[x])
  BY <1>2, FreeWriter, WriterChange
<1>4. \/ /\ UNCHANGED marred
         /\ wire' = [p \in Process |->
                       IF p \in listening THEN Append(wire[p], m) ELSE wire[p]]
      \/ marred' = marred \cup {"redis"} /\ UNCHANGED wire
  BY <1>1 DEF Config!Broadcast
<1>5. ConfigTypes'
  <2>1. wire' \in [Process -> Seq(Message)]
    <3>1. wire \in [Process -> Seq(Message)]
      BY DEF ConfigTypes
    <3>2. \A p \in Process : Append(wire[p], m) \in Seq(Message)
      BY <1>2, <3>1, AppendMessage
    <3> HIDE DEF ConfigInv
    <3> QED BY <1>4, <3>1, <3>2
  <2> QED BY <1>2, <1>3, <2>1 DEF ConfigTypes
<1>6. \A x \in Writer : Busy(x)' => x # w /\ Busy(x)
  BY <1>3, FreeWriter DEF Busy
<1>7. OneWriter'
  BY <1>4, <1>6 DEF OneWriter
<1>8. EntriesHeld'
  <2>1. SUFFICES ASSUME Trusted' PROVE EntriesHeld'
    BY DEF EntriesHeld
  <2>2. Trusted /\ UNCHANGED marred
    BY <1>4, <2>1 DEF Trusted
  <2>3. /\ \A x \in Writer : \A d : Due(x, d) => Due(x, d)'
        /\ \A x \in Writer : writer'[x].pc = "put" => writer'[x] = writer[x]
    BY <1>1, <1>2, <1>3, FreeWriter DEF Due
  <2> QED BY <1>2, <2>2, <2>3, EntriesStay
<1>9. ProcessesTold'
  <2>1. SUFFICES ASSUME Heard' PROVE ProcessesTold'
    BY DEF ProcessesTold
  <2>2. /\ Heard /\ "overlap" \notin marred /\ listening = Process
        /\ Config!Current(m.place) \in {{}, m.told}
        /\ wire' = [p \in Process |-> Append(wire[p], m)]
    BY <1>1, <1>2, <1>4, <2>1 DEF Heard, ProcessesTold
  <2>3. \A x \in Writer : ~Busy(x)'
    BY <1>2, <1>6, <2>2 DEF OneWriter
  <2>4. \A p \in Process : Newest(p, m.place, m.told)'
    <3>1. ASSUME NEW p \in Process
          PROVE  /\ Len(wire'[p]) = Len(wire[p]) + 1 /\ Len(wire[p]) \in Nat
                 /\ wire'[p][Len(wire[p]) + 1] = m
      BY <1>2, <2>2, AppendMessage DEF ConfigTypes
    <3> QED BY <3>1 DEF Newest
  <2>5. ASSUME NEW p \in Process, NEW q \in Config!Place, q # m.place, NEW v,
               Newest(p, q, v)
        PROVE  Newest(p, q, v)'
    <3>1. /\ Len(wire'[p]) = Len(wire[p]) + 1 /\ Len(wire[p]) \in Nat
          /\ wire'[p][Len(wire[p]) + 1] = m
          /\ \A n \in 1..Len(wire[p]) : wire'[p][n] = wire[p][n]
      BY <1>2, <2>2, AppendMessage DEF ConfigTypes
    <3> HIDE DEF ConfigInv
    <3>2. \A n \in 1..Len(wire'[p]) :
             n \in 1..Len(wire[p]) \/ wire'[p][n].place # q
      BY <2>5, <3>1
    <3>3. CASE /\ \A n \in 1..Len(wire[p]) : wire[p][n].place # q
               /\ level[p][q] = v
      BY <1>2, <3>1, <3>2, <3>3 DEF Newest
    <3>4. ASSUME NEW n \in 1..Len(wire[p]), wire[p][n].place = q,
                 wire[p][n].told = v,
                 \A k \in 1..Len(wire[p]) : k > n => wire[p][k].place # q
          PROVE  Newest(p, q, v)'
      <4>1. n \in 1..Len(wire'[p]) /\ wire'[p][n] = wire[p][n]
        BY <3>1
      <4>2. \A k \in 1..Len(wire'[p]) : k > n => wire'[p][k].place # q
        BY <3>1, <3>2, <3>4
      <4> QED BY <3>4, <4>1, <4>2 DEF Newest
    <3> QED BY <2>5, <3>3, <3>4 DEF Newest
  <2>6. ASSUME NEW q \in Config!Place, Config!Current(q) # {}
        PROVE  \A p \in Process : Newest(p, q, Config!Current(q))'
    <3>1. CASE q = m.place
      <4>1. Config!Current(q)' = m.told
        BY <1>2, <2>2, <2>6, <3>1, SameRows
      <4> QED BY <2>4, <3>1, <4>1
    <3>2. CASE q # m.place
      <4>1. \A x \in Writer : Busy(x) => writer[x].new.place # q
        BY <1>1, <1>2, <2>2, <3>2 DEF OneWriter
      <4>2. \A p \in Process : Newest(p, q, Config!Current(q))
        BY <2>2, <2>6, <4>1 DEF ProcessesTold
      <4>3. PICK v : v = Config!Current(q)
        OBVIOUS
      <4>4. v = Config!Current(q)'
        BY <1>2, <4>3, SameRows
      <4> QED BY <2>5, <3>2, <4>2, <4>3, <4>4
    <3> QED BY <3>1, <3>2
  <2> QED BY <1>2, <2>2, <2>3, <2>6, SameRows DEF ProcessesTold
<1> QED BY <1>5, <1>7, <1>8, <1>9

LEMMA CategoryKeeps ==
    ASSUME ConfigInv, NEW c \in Category, NEW d \in Category,
           \/ Config!CreateCategory(c) \/ Config!DestroyCategory(c)
           \/ Config!RenameCategory(c, d)
    PROVE  ConfigInv'
<1> USE DEF ConfigInv
<1>1. CASE Config!CreateCategory(c)
  <2>1. UNCHANGED <<item, cache, reader, writer, wire, listening, level,
                    stranded, marred>>
    BY <1>1 DEF Config!CreateCategory
  <2>2. ConfigTypes' /\ OneWriter'
    BY <2>1 DEF ConfigTypes, OneWriter, Busy
  <2>3. EntriesHeld'
    BY <2>1, EntriesStay DEF Trusted, Due
  <2>4. ProcessesTold'
    BY <2>1, ToldStays DEF Heard, Busy
  <2> QED BY <2>2, <2>3, <2>4
<1>2. CASE Config!DestroyCategory(c) \/ Config!RenameCategory(c, d)
  <2>1. /\ UNCHANGED <<cache, reader, wire, listening, level>>
        /\ marred' = marred \cup {"category"}
    BY <1>2 DEF Config!DestroyCategory, Config!RenameCategory
  <2>2. /\ item' \in [Item -> Config!Rows] /\ writer' \in [Writer -> WriterAt]
        /\ \A w \in Writer : Formed(writer'[w]) /\ (Busy(w)' => Busy(w))
    <3>1. CASE Config!DestroyCategory(c)
      <4>1. item' \in [Item -> Config!Rows]
        BY <3>1 DEF Config!DestroyCategory, ConfigTypes, Config!Rows
      <4> QED BY <3>1, <4>1, FreeWriter DEF Config!DestroyCategory,
                 ConfigTypes, Busy
    <3>2. CASE Config!RenameCategory(c, d)
      <4>1. ASSUME NEW r \in Config!RowAt
            PROVE  /\ [r EXCEPT !.place = <<d, r.place[2]>>] \in Config!RowAt
                   /\ [r EXCEPT !.place = <<d, r.place[2]>>].state = r.state
        BY DEF Config!RowAt, Config!Place
      <4>2. item' = [i \in Item |->
                       IF Config!In(i, c)
                       THEN [item[i] EXCEPT !.place = <<d, item[i].place[2]>>]
                       ELSE item[i]]
        BY <3>2 DEF Config!RenameCategory
      <4>3. \A i \in Item : Config!In(i, c) => item[i] \in Config!RowAt
        BY DEF Config!In, Config!Absent, ConfigTypes, Config!Rows,
           Config!NoRow
      <4>4. item' \in [Item -> Config!Rows]
        BY <4>1, <4>2, <4>3 DEF ConfigTypes, Config!Rows
      <4>5. writer' = [w \in Writer |->
                         IF Config!Saving(w, c)
                         THEN [writer[w] EXCEPT !.new =
                                 [writer[w].new EXCEPT !.place =
                                    <<d, writer[w].new.place[2]>>]]
                         ELSE writer[w]]
        BY <3>2 DEF Config!RenameCategory
      <4>6. ASSUME NEW w \in Writer
            PROVE  /\ writer'[w] \in WriterAt /\ Formed(writer'[w])
                   /\ Busy(w)' => Busy(w)
        <5>1. CASE Config!Saving(w, c)
          <6>1. PICK r, old : r = writer[w].new /\ old = writer[w]
            OBVIOUS
          <6>2. PICK moved : moved = [r EXCEPT !.place = <<d, r.place[2]>>]
            OBVIOUS
          <6>3. /\ old \in WriterAt /\ Formed(old) /\ old.pc = "save"
                /\ r \in Config!RowAt
            BY <5>1, <6>1 DEF ConfigTypes, Config!Saving, Formed
          <6>4. moved \in Config!RowAt /\ moved.state = r.state
            BY <4>1, <6>2, <6>3
          <6>5. writer'[w] = [old EXCEPT !.new = moved]
            BY <4>5, <5>1, <6>1, <6>2
          <6> HIDE DEF ConfigInv
          <6>6. /\ writer'[w] \in WriterAt /\ writer'[w].pc = "save"
                /\ writer'[w].item = old.item /\ writer'[w].kind = old.kind
                /\ writer'[w].new = moved
            BY <6>3, <6>4, <6>5 DEF WriterAt, Config!Rows
          <6> QED BY <6>1, <6>3, <6>4, <6>6 DEF Formed, Busy
        <5>2. CASE ~Config!Saving(w, c)
          BY <4>5, <5>2 DEF ConfigTypes, Busy
        <5> QED BY <5>1, <5>2
      <4>7. writer' \in [Writer -> WriterAt]
        BY <4>5, <4>6
      <4> QED BY <4>4, <4>6, <4>7
    <3> QED BY <1>2, <3>1, <3>2
  <2>3. ConfigTypes' /\ OneWriter'
    BY <2>1, <2>2 DEF ConfigTypes, OneWriter
  <2>4. ~Trusted' /\ ~Heard'
    BY <2>1 DEF Trusted, Heard
  <2> QED BY <2>3, <2>4 DEF EntriesHeld, ProcessesTold
<1> QED BY <1>1, <1>2

\* Entries go, by their time to live or by a message.
LEMMA DroppedKeeps ==
    ASSUME ConfigInv, cache' = [e \in Config!Entries |-> cache'[e]],
           \A e \in Config!Entries :
              \/ cache'[e] = {}
              \/ cache'[e] = cache[e] /\ (e \in stranded => e \in stranded'),
           wire' \in [Process -> Seq(Message)],
           level' \in [Process -> [Config!Place -> SUBSET Value]],
           UNCHANGED <<item, reader, writer, listening, marred>>,
           \A p \in Process : \A q \in Config!Place : \A v :
              Newest(p, q, v) /\ v # {} => Newest(p, q, v)'
    PROVE  ConfigInv'
<1> USE DEF ConfigInv
<1>1. ConfigTypes' /\ OneWriter'
  BY DEF ConfigTypes, OneWriter, Busy
<1>2. EntriesHeld'
  <2>1. SUFFICES ASSUME Trusted' PROVE EntriesHeld'
    BY DEF EntriesHeld
  <2>2. Trusted
    BY <2>1 DEF Trusted
  <2>3. \A e \in Config!Entries \ stranded' :
           Config!Agrees(e)' \/ \E w \in Writer : Due(w, e)'
    <3>1. \A e \in Config!Entries :
             /\ cache'[e] = {} => Config!Agrees(e)'
             /\ cache'[e] = cache[e] /\ Config!Agrees(e) => Config!Agrees(e)'
      BY SameRows DEF Config!Agrees
    <3>2. \A w \in Writer : \A e : Due(w, e)' = Due(w, e)
      BY DEF Due
    <3> QED BY <2>2, <3>1, <3>2 DEF EntriesHeld
  <2> QED BY <2>2, <2>3, SameRows DEF EntriesHeld
<1>3. ProcessesTold'
  <2>1. ASSUME NEW q \in Config!Place, NEW p \in Process,
               Config!Current(q) # {}, Newest(p, q, Config!Current(q))
        PROVE  Newest(p, q, Config!Current(q))'
    <3>1. PICK v : v = Config!Current(q)
      OBVIOUS
    <3>2. v = Config!Current(q)'
      BY <3>1, SameRows
    <3> QED BY <2>1, <3>1, <3>2
  <2> QED BY <2>1, SameRows DEF ProcessesTold, Heard, Busy
<1> QED BY <1>1, <1>2, <1>3

LEMMA ExpireKeeps ==
    ASSUME ConfigInv, NEW e \in Config!Entries, Config!Expire(e)
    PROVE  ConfigInv'
<1>1. /\ cache' = [cache EXCEPT ![e] = {}] /\ stranded' = stranded \ {e}
      /\ UNCHANGED <<item, reader, writer, wire, listening, level, marred>>
  BY DEF Config!Expire
<1>2. \A p, q, v : Newest(p, q, v)' = Newest(p, q, v)
  BY <1>1 DEF Newest
<1> QED BY <1>1, <1>2, DroppedKeeps DEF ConfigInv, ConfigTypes

LEMMA OnBroadcastKeeps ==
    ASSUME ConfigInv, NEW p \in Process, Config!OnBroadcast(p) PROVE ConfigInv'
<1> USE DEF ConfigInv, ConfigTypes
<1>1. PICK m : m = Head(wire[p])
  OBVIOUS
<1>2. /\ wire[p] # <<>> /\ wire' = [wire EXCEPT ![p] = Tail(@)]
      /\ Config!Tell(p, m.place, m.told)
      /\ cache' = [e \in Config!Entries |->
                     IF e \in Config!Cleared(m.place) THEN {} ELSE cache[e]]
      /\ stranded' = stranded \ Config!Cleared(m.place)
      /\ UNCHANGED <<item, reader, writer, listening, marred>>
  BY <1>1 DEF Config!OnBroadcast
<1>3. /\ Tail(wire[p]) \in Seq(Message) /\ Len(wire[p]) \in Nat
      /\ Len(wire[p]) >= 1 /\ wire[p][1] = m /\ m \in Message
      /\ Len(Tail(wire[p])) = Len(wire[p]) - 1
      /\ \A n \in 1..(Len(wire[p]) - 1) : Tail(wire[p])[n] = wire[p][n + 1]
  BY <1>1, <1>2, TailMessage
<1>4. /\ wire' \in [Process -> Seq(Message)] /\ wire'[p] = Tail(wire[p])
      /\ \A x \in Process \ {p} : wire'[x] = wire[x]
  BY <1>2, <1>3
<1>5. /\ level' \in [Process -> [Config!Place -> SUBSET Value]]
      /\ \A x \in Process \ {p} : level'[x] = level[x]
      /\ \A q \in Config!Place : q # m.place => level'[p][q] = level[p][q]
      /\ m.told # {} => level'[p][m.place] = m.told
  <2>1. m.place \in Config!Place /\ m.told \in SUBSET Value
    BY <1>3 DEF Message
  <2>2. CASE m.told = {}
    BY <1>2, <2>2 DEF Config!Tell
  <2>3. CASE m.told # {}
    <3>1. level' = [level EXCEPT ![p] = [@ EXCEPT ![m.place] = m.told]]
      BY <1>2, <2>3 DEF Config!Tell
    <3> QED BY <2>1, <2>3, <3>1
  <2> QED BY <2>2, <2>3
<1>6. ASSUME NEW x \in Process, NEW q \in Config!Place, NEW v,
             Newest(x, q, v), v # {}
      PROVE  Newest(x, q, v)'
  <2> HIDE DEF ConfigInv, ConfigTypes
  <2>1. CASE x # p
    <3>1. wire'[x] = wire[x] /\ level'[x] = level[x]
      BY <1>4, <1>5, <2>1
    <3> QED BY <1>6, <3>1 DEF Newest
  <2>2. CASE x = p /\ \A n \in 1..Len(wire[p]) : wire[p][n].place # q
    <3>1. m.place # q
      BY <1>3, <2>2
    <3>2. \A n \in 1..Len(wire'[p]) : n + 1 \in 1..Len(wire[p])
                                      /\ wire'[p][n] = wire[p][n + 1]
      BY <1>3, <1>4
    <3>3. level[p][q] = v
      BY <1>6, <2>2 DEF Newest
    <3> QED BY <1>5, <2>2, <3>1, <3>2, <3>3 DEF Newest
  <2>3. CASE x = p /\ ~\A n \in 1..Len(wire[p]) : wire[p][n].place # q
    <3>1. PICK n \in 1..Len(wire[p]) :
             /\ wire[p][n].place = q /\ wire[p][n].told = v
             /\ \A k \in 1..Len(wire[p]) : k > n => wire[p][k].place # q
      BY <1>6, <2>3 DEF Newest
    <3>2. \A k \in 1..Len(wire'[p]) : k + 1 \in 1..Len(wire[p])
                                      /\ wire'[p][k] = wire[p][k + 1]
      BY <1>3, <1>4
    <3>3. CASE n = 1
      <4>1. m.place = q /\ m.told = v
        BY <1>3, <3>1, <3>3
      <4>2. \A k \in 1..Len(wire'[p]) : wire'[p][k].place # q
        BY <1>3, <3>1, <3>2, <3>3
      <4> QED BY <1>5, <1>6, <2>3, <4>1, <4>2 DEF Newest
    <3>4. CASE n # 1
      <4>1. n - 1 \in 1..Len(wire'[p]) /\ wire'[p][n - 1] = wire[p][n]
        BY <1>3, <1>4, <3>4
      <4>2. \A k \in 1..Len(wire'[p]) : k > n - 1 => wire'[p][k].place # q
        BY <1>3, <1>4, <3>1, <3>2
      <4> QED BY <2>3, <3>1, <4>1, <4>2 DEF Newest
    <3> QED BY <3>3, <3>4
  <2> QED BY <2>1, <2>2, <2>3
<1> QED BY <1>2, <1>4, <1>5, <1>6, DroppedKeeps

LEMMA ListenerEndsKeeps ==
    ASSUME ConfigInv, NEW p \in Process, Config!ListenerEnds(p)
    PROVE  ConfigInv'
<1> USE DEF ConfigInv
<1>1. /\ wire' = [wire EXCEPT ![p] = <<>>] /\ marred' = marred \cup {"deaf"}
      /\ UNCHANGED <<item, cache, reader, writer, level, stranded>>
  BY DEF Config!ListenerEnds
<1>2. wire' \in [Process -> Seq(Message)]
  BY <1>1 DEF ConfigTypes
<1>3. ConfigTypes' /\ OneWriter'
  BY <1>1, <1>2 DEF ConfigTypes, OneWriter, Busy
<1>4. EntriesHeld'
  BY <1>1, SameRows DEF EntriesHeld, Trusted, Due, Config!Agrees
<1>5. ProcessesTold'
  BY <1>1 DEF ProcessesTold, Heard
<1> QED BY <1>3, <1>4, <1>5

LEMMA ConfigStep == ConfigInv /\ [Config!Next]_configVars => ConfigInv'
<1> SUFFICES ASSUME ConfigInv, [Config!Next]_configVars PROVE ConfigInv'
  OBVIOUS
<1>1. CASE UNCHANGED configVars
  BY <1>1, DroppedKeeps DEF configVars, ConfigInv, ConfigTypes, Newest
<1> QED BY <1>1, ReadLoadKeeps, ReadFillKeeps, ChangeReadKeeps,
           ChangeSaveKeeps, PerformCreateKeeps, SetPutKeeps, InvalidateKeeps,
           NotifySelfKeeps, BroadcastKeeps, CategoryKeeps, ExpireKeeps,
           OnBroadcastKeeps, ListenerEndsKeeps
        DEF Config!Next, Config!WriterStep

LEMMA ConfigFollows == ConfigInv => Config!ConfigAgrees
<1> SUFFICES ASSUME ConfigInv,
                    \A w \in Writer : writer[w].pc \in {"idle", "save"}
             PROVE  /\ Trusted => \A e \in Config!Entries \ stranded :
                                     Config!Agrees(e)
                    /\ Heard => \A p \in Process, q \in Config!Place :
                          wire[p] = <<>> /\ Config!Current(q) # {}
                          => level[p][q] = Config!Current(q)
  BY DEF Config!ConfigAgrees, Trusted, Heard
<1>1. \A w \in Writer : ~Busy(w) /\ \A e : ~Due(w, e)
  BY DEF Busy, Due
<1>2. \A p \in Process : wire[p] = <<>> => Len(wire[p]) = 0
  OBVIOUS
<1>3. \A p \in Process : \A q, v : wire[p] = <<>> /\ Newest(p, q, v) =>
         level[p][q] = v
  BY <1>2 DEF Newest
<1> QED BY <1>1, <1>3 DEF ConfigInv, EntriesHeld, ProcessesTold

LEMMA ConfigSteps ==
    ASSUME part = "config", [Next]_vars
    PROVE  [Config!Next]_configVars
BY DEF Next, vars, configVars

\* Between changes the cached forms agree with the database, apart from the
\* entries of a place an item was moved from, and every process was or will be
\* told the value of each item, apart from the named causes, for any number
\* of items, places, readers, writers and processes.
\* Code: ConfigCache, ConfigItemViewSet, config_broadcast, config_subscribers.
ConfigHeld == part = "config" => ConfigInv
THEOREM ConfigHolds == Spec => []ConfigAgrees
<1>1. Init => ConfigHeld
  BY ConfigInit DEF Init, ConfigHeld
<1>2. ConfigHeld /\ [Next]_vars => ConfigHeld'
  BY PartStays, ConfigSteps, ConfigStep DEF ConfigHeld
<1>3. ConfigHeld => ConfigAgrees
  BY ConfigFollows DEF ConfigHeld, ConfigAgrees
<1> QED BY <1>1, <1>2, <1>3, PTL DEF Spec

-----------------------------------------------------------------------------
(* The documents of a knowledge base, their chunks and their vectors.        *)

Early  == {"parse", "extract", "index", "add"}
Late   == {"replace", "create"}
Stages == Early \cup Late \cup {"ready"}
DocAt == [there : BOOLEAN, kind : {"file", "note", "export"},
          status : {"pending", "parsing", "chunking", "indexing", "ready",
                    "error"}]
Pcs == {"rest", "clear", "next"} \cup Stages
JobAt == [pc : Pcs, doc : Doc \cup {Knowledge!None},
          parts : 1..2, all : BOOLEAN, list : [Doc -> SUBSET (0..2)],
          left : SUBSET Doc]
\* What a task's place says, whatever the documents are.
Placed(q) ==
    /\ q.pc = "rest" => q = Knowledge!AtRest
    /\ ~q.all =>
           q.left = {} /\ q.pc \notin {"clear", "next"}
    /\ q.pc = "clear" => q.left = {}
    /\ q.pc \in {"rest", "clear", "next"} => q.doc = Knowledge!None
    /\ q.pc \in Stages => q.doc \in Doc
KbTypes ==
    /\ doc \in [Doc -> DocAt] /\ rows \in [Doc -> SUBSET (0..2)]
    /\ vec \in [Doc -> SUBSET (1..2)] /\ job \in [Worker -> JobAt]
    /\ spoilt \subseteq Doc
    /\ \A w \in Worker : Placed(job[w])

\* Only files are queued by themselves, a document that was never written has
\* no chunks, and one that was keeps its kind.
DocsKnown ==
    /\ \A d \in Doc \cap indexQueue : doc[d].kind = "file"
    /\ \A d \in Doc : rows[d] # {} => doc[d].there
    /\ \A d \in Doc : ~doc[d].there /\ d \notin deleted => d \notin indexQueue

\* The tasks at a document nothing has spoilt find it, and those that have
\* split it have done so alike.
AgreesOn(w, d) ==
    /\ job[w].pc \in Stages /\ job[w].doc = d => doc[d].there
    /\ job[w].pc \in {"parse", "extract"} /\ job[w].doc = d =>
          doc[d].kind = "file"
    /\ d \in job[w].left => doc[d].there
Alike(d) == \A v, w \in Worker :
    Knowledge!Splits(v, d) /\ Knowledge!Splits(w, d) =>
        job[v].parts = job[w].parts

Agree == \A d \in Doc \ spoilt :
             (\A w \in Worker : AgreesOn(w, d)) /\ Alike(d)

\* A task will write the vectors and rows of d again; otherwise those who will
\* write rows have written the vectors.
Rewrites(w, d) == \/ d \in job[w].left
                  \/ job[w].doc = d /\ job[w].pc \in Early
HeldIn(d) ==
    \/ \E w \in Worker : Rewrites(w, d)
    \/ /\ \/ rows[d] \ {0} \subseteq vec[d]
          \/ \E w \in Worker : job[w].doc = d /\ job[w].pc = "replace"
       /\ \A w \in Worker : job[w].doc = d /\ job[w].pc \in Late =>
             1..job[w].parts \subseteq vec[d]
IndexHeld == \A d \in Doc \ spoilt : HeldIn(d)

IndexInv == KbTypes /\ DocsKnown /\ Agree /\ IndexHeld

LEMMA KbRest ==
    /\ Knowledge!AtRest \in JobAt
    /\ Placed(Knowledge!AtRest)
    /\ Knowledge!AtRest.pc = "rest"
    /\ ~Knowledge!AtRest.all /\ Knowledge!AtRest.doc = Knowledge!None
    /\ Knowledge!AtRest.left = {}
    /\ \A d \in Doc : Knowledge!AtRest.list[d] = {}
BY DEF Knowledge!AtRest, JobAt, Pcs, Placed, Stages, Early, Late,
   Knowledge!None

LEMMA KbInit == Knowledge!Init => IndexInv
<1> SUFFICES ASSUME Knowledge!Init PROVE IndexInv
  OBVIOUS
<1>1. \A w \in Worker : job[w] = Knowledge!AtRest
  BY DEF Knowledge!Init
<1>2. KbTypes
  BY <1>1, KbRest DEF Knowledge!Init, KbTypes, Knowledge!NoDoc, DocAt
<1>3. DocsKnown
  BY DEF Knowledge!Init, DocsKnown
<1>4. Agree
  BY <1>1, KbRest DEF Agree, AgreesOn, Alike, Knowledge!Splits, Stages, Early,
     Late
<1>5. IndexHeld
  BY <1>1, KbRest DEF Knowledge!Init, IndexHeld, HeldIn, Late
<1> QED BY <1>2, <1>3, <1>4, <1>5 DEF IndexInv

\* Nobody is at work on a document that is not busy.
LEMMA NotBusy ==
    ASSUME KbTypes, NEW d \in Doc, ~Knowledge!Busy(d), NEW w \in Worker
    PROVE  /\ d \notin job[w].left
           /\ job[w].doc = d => job[w].pc \notin Stages
<1>1. Placed(job[w])
  BY DEF KbTypes
<1>2. CASE job[w].pc = "rest"
  BY <1>1, <1>2, KbRest DEF Placed, Stages, Early, Late
<1>3. CASE job[w].pc # "rest"
  BY <1>1, <1>3, KbRest DEF Placed, Knowledge!Busy, Stages, Early, Late
<1> QED BY <1>2, <1>3

\* A document is written for the first time.
LEMMA FreshKeeps ==
    ASSUME IndexInv, NEW d \in Doc, ~doc[d].there, d \notin deleted,
           NEW new \in DocAt, doc' = [doc EXCEPT ![d] = new], new.there,
           indexQueue' = indexQueue
               \/ (indexQueue' = indexQueue \cup {d} /\ new.kind = "file"),
           vec' \in [Doc -> SUBSET (1..2)],
           \A e \in Doc \ {d} : vec'[e] = vec[e],
           UNCHANGED <<rows, job, spoilt, deleted>>
    PROVE  IndexInv'
<1> USE DEF IndexInv
<1>1. /\ doc' \in [Doc -> DocAt] /\ doc'[d] = new
      /\ \A e \in Doc \ {d} : doc'[e] = doc[e]
  BY DEF KbTypes
<1>2. KbTypes'
  BY <1>1 DEF KbTypes
<1>3. DocsKnown'
  BY <1>1 DEF DocsKnown
<1>4. \A w \in Worker : d \notin spoilt =>
         /\ d \notin job[w].left
         /\ job[w].pc \in Stages => job[w].doc # d
  BY DEF Agree, AgreesOn
<1>5. Agree'
  <2>1. ASSUME NEW w \in Worker, NEW e \in Doc \ spoilt, e # d
        PROVE  AgreesOn(w, e)'
    BY <1>1, <2>1 DEF Agree, AgreesOn
  <2>2. ASSUME NEW w \in Worker, d \notin spoilt PROVE AgreesOn(w, d)'
    BY <1>4, <2>2 DEF AgreesOn, Stages, Early, Late
  <2>3. \A e \in Doc \ spoilt : Alike(e)'
    BY DEF Agree, Alike, Knowledge!Splits
  <2> QED BY <2>1, <2>2, <2>3 DEF Agree
<1>6. IndexHeld'
  <2>1. ASSUME NEW e \in Doc \ spoilt, e # d PROVE HeldIn(e)'
    BY <2>1 DEF IndexHeld, HeldIn, Rewrites
  <2>2. ASSUME d \notin spoilt PROVE HeldIn(d)'
    <3>1. rows[d] = {}
      BY DEF DocsKnown
    <3> QED BY <1>4, <2>2, <3>1 DEF HeldIn, Stages, Late
  <2> QED BY <2>1, <2>2 DEF IndexHeld
<1> QED BY <1>2, <1>3, <1>5, <1>6

LEMMA CreateKeeps ==
    ASSUME IndexInv,
           NEW d \in Doc, Knowledge!Upload(d) \/ Knowledge!CreateNote(d)
               \/ Knowledge!AddKnowledge(d)
    PROVE  IndexInv'
<1> USE DEF IndexInv
<1>1. doc[d] \in DocAt /\ doc \in [Doc -> DocAt]
      /\ vec \in [Doc -> SUBSET (1..2)]
  BY DEF KbTypes
<1>2. CASE Knowledge!Upload(d)
  <2> DEFINE new == [Knowledge!NoDoc EXCEPT !.there = TRUE, !.kind = "file",
                                  !.status = "pending"]
  <2>1. new \in DocAt /\ new.there /\ new.kind = "file"
    <3>1. Knowledge!NoDoc \in DocAt
      BY DEF Knowledge!NoDoc, DocAt
    <3> QED BY <3>1 DEF DocAt
  <2>2. doc' = [doc EXCEPT ![d] = new]
    BY <1>2 DEF Knowledge!Upload
  <2> HIDE DEF new
  <2> QED BY <1>1, <1>2, <2>1, <2>2, FreshKeeps DEF Knowledge!Upload
<1>3. CASE Knowledge!CreateNote(d)
  <2> DEFINE new == [doc[d] EXCEPT !.there = TRUE]
  <2>1. new \in DocAt /\ new.there
    BY <1>1 DEF DocAt
  <2>2. doc' = [doc EXCEPT ![d] = new]
    BY <1>1, <1>3 DEF Knowledge!CreateNote
  <2> HIDE DEF new
  <2> QED BY <1>1, <1>3, <2>1, <2>2, FreshKeeps DEF Knowledge!CreateNote
<1>4. CASE Knowledge!AddKnowledge(d)
  <2>1. PICK n \in 1..2, stored \in BOOLEAN :
           /\ doc' = [doc EXCEPT ![d] = [Knowledge!NoDoc EXCEPT !.there = TRUE,
                                                       !.kind = "export"]]
           /\ vec' = IF stored THEN [vec EXCEPT ![d] = 1..n] ELSE vec
    BY <1>4 DEF Knowledge!AddKnowledge
  <2> DEFINE new == [Knowledge!NoDoc EXCEPT !.there = TRUE, !.kind = "export"]
  <2>2. new \in DocAt /\ new.there
    BY DEF Knowledge!NoDoc, DocAt
  <2>3. 1..n \in SUBSET (1..2)
    OBVIOUS
  <2> HIDE DEF new
  <2>4. vec' \in [Doc -> SUBSET (1..2)] /\ \A e \in Doc \ {d} :
            vec'[e] = vec[e]
    BY <1>1, <2>1, <2>3
  <2> QED BY <1>4, <2>1, <2>2, <2>4, FreshKeeps DEF Knowledge!AddKnowledge, new
<1> QED BY <1>2, <1>3, <1>4

\* A document is edited while nobody is at work on it, or is spoilt.
LEMMA EditedKeeps ==
    ASSUME IndexInv, NEW d \in Doc,
           spoilt \subseteq spoilt', spoilt' \subseteq spoilt \cup {d},
           d \notin spoilt' => ~Knowledge!Busy(d),
           doc' \in [Doc -> DocAt], rows' \in [Doc -> SUBSET (0..2)],
           vec' \in [Doc -> SUBSET (1..2)],
           \A e \in Doc \ {d} : /\ doc'[e] = doc[e] /\ rows'[e] = rows[e]
                                /\ vec'[e] = vec[e],
           doc'[d].kind = doc[d].kind,
           rows[d] \ {0} \subseteq vec[d] =>
               rows'[d] \ {0} \subseteq vec'[d],
           rows'[d] # {} => doc'[d].there,
           doc'[d].there = doc[d].there \/ d \in deleted',
           deleted \subseteq deleted', deleted' \subseteq deleted \cup {d},
           UNCHANGED <<job, indexQueue>>
    PROVE  IndexInv'
<1> USE DEF IndexInv
<1>1. spoilt \subseteq spoilt' /\ spoilt' \subseteq spoilt \cup {d}
      /\ (d \notin spoilt' => ~Knowledge!Busy(d))
  OBVIOUS
<1>2. KbTypes'
  BY <1>1 DEF KbTypes
<1>3. DocsKnown'
  BY DEF DocsKnown
<1>4. d \notin spoilt' => \A w \in Worker :
         d \notin job[w].left /\ (job[w].doc = d => job[w].pc \notin Stages)
  BY <1>1, NotBusy
<1>5. Agree'
  <2>1. ASSUME NEW e \in Doc \ spoilt', NEW w \in Worker
        PROVE  AgreesOn(w, e)'
    <3>1. CASE e = d
      BY <1>4, <2>1, <3>1 DEF AgreesOn, Stages, Early, Late
    <3>2. CASE e # d
      BY <1>1, <2>1, <3>2 DEF Agree, AgreesOn
    <3> QED BY <3>1, <3>2
  <2>2. \A e \in Doc \ spoilt' : Alike(e)'
    BY <1>1 DEF Agree, Alike, Knowledge!Splits
  <2> QED BY <2>1, <2>2 DEF Agree
<1>6. IndexHeld'
  <2>1. ASSUME NEW e \in Doc \ spoilt', e # d PROVE HeldIn(e)'
    BY <1>1, <2>1 DEF IndexHeld, HeldIn, Rewrites
  <2>2. ASSUME d \notin spoilt' PROVE HeldIn(d)'
    BY <1>1, <1>4, <2>2 DEF IndexHeld, HeldIn, Rewrites, Stages, Early, Late
  <2> QED BY <2>1, <2>2 DEF IndexHeld
<1> QED BY <1>2, <1>3, <1>5, <1>6

LEMMA EditKeeps ==
    ASSUME IndexInv, NEW d \in Doc,
           \/ Knowledge!DestroyChunks(d) \/ Knowledge!DestroyDocument(d)
           \/ \E i \in 1..2 : Knowledge!DeleteChunk(d, i)
                              \/ Knowledge!MoveChunk(d, i)
    PROVE  IndexInv'
<1> USE DEF IndexInv
<1>1. /\ doc \in [Doc -> DocAt] /\ rows \in [Doc -> SUBSET (0..2)]
      /\ vec \in [Doc -> SUBSET (1..2)] /\ doc[d] \in DocAt
      /\ rows[d] # {} => doc[d].there
  BY DEF KbTypes, DocsKnown
<1>2. Knowledge!Spoil(d) =>
         /\ spoilt \subseteq spoilt' /\ spoilt' \subseteq spoilt \cup {d}
         /\ d \notin spoilt' => ~Knowledge!Busy(d)
  BY DEF Knowledge!Spoil
<1>3. CASE Knowledge!DestroyChunks(d)
  BY <1>1, <1>2, <1>3, EditedKeeps DEF Knowledge!DestroyChunks
<1>4. CASE Knowledge!DestroyDocument(d)
  <2> DEFINE new == [doc[d] EXCEPT !.there = FALSE]
  <2>1. new \in DocAt /\ new.kind = doc[d].kind
    BY <1>1 DEF DocAt
  <2>2. doc' = [doc EXCEPT ![d] = new]
    BY <1>1, <1>4 DEF Knowledge!DestroyDocument
  <2> HIDE DEF new
  <2> QED BY <1>1, <1>2, <1>4, <2>1, <2>2, EditedKeeps
          DEF Knowledge!DestroyDocument
<1>5. ASSUME NEW i \in 1..2, Knowledge!DeleteChunk(d, i) PROVE IndexInv'
  BY <1>1, <1>2, <1>5, EditedKeeps DEF Knowledge!DeleteChunk
<1>6. ASSUME NEW i \in 1..2, Knowledge!MoveChunk(d, i) PROVE IndexInv'
  BY <1>1, <1>6, EditedKeeps DEF Knowledge!MoveChunk
<1> QED BY <1>3, <1>4, <1>5, <1>6

\* More vectors, rows without one, another status, or more messages.
LEMMA MoreKeeps ==
    ASSUME IndexInv,
           \/ Knowledge!Reindex
           \/ \E d \in Doc : \/ Knowledge!EditDocument(d)
                             \/ Knowledge!CreateChunk(d)
                             \/ \E i \in 1..2 : Knowledge!UpdateChunk(d, i)
    PROVE  IndexInv'
<1> USE DEF IndexInv
<1>1. /\ UNCHANGED <<job, spoilt, deleted>>
      /\ indexQueue' = indexQueue \/ indexQueue' = indexQueue \cup {"all"}
      /\ vec' \in [Doc -> SUBSET (1..2)] /\ rows' \in [Doc -> SUBSET (0..2)]
      /\ \A e \in Doc : /\ vec[e] \subseteq vec'[e]
                        /\ rows'[e] \ {0} \subseteq rows[e]
                        /\ rows'[e] # {} => doc[e].there
  BY DEF Knowledge!Reindex, Knowledge!UpdateChunk, Knowledge!CreateChunk,
     Knowledge!EditDocument, KbTypes, DocsKnown
<1>2. /\ doc' \in [Doc -> DocAt]
      /\ \A e \in Doc :
            doc'[e].kind = doc[e].kind /\ doc'[e].there = doc[e].there
  <2>1. ASSUME NEW d \in Doc, Knowledge!EditDocument(d)
        PROVE  /\ doc' \in [Doc -> DocAt]
               /\ \A e \in Doc : /\ doc'[e].kind = doc[e].kind
                                 /\ doc'[e].there = doc[e].there
    <3>1. PICK status \in {"pending", "ready", "error"} :
             doc' = [doc EXCEPT ![d].status = status]
      BY <2>1 DEF Knowledge!EditDocument, Knowledge!Saved
    <3> DEFINE row == [doc[d] EXCEPT !.status = status]
    <3>2. doc' = [doc EXCEPT ![d] = row] /\ doc[d] \in DocAt
      BY <3>1 DEF KbTypes
    <3>3. row \in DocAt /\ row.kind = doc[d].kind /\ row.there = doc[d].there
      BY <3>2 DEF DocAt
    <3> HIDE DEF row
    <3> QED BY <3>2, <3>3 DEF KbTypes
  <2>2. CASE doc' = doc
    BY <2>2 DEF KbTypes
  <2> QED BY <2>1, <2>2 DEF Knowledge!Reindex, Knowledge!UpdateChunk,
             Knowledge!CreateChunk
<1>3. KbTypes' /\ DocsKnown'
  BY <1>1, <1>2, DocNames DEF KbTypes, DocsKnown
<1>4. Agree'
  BY <1>1, <1>2 DEF Agree, AgreesOn, Alike, Knowledge!Splits
<1>5. ASSUME NEW e \in Doc \ spoilt PROVE HeldIn(e)'
  <2>1. HeldIn(e) /\ rows'[e] \ {0} \subseteq rows[e] \ {0}
    BY <1>1, <1>5 DEF IndexHeld
  <2>2. vec[e] \subseteq vec'[e]
    BY <1>1, <1>5
  <2> QED BY <1>1, <2>1, <2>2 DEF HeldIn, Rewrites
<1> QED BY <1>1, <1>3, <1>4, <1>5 DEF IndexHeld

-----------------------------------------------------------------------------
(* Tasks.                                                                  *)

\* A step of a worker changes its own place.
LEMMA JobPlace ==
    ASSUME KbTypes, NEW w \in Worker, NEW new \in JobAt, Placed(new),
           job' = [job EXCEPT ![w] = new]
    PROVE  /\ job' \in [Worker -> JobAt] /\ job'[w] = new
           /\ \A v \in Worker \ {w} : job'[v] = job[v]
           /\ (\A v \in Worker : Placed(job[v]))'
BY DEF KbTypes, Placed

\* A worker splits a document as those have that are at it.
Fits(w, d) == Knowledge!Splits(w, d)' =>
    \A v \in Worker \ {w} :
        Knowledge!Splits(v, d) => job[v].parts = job'[w].parts

\* A step that neither writes nor drops chunks and vectors.
LEMMA MovesKeeps ==
    ASSUME IndexInv, NEW w \in Worker, NEW new \in JobAt, Placed(new),
           job' = [job EXCEPT ![w] = new], new.pc \notin Late,
           doc' \in [Doc -> DocAt], spoilt \subseteq spoilt',
           spoilt' \subseteq Doc, indexQueue' \subseteq indexQueue,
           \A d \in Doc :
              /\ doc'[d].kind = doc[d].kind
              /\ doc[d].there => doc'[d].there
              /\ doc'[d].there \/ d \in deleted' \/
                    (~doc[d].there /\ d \notin deleted),
           \A d \in Doc \ spoilt' :
              /\ Fits(w, d) /\ AgreesOn(w, d)'
              /\ Rewrites(w, d) => Rewrites(w, d)'
              /\ job[w].pc = "replace" => job[w].doc # d,
           UNCHANGED <<rows, vec>>
    PROVE  IndexInv'
<1> USE DEF IndexInv
<1>1. /\ job' \in [Worker -> JobAt] /\ job'[w] = new
      /\ \A v \in Worker \ {w} : job'[v] = job[v]
      /\ (\A v \in Worker : Placed(job[v]))'
  BY JobPlace
<1>2. KbTypes'
  BY <1>1 DEF KbTypes
<1>3. DocsKnown'
  BY DEF DocsKnown
<1>4. Agree'
  <2>1. ASSUME NEW v \in Worker \ {w}, NEW d \in Doc \ spoilt'
        PROVE  AgreesOn(v, d)'
    <3>1. AgreesOn(v, d)
      BY <2>1 DEF Agree
    <3> QED BY <1>1, <2>1, <3>1 DEF AgreesOn
  <2>2. ASSUME NEW d \in Doc \ spoilt' PROVE Alike(d)'
    <3>1. Alike(d) /\ Fits(w, d)
      BY <2>2 DEF Agree
    <3>2. \A v \in Worker \ {w} :
             Knowledge!Splits(v, d)' = Knowledge!Splits(v, d)
      BY <1>1 DEF Knowledge!Splits
    <3> QED BY <1>1, <3>1, <3>2 DEF Alike, Fits
  <2> QED BY <2>1, <2>2 DEF Agree
<1>5. ASSUME NEW d \in Doc \ spoilt' PROVE HeldIn(d)'
  <2>1. HeldIn(d)
    BY <1>5 DEF IndexHeld
  <2>2. \A v \in Worker : Rewrites(v, d) => Rewrites(v, d)'
    BY <1>1, <1>5 DEF Rewrites
  <2>3. \A v \in Worker : /\ job'[v].pc \in Late => job'[v] = job[v]
                          /\ job[v].pc = "replace" /\ job[v].doc = d =>
                                job'[v] = job[v]
    BY <1>1, <1>5 DEF Late
  <2>4. CASE \E v \in Worker : Rewrites(v, d)
    BY <2>2, <2>4 DEF HeldIn
  <2>5. CASE ~\E v \in Worker : Rewrites(v, d)
    BY <2>1, <2>3, <2>5 DEF HeldIn, Late
  <2> QED BY <2>4, <2>5
<1> QED BY <1>2, <1>3, <1>4, <1>5 DEF IndexHeld

\* A place at work.
LEMMA Went ==
    ASSUME KbTypes, NEW w \in Worker, NEW pc \in Stages, job[w].pc \in Stages,
           NEW new, new = [job[w] EXCEPT !.pc = pc]
    PROVE  /\ new \in JobAt /\ Placed(new) /\ new.pc = pc
           /\ new.doc = job[w].doc /\ new.left = job[w].left
           /\ new.parts = job[w].parts /\ new.doc \in Doc
<1>1. job[w] \in JobAt /\ Placed(job[w])
  BY DEF KbTypes
<1>2. /\ new \in JobAt /\ new.pc = pc /\ new.doc = job[w].doc
      /\ new.left = job[w].left /\ new.parts = job[w].parts
      /\ new.all = job[w].all
  BY <1>1 DEF JobAt, Pcs
<1> QED BY <1>1, <1>2 DEF Placed, Stages, Early, Late

LEMMA ParseKeeps ==
    ASSUME IndexInv, NEW w \in Worker, Knowledge!Parse(w) \/ Knowledge!Index(w)
    PROVE  IndexInv'
<1> USE DEF IndexInv
<1> DEFINE d == job[w].doc
<1>1. PICK pc \in {"extract", "add"}, status \in {"parsing", "indexing",
                                                  "chunking"} :
         /\ job' = [job EXCEPT ![w].pc = pc]
         /\ doc' = [doc EXCEPT ![d].status = status]
         /\ \/ job[w].pc = "parse" /\ pc = "extract"
            \/ job[w].pc = "index" /\ pc = "add"
         /\ doc[d].there
  BY DEF Knowledge!Parse, Knowledge!Index, Knowledge!Go, Knowledge!Saved,
     Knowledge!At
<1> DEFINE new == [job[w] EXCEPT !.pc = pc]
           row == [doc[d] EXCEPT !.status = status]
<1>2. job' = [job EXCEPT ![w] = new]
  BY <1>1 DEF KbTypes
<1>3. pc \in Stages /\ job[w].pc \in Stages
  BY <1>1 DEF Stages, Early, Late
<1>4. /\ new \in JobAt /\ Placed(new) /\ new.pc = pc /\ new.doc = d
      /\ new.left = job[w].left /\ new.parts = job[w].parts /\ d \in Doc
  BY <1>3, Went
<1> HIDE DEF new
<1>5. doc' = [doc EXCEPT ![d] = row] /\ doc[d] \in DocAt
  BY <1>1, <1>4 DEF KbTypes
<1>6. /\ row \in DocAt /\ row.kind = doc[d].kind /\ row.there = doc[d].there
  BY <1>5 DEF DocAt
<1> HIDE DEF row
<1>7. doc' \in [Doc -> DocAt] /\ \A e \in Doc :
         /\ doc'[e].kind = doc[e].kind /\ doc'[e].there = doc[e].there
  BY <1>5, <1>6 DEF KbTypes
<1>8. UNCHANGED <<rows, vec, indexQueue, deleted, spoilt>>
          /\ spoilt \subseteq Doc
  BY DEF Knowledge!Parse, Knowledge!Index, KbTypes
<1>9. job'[w] = new
  BY <1>2 DEF KbTypes
<1>10. ASSUME NEW e \in Doc \ spoilt'
       PROVE  /\ Fits(w, e) /\ AgreesOn(w, e)'
              /\ Rewrites(w, e) => Rewrites(w, e)'
  <2>1. Alike(e) /\ AgreesOn(w, e)
    BY <1>7, <1>8, <1>10 DEF Agree
  <2>4. Fits(w, e)
    BY <1>1, <1>4, <1>9, <2>1 DEF Fits, Alike, Knowledge!Splits
  <2>2. AgreesOn(w, e)'
    BY <1>1, <1>3, <1>4, <1>7, <1>9, <2>1 DEF AgreesOn
  <2>3. Rewrites(w, e) => Rewrites(w, e)'
    BY <1>1, <1>4, <1>9 DEF Rewrites, Early
  <2> QED BY <2>2, <2>3, <2>4
<1>11. new.pc \notin Late /\ job[w].pc # "replace"
  BY <1>1, <1>4 DEF Late
<1>12. \A e \in Doc : \/ doc'[e].there \/ e \in deleted'
                      \/ ~doc[e].there /\ e \notin deleted
  BY <1>7, <1>8
<1> QED BY <1>2, <1>4, <1>7, <1>8, <1>10, <1>11, <1>12, MovesKeeps

\* Who splits a document otherwise than another spoils it.
LEMMA SplitFits ==
    ASSUME NEW w \in Worker, NEW d \in Doc, NEW n, Knowledge!Split(w, d, n),
           job'[w].parts = n, d \notin spoilt', spoilt \subseteq Doc
    PROVE  Fits(w, d)
BY DEF Knowledge!Split, Fits

LEMMA ExtractKeeps ==
    ASSUME IndexInv,
           NEW w \in Worker, Knowledge!Extract(w) \/ Knowledge!SaveReady(w)
    PROVE  IndexInv'
<1> USE DEF IndexInv
<1> DEFINE d == job[w].doc
           new == job'[w]
           row == doc'[d]
<1>1. job[w] \in JobAt /\ Placed(job[w]) /\ job[w].pc \in {"extract", "ready"}
  BY DEF KbTypes, Knowledge!Extract, Knowledge!SaveReady, Knowledge!At
<1>2. d \in Doc /\ doc[d] \in DocAt /\ spoilt \subseteq Doc
  BY <1>1 DEF KbTypes, Placed, Stages, Early, Late
<1>3. PICK n \in 1..2 :
      \/ /\ job[w].pc = "extract" /\ Knowledge!Split(w, d, n)
         /\ new = [job[w] EXCEPT !.pc = "index", !.parts = n]
         /\ row = [doc[d] EXCEPT !.there = TRUE, !.status = "chunking"]
      \/ /\ job[w].pc = "ready" /\ UNCHANGED spoilt
         /\ \/ ~job[w].all /\ new = Knowledge!AtRest
            \/ new = [job[w] EXCEPT !.pc = "next", !.doc = Knowledge!None]
                   /\ job[w].all
         /\ row = [doc[d] EXCEPT !.there = TRUE, !.status = "ready"]
  <2>1. CASE Knowledge!Extract(w)
    BY <1>2, <2>1 DEF Knowledge!Extract, Knowledge!At, KbTypes
  <2>2. CASE Knowledge!SaveReady(w)
    <3>1. 1 \in 1..2
      OBVIOUS
    <3> QED BY <1>2, <2>2, <3>1 DEF Knowledge!SaveReady, Knowledge!Done,
               Knowledge!At, KbTypes
  <2> QED BY <2>1, <2>2
<1>4. /\ job' = [job EXCEPT ![w] = new] /\ doc' = [doc EXCEPT ![d] = row]
      /\ deleted' = deleted \ {d}
      /\ UNCHANGED <<rows, vec, indexQueue>>
      /\ spoilt \subseteq spoilt' /\ spoilt' \subseteq Doc
  BY <1>2 DEF Knowledge!Extract, Knowledge!SaveReady, Knowledge!Done,
     Knowledge!At, KbTypes, Knowledge!Split
<1> HIDE DEF new, row
<1>5. /\ new \in JobAt /\ Placed(new) /\ new.pc \in {"index", "rest", "next"}
      /\ new.pc = "index" <=> job[w].pc = "extract"
      /\ new.pc = "index" => new.parts = n /\ new.doc = d
      /\ new.left = job[w].left
  <2>1. CASE new = [job[w] EXCEPT !.pc = "index", !.parts = n]
             /\ job[w].pc = "extract"
    <3>1. new \in JobAt /\ new.pc = "index" /\ new.parts = n /\ new.doc = d
          /\ new.left = job[w].left /\ new.all = job[w].all
      <4>1. "index" \in Pcs
        BY DEF Pcs, Stages, Early
      <4> QED BY <1>1, <2>1, <4>1 DEF JobAt
    <3> QED BY <1>1, <1>2, <2>1, <3>1 DEF Placed, Stages, Early, Late
  <2>2. CASE ~job[w].all /\ new = Knowledge!AtRest /\ job[w].pc = "ready"
    BY <1>1, <2>2, KbRest DEF Placed
  <2>3. CASE new = [job[w] EXCEPT !.pc = "next", !.doc = Knowledge!None]
             /\ job[w].pc = "ready" /\ job[w].all
    BY <1>1, <2>3 DEF JobAt, Pcs, Placed, Stages, Early, Late
  <2> QED BY <1>3, <2>1, <2>2, <2>3
<1>6. row \in DocAt /\ row.kind = doc[d].kind /\ row.there
  BY <1>2, <1>3 DEF DocAt
<1>7. /\ doc' \in [Doc -> DocAt] /\ doc'[d] = row
      /\ \A e \in Doc \ {d} : doc'[e] = doc[e]
  BY <1>2, <1>4, <1>6 DEF KbTypes
<1>8. job'[w] = new
  BY <1>4 DEF KbTypes
<1>9. ASSUME NEW e \in Doc \ spoilt'
      PROVE  /\ Fits(w, e) /\ AgreesOn(w, e)'
             /\ Rewrites(w, e) => Rewrites(w, e)'
  <2>1. AgreesOn(w, e)
    BY <1>4, <1>9 DEF Agree
  <2>2. Fits(w, e)
    <3>1. CASE new.pc # "index"
      BY <1>5, <1>8, <3>1 DEF Fits, Knowledge!Splits
    <3>2. CASE new.pc = "index" /\ e # d
      BY <1>5, <1>8, <3>2 DEF Fits, Knowledge!Splits
    <3>3. CASE new.pc = "index" /\ e = d
      <4>1. Knowledge!Split(w, d, n) /\ job'[w].parts = n
        BY <1>3, <1>5, <1>8, <3>3
      <4> HIDE DEF d
      <4> QED BY <1>2, <1>9, <3>3, <4>1, SplitFits
    <3> QED BY <3>1, <3>2, <3>3
  <2>4. AgreesOn(w, e)'
    BY <1>5, <1>6, <1>7, <1>8, <1>9, <2>1 DEF AgreesOn, Stages, Early, Late
  <2>5. Rewrites(w, e) => Rewrites(w, e)'
    BY <1>1, <1>5, <1>8 DEF Rewrites, Early
  <2> QED BY <2>2, <2>4, <2>5
<1>10. new.pc \notin Late /\ job[w].pc # "replace"
  BY <1>1, <1>5 DEF Late
<1>11. \A e \in Doc :
         /\ doc'[e].kind = doc[e].kind
         /\ doc[e].there => doc'[e].there
         /\ \/ doc'[e].there \/ e \in deleted'
            \/ ~doc[e].there /\ e \notin deleted
  BY <1>4, <1>6, <1>7
<1> QED BY <1>4, <1>5, <1>7, <1>8, <1>9, <1>10, <1>11, MovesKeeps

LEMMA EndKeeps ==
    ASSUME IndexInv, NEW w \in Worker,
           \/ Knowledge!IndexFails(w) \/ Knowledge!WorkerDies(w)
           \/ Knowledge!ReindexEnd(w)
           \/ \E pc \in {"parse", "extract", "index", "create"} :
                 Knowledge!Gone(w, pc)
    PROVE  IndexInv'
<1> USE DEF IndexInv
<1> DEFINE new == job'[w]
<1>1. job[w] \in JobAt /\ Placed(job[w])
  BY DEF KbTypes
<1>2. /\ job' = [job EXCEPT ![w] = new]
      /\ \/ new = Knowledge!AtRest
         \/ new = [job[w] EXCEPT !.pc = "next", !.doc = Knowledge!None]
                /\ job[w].all
      /\ UNCHANGED <<rows, vec, indexQueue, deleted>>
      /\ spoilt \subseteq spoilt'
  BY DEF Knowledge!IndexFails, Knowledge!WorkerDies, Knowledge!ReindexEnd,
     Knowledge!Gone, Knowledge!Done, KbTypes
<1> HIDE DEF new
<1>3. /\ new \in JobAt /\ Placed(new) /\ new.pc \in {"rest", "next"}
      /\ new.left = {} \/ new.left = job[w].left
  <2>1. CASE new = Knowledge!AtRest
    BY <2>1, KbRest
  <2>2. CASE new = [job[w] EXCEPT !.pc = "next", !.doc = Knowledge!None]
                 /\ job[w].all
    BY <1>1, <2>2 DEF JobAt, Pcs, Placed, Stages, Early, Late
  <2> QED BY <1>2, <2>1, <2>2
<1>4. /\ spoilt' \subseteq Doc
      /\ \A d \in Doc \ spoilt' : /\ job[w].doc # d
                                  /\ d \in new.left <=> d \in job[w].left
  <2>1. CASE Knowledge!IndexFails(w)
    <3>1. /\ spoilt' = spoilt \cup {job[w].doc} /\ job[w].pc \in Stages
          /\ new = Knowledge!AtRest => ~job[w].all
      BY <2>1 DEF Knowledge!IndexFails, Knowledge!Done, KbTypes, Stages, Early,
         Late, Knowledge!AtRest, new
    <3>2. new.left = job[w].left /\ job[w].doc \in Doc
      BY <1>1, <1>2, <3>1, KbRest DEF Placed, JobAt
    <3> QED BY <3>1, <3>2 DEF KbTypes
  <2>2. CASE Knowledge!WorkerDies(w)
    <3>1. job[w].pc # "rest" /\ new = Knowledge!AtRest
          /\ spoilt' = spoilt \cup (IF job[w].all THEN Doc ELSE {job[w].doc})
      BY <2>2 DEF Knowledge!WorkerDies, KbTypes, new
    <3>2. ~job[w].all =>
              job[w].doc \in Doc /\ job[w].left = {}
      BY <1>1, <3>1 DEF Placed, JobAt, Pcs
    <3> QED BY <3>1, <3>2, KbRest DEF KbTypes
  <2>3. CASE Knowledge!ReindexEnd(w)
    BY <1>1, <2>3, KbRest, DocNames DEF Knowledge!ReindexEnd, Knowledge!At,
       Placed, JobAt, KbTypes, new
  <2>4. CASE \E pc \in {"parse", "extract", "index", "create"} :
                Knowledge!Gone(w, pc)
    <3>1. job[w].pc \in Stages /\ new = Knowledge!AtRest
          /\ spoilt' = spoilt \cup (IF job[w].all THEN Doc ELSE {job[w].doc})
      BY <2>4 DEF Knowledge!Gone, Stages, Early, Late, KbTypes, new
    <3>2. job[w].doc \in Doc
              /\ (~job[w].all => job[w].left = {})
      BY <1>1, <3>1 DEF Placed
    <3> QED BY <3>1, <3>2, KbRest DEF KbTypes
  <2> QED BY <2>1, <2>2, <2>3, <2>4
<1>5. /\ doc' \in [Doc -> DocAt]
      /\ \A e \in Doc :
            doc'[e].kind = doc[e].kind /\ doc'[e].there = doc[e].there
  <2>1. CASE doc' = doc
    BY <2>1 DEF KbTypes
  <2>2. CASE Knowledge!IndexFails(w)
    <3> DEFINE d == job[w].doc
               row == [doc[d] EXCEPT !.status = "error"]
    <3>1. d \in Doc
      BY <1>1, <2>2 DEF Knowledge!IndexFails, Placed, Stages, Early, Late
    <3>2. doc' = [doc EXCEPT ![d] = row] /\ doc[d] \in DocAt
      BY <2>2, <3>1 DEF Knowledge!IndexFails, Knowledge!Saved, KbTypes
    <3>3. /\ row \in DocAt /\ row.kind = doc[d].kind
          /\ row.there = doc[d].there
      BY <3>2 DEF DocAt
    <3> HIDE DEF row
    <3> QED BY <3>1, <3>2, <3>3 DEF KbTypes
  <2> QED BY <2>1, <2>2 DEF Knowledge!WorkerDies, Knowledge!ReindexEnd,
             Knowledge!Gone
<1>6. job'[w] = new
  BY DEF new
<1>7. ASSUME NEW d \in Doc \ spoilt'
      PROVE  /\ Fits(w, d) /\ AgreesOn(w, d)'
             /\ Rewrites(w, d) => Rewrites(w, d)'
             /\ job[w].doc # d
  <2>1. AgreesOn(w, d)
    BY <1>2, <1>7 DEF Agree
  <2>2. Fits(w, d)
    BY <1>3, <1>6 DEF Fits, Knowledge!Splits
  <2>3. AgreesOn(w, d)'
    BY <1>3, <1>4, <1>5, <1>6, <1>7, <2>1, <2>2 DEF AgreesOn, Stages, Early,
       Late
  <2>4. Rewrites(w, d) => Rewrites(w, d)'
    BY <1>4, <1>6, <1>7 DEF Rewrites
  <2> QED BY <1>4, <1>7, <2>2, <2>3, <2>4
<1>8. new.pc \notin Late
  BY <1>3 DEF Late
<1>9. \A e \in Doc :
         /\ doc'[e].kind = doc[e].kind
         /\ doc[e].there => doc'[e].there
         /\ \/ doc'[e].there \/ e \in deleted'
            \/ ~doc[e].there /\ e \notin deleted
  BY <1>2, <1>5
<1>10. /\ new \in JobAt /\ Placed(new) /\ job' = [job EXCEPT ![w] = new]
       /\ spoilt \subseteq spoilt' /\ spoilt' \subseteq Doc
       /\ doc' \in [Doc -> DocAt] /\ indexQueue' \subseteq indexQueue
       /\ UNCHANGED <<rows, vec>>
  BY <1>2, <1>3, <1>4, <1>5
<1>11. \A d \in Doc \ spoilt' :
          /\ Fits(w, d) /\ AgreesOn(w, d)'
          /\ Rewrites(w, d) => Rewrites(w, d)'
          /\ job[w].pc = "replace" => job[w].doc # d
  BY <1>7
<1> QED BY <1>8, <1>9, <1>10, <1>11, MovesKeeps

\* A document's turn comes.
LEMMA TakeKeeps ==
    ASSUME IndexInv, NEW w \in Worker, NEW d \in Doc,
           Knowledge!IngestTake(w, d) \/ Knowledge!ReindexNext(w, d)
    PROVE  IndexInv'
<1> USE DEF IndexInv
<1> DEFINE new == job'[w]
<1>1. job[w] \in JobAt /\ Placed(job[w]) /\ spoilt \subseteq Doc
      /\ doc \in [Doc -> DocAt]
  BY DEF KbTypes
<1>2. /\ UNCHANGED <<doc, rows, vec, deleted>>
      /\ indexQueue' \subseteq indexQueue
      /\ spoilt \subseteq spoilt' /\ spoilt' \subseteq Doc
  BY <1>1 DEF Knowledge!IngestTake, Knowledge!ReindexNext, Knowledge!Split
<1>3. CASE job' = job /\ spoilt' = spoilt
  BY <1>2, <1>3 DEF KbTypes, DocsKnown, Agree, AgreesOn, Alike,
     Knowledge!Splits, IndexHeld, HeldIn, Rewrites
<1>4. ASSUME NEW n \in 1..2,
             \/ /\ job[w].pc = "rest" /\ d \in indexQueue /\ doc[d].there
                /\ job' = [job EXCEPT ![w].pc = "parse", ![w].doc = d]
             \/ /\ job[w].pc = "next" /\ d \in job[w].left
                /\ doc[d].kind = "file"
                /\ job' = [job EXCEPT ![w].doc = d, ![w].left = @ \ {d},
                                      ![w].pc = "parse"]
             \/ /\ job[w].pc = "next" /\ d \in job[w].left
                /\ job' = [job EXCEPT ![w].doc = d, ![w].left = @ \ {d},
                                      ![w].parts = n, ![w].pc = "index"]
                /\ Knowledge!Split(w, d, n)
      PROVE  IndexInv'
  <2>1. job' = [job EXCEPT ![w] = new]
    BY <1>4 DEF KbTypes
  <2>2. /\ new \in JobAt /\ new.all = job[w].all /\ new.doc = d
        /\ new.pc \in {"parse", "index"}
        /\ new.pc = "parse" => job[w].pc = "rest" \/ doc[d].kind = "file"
        /\ new.pc = "index" => new.parts = n /\ Knowledge!Split(w, d, n)
        /\ \/ /\ job[w].pc = "rest" /\ d \in indexQueue /\ doc[d].there
              /\ new.left = job[w].left /\ new.pc = "parse"
           \/ /\ job[w].pc = "next" /\ d \in job[w].left
              /\ new.left = job[w].left \ {d}
    <3>1. {"parse", "index"} \subseteq Pcs
      BY DEF Pcs, Stages, Early
    <3>2. CASE /\ job[w].pc = "rest" /\ d \in indexQueue /\ doc[d].there
               /\ job' = [job EXCEPT ![w].pc = "parse", ![w].doc = d]
      <4>1. new = [job[w] EXCEPT !.pc = "parse", !.doc = d]
        BY <3>2 DEF KbTypes
      <4> HIDE DEF new
      <4> QED BY <1>1, <3>1, <3>2, <4>1 DEF JobAt
    <3>3. CASE /\ job[w].pc = "next" /\ d \in job[w].left
               /\ doc[d].kind = "file"
               /\ job' = [job EXCEPT ![w].doc = d, ![w].left = @ \ {d},
                                      ![w].pc = "parse"]
      <4>1. new = [job[w] EXCEPT !.doc = d, !.left = @ \ {d}, !.pc = "parse"]
        BY <3>3 DEF KbTypes
      <4> HIDE DEF new
      <4> QED BY <1>1, <3>1, <3>3, <4>1 DEF JobAt
    <3>4. CASE /\ job[w].pc = "next" /\ d \in job[w].left
               /\ job' = [job EXCEPT ![w].doc = d, ![w].left = @ \ {d},
                                      ![w].parts = n, ![w].pc = "index"]
               /\ Knowledge!Split(w, d, n)
      <4>1. new = [job[w] EXCEPT !.doc = d, !.left = @ \ {d}, !.parts = n,
                                 !.pc = "index"]
        BY <3>4 DEF KbTypes
      <4> HIDE DEF new
      <4> QED BY <1>1, <3>1, <3>4, <4>1 DEF JobAt
    <3> QED BY <1>4, <3>2, <3>3, <3>4
  <2> HIDE DEF new
  <2>3. Placed(new)
    BY <1>1, <2>2, KbRest DEF Placed, Stages, Early
  <2>4. job'[w] = new
    BY DEF new
  <2>5. ASSUME NEW e \in Doc \ spoilt'
        PROVE  /\ Fits(w, e) /\ AgreesOn(w, e)'
               /\ Rewrites(w, e) => Rewrites(w, e)'
    <3>1. AgreesOn(w, e)
      BY <1>2, <2>5 DEF Agree
    <3>2. Fits(w, e)
      <4>1. CASE e = d /\ new.pc = "index"
        BY <1>1, <2>2, <2>4, <2>5, <4>1, SplitFits
      <4>2. CASE e # d \/ new.pc # "index"
        BY <2>2, <2>4, <4>2 DEF Fits, Knowledge!Splits
      <4> QED BY <4>1, <4>2
    <3>3. Rewrites(w, e) => Rewrites(w, e)'
      BY <1>1, <2>2, <2>4, DocNames DEF Rewrites, Placed, Early
    <3>4. AgreesOn(w, e)'
      <4>1. CASE e # d
        BY <1>2, <2>2, <2>4, <3>1, <4>1 DEF AgreesOn
      <4>2. CASE e = d
        <5>1. new.pc = "parse" => doc[d].kind = "file"
          BY <2>2 DEF DocsKnown
        <5>2. doc[d].there
          BY <2>2, <3>1, <4>2 DEF AgreesOn
        <5> QED BY <1>2, <2>2, <2>4, <4>2, <5>1, <5>2 DEF AgreesOn
      <4> QED BY <4>1, <4>2
    <3> QED BY <3>2, <3>3, <3>4
  <2>6. new.pc \notin Late /\ job[w].pc # "replace"
    BY <2>2 DEF Late
  <2>7. \A e \in Doc :
           /\ doc'[e].kind = doc[e].kind
           /\ doc[e].there => doc'[e].there
           /\ \/ doc'[e].there \/ e \in deleted'
              \/ ~doc[e].there /\ e \notin deleted
    BY <1>2
  <2> QED BY <1>1, <1>2, <2>1, <2>2, <2>3, <2>5, <2>6, <2>7, MovesKeeps
<1>5. CASE Knowledge!IngestTake(w, d)
  <2>1. 1 \in 1..2
    OBVIOUS
  <2> QED BY <1>3, <1>4, <1>5, <2>1 DEF Knowledge!IngestTake
<1>6. CASE Knowledge!ReindexNext(w, d)
  <2>1. 1 \in 1..2
    OBVIOUS
  <2> QED BY <1>4, <1>6, <2>1 DEF Knowledge!ReindexNext, Knowledge!At
<1> QED BY <1>5, <1>6

LEMMA ListKeeps ==
    ASSUME IndexInv, NEW w \in Worker, Knowledge!ReindexList(w)
    PROVE  IndexInv'
<1> USE DEF IndexInv
<1> DEFINE new == [Knowledge!AtRest EXCEPT !.pc = "clear", !.all = TRUE,
        !.list = rows]
<1>1. /\ job[w] = Knowledge!AtRest /\ spoilt \subseteq Doc
      /\ doc \in [Doc -> DocAt]
      /\ rows \in [Doc -> SUBSET (0..2)]
  BY DEF KbTypes, Knowledge!ReindexList, Placed
<1>2. /\ UNCHANGED <<doc, rows, vec, spoilt, deleted>>
      /\ indexQueue' \subseteq indexQueue /\ job' = [job EXCEPT ![w] = new]
  BY DEF Knowledge!ReindexList
<1>3. /\ new \in JobAt /\ new.pc = "clear" /\ new.all
      /\ new.doc = Knowledge!None
      /\ new.left = {}
  <2>1. Knowledge!AtRest \in JobAt /\ "clear" \in Pcs
            /\ Knowledge!AtRest.doc = Knowledge!None
            /\ Knowledge!AtRest.left = {}
    BY KbRest DEF Pcs
  <2> QED BY <1>1, <2>1 DEF JobAt
<1>4. Placed(new)
  <2> HIDE DEF new
  <2> QED BY <1>3 DEF Placed, Stages, Early, Late
<1> HIDE DEF new
<1>5. job'[w] = new
  BY <1>2 DEF KbTypes
<1>6. ASSUME NEW e \in Doc \ spoilt'
      PROVE  /\ Fits(w, e) /\ AgreesOn(w, e)'
             /\ Rewrites(w, e) => Rewrites(w, e)'
  BY <1>1, <1>2, <1>3, <1>5, <1>6, KbRest, DocNames DEF Fits,
     Knowledge!Splits, AgreesOn, Rewrites, Stages, Early, Late
<1>7. new.pc \notin Late /\ job[w].pc # "replace"
  BY <1>1, <1>3, KbRest DEF Late
<1>8. \A e \in Doc :
         /\ doc'[e].kind = doc[e].kind
         /\ doc[e].there => doc'[e].there
         /\ \/ doc'[e].there \/ e \in deleted'
            \/ ~doc[e].there /\ e \notin deleted
  BY <1>2
<1> QED BY <1>1, <1>2, <1>3, <1>4, <1>6, <1>7, <1>8, MovesKeeps

\* A step from the vectors to the rows.
LEMMA ChunkStep ==
    ASSUME IndexInv, NEW w \in Worker, NEW pc \in Late \cup {"ready"},
           job' = [job EXCEPT ![w].pc = pc], job[w].pc \in Late \cup {"add"},
           rows' \in [Doc -> SUBSET (0..2)], vec' \in [Doc -> SUBSET (1..2)],
           \A e \in Doc : rows'[e] # {} => doc[e].there,
           UNCHANGED <<doc, spoilt, indexQueue, deleted>>
    PROVE  /\ KbTypes' /\ DocsKnown' /\ Agree'
           /\ job[w].doc \in Doc /\ job[w].parts \in 1..2
           /\ job'[w].pc = pc /\ job'[w].doc = job[w].doc
           /\ job'[w].parts = job[w].parts /\ job'[w].left = job[w].left
           /\ \A v \in Worker \ {w} : job'[v] = job[v]
<1> USE DEF IndexInv
<1> DEFINE new == [job[w] EXCEPT !.pc = pc]
<1>1. job' = [job EXCEPT ![w] = new]
  BY DEF KbTypes
<1>2. pc \in Stages /\ job[w].pc \in Stages
  BY DEF Stages, Early, Late
<1>3. /\ new \in JobAt /\ Placed(new) /\ new.pc = pc
      /\ new.doc = job[w].doc /\ new.left = job[w].left
      /\ new.parts = job[w].parts /\ new.doc \in Doc
  BY <1>2, Went
<1> HIDE DEF new
<1>4. /\ job' \in [Worker -> JobAt] /\ job'[w] = new
      /\ \A v \in Worker \ {w} : job'[v] = job[v]
      /\ (\A v \in Worker : Placed(job[v]))'
  BY <1>1, <1>3, JobPlace
<1>5. KbTypes' /\ DocsKnown'
  BY <1>4 DEF KbTypes, DocsKnown
<1>6. Agree'
  <2>1. ASSUME NEW v \in Worker \ {w}, NEW d \in Doc \ spoilt
        PROVE  AgreesOn(v, d)'
    BY <1>4, <2>1 DEF Agree, AgreesOn
  <2>2. ASSUME NEW d \in Doc \ spoilt PROVE AgreesOn(w, d)'
    <3>1. AgreesOn(w, d)
      BY DEF Agree
    <3>2. pc \notin {"parse", "extract"}
              /\ job[w].pc \notin {"parse", "extract"}
      BY DEF Late
    <3> QED BY <1>2, <1>3, <1>4, <3>1, <3>2 DEF AgreesOn
  <2>3. ASSUME NEW d \in Doc \ spoilt PROVE Alike(d)'
    <3>1. Alike(d)
      BY DEF Agree
    <3>2. \A v \in Worker : /\ Knowledge!Splits(v, d)' => Knowledge!Splits(v, d)
                            /\ job'[v].parts = job[v].parts
      BY <1>3, <1>4 DEF Knowledge!Splits, Late
    <3> QED BY <3>1, <3>2 DEF Alike
  <2> QED BY <2>1, <2>2, <2>3 DEF Agree
<1>7. job[w].parts \in 1..2
  BY DEF KbTypes, JobAt
<1> QED BY <1>3, <1>4, <1>5, <1>6, <1>7

LEMMA Widened ==
    ASSUME NEW S, 1..2 \subseteq S, NEW f \in [Doc -> SUBSET S],
           NEW d \in Doc, NEW n \in 1..2
    PROVE  /\ [f EXCEPT ![d] = @ \cup 1..n] \in [Doc -> SUBSET S]
           /\ \A e \in Doc : [f EXCEPT ![d] = @ \cup 1..n][e] =
                               IF e = d THEN f[e] \cup 1..n ELSE f[e]
<1> DEFINE s == f[d] \cup 1..n
<1>1. 1..n \subseteq S
  <2>1. 1..n \subseteq 1..2
    OBVIOUS
  <2> QED BY <2>1
<1>2. s \in SUBSET S
  BY <1>1
<1>3. [f EXCEPT ![d] = @ \cup 1..n] = [f EXCEPT ![d] = s]
  OBVIOUS
<1> HIDE DEF s
<1>4. /\ [f EXCEPT ![d] = s] \in [Doc -> SUBSET S]
      /\ \A e \in Doc : [f EXCEPT ![d] = s][e] = IF e = d THEN s ELSE f[e]
  BY <1>2
<1> QED BY <1>3, <1>4 DEF s

LEMMA AddKeeps ==
    ASSUME IndexInv, NEW w \in Worker, Knowledge!AddTexts(w)
    PROVE  IndexInv'
<1> USE DEF IndexInv
<1>1. PICK d, n : d = job[w].doc /\ n = job[w].parts
  OBVIOUS
<1>2. /\ job[w].pc = "add" /\ job' = [job EXCEPT ![w].pc = "replace"]
      /\ vec' = [vec EXCEPT ![d] = @ \cup 1..n]
      /\ UNCHANGED <<doc, rows, spoilt, indexQueue, deleted>>
  BY <1>1 DEF Knowledge!AddTexts, Knowledge!At, Knowledge!Go
<1>3. /\ n \in 1..2 /\ d \in Doc /\ vec \in [Doc -> SUBSET (1..2)]
      /\ rows \in [Doc -> SUBSET (0..2)]
  BY <1>1, <1>2 DEF KbTypes, JobAt, Placed, Stages, Early
<1>4. /\ vec' \in [Doc -> SUBSET (1..2)]
      /\ \A e \in Doc : vec'[e] = IF e = d THEN vec[e] \cup 1..n ELSE vec[e]
  BY <1>2, <1>3, Widened, 1..2 \subseteq 1..2
<1>5. /\ KbTypes' /\ DocsKnown' /\ Agree'
      /\ job[w].doc \in Doc /\ job[w].parts \in 1..2
      /\ job'[w].pc = "replace" /\ job'[w].doc = job[w].doc
      /\ job'[w].parts = job[w].parts /\ job'[w].left = job[w].left
      /\ \A v \in Worker \ {w} : job'[v] = job[v]
  BY <1>2, <1>3, <1>4, ChunkStep DEF Late, DocsKnown
<1>6. ASSUME NEW e \in Doc \ spoilt, e # d PROVE HeldIn(e)'
  BY <1>1, <1>2, <1>4, <1>5, <1>6 DEF IndexHeld, HeldIn, Rewrites, Late
<1>7. ASSUME d \notin spoilt PROVE HeldIn(d)'
  <2>1. \A v \in Worker : job'[v].doc = d /\ job'[v].pc \in Late =>
           job'[v].parts = n
    <3>1. Alike(d)'
      BY <1>2, <1>3, <1>5, <1>7 DEF Agree
    <3>2. Knowledge!Splits(w, d)' /\ job'[w].parts = n
      BY <1>1, <1>5 DEF Knowledge!Splits
    <3> QED BY <3>1, <3>2 DEF Alike, Knowledge!Splits, Late
  <2>2. \A v \in Worker : job'[v].doc = d /\ job'[v].pc \in Late =>
           1..job'[v].parts \subseteq vec'[d]
    BY <1>3, <1>4, <2>1
  <2>3. job'[w].doc = d /\ job'[w].pc = "replace"
    BY <1>1, <1>5
  <2> QED BY <2>2, <2>3 DEF HeldIn
<1> QED BY <1>2, <1>5, <1>6, <1>7 DEF IndexHeld

LEMMA RowsKeep ==
    ASSUME IndexInv,
           NEW w \in Worker, Knowledge!DropChunks(w)
               \/ Knowledge!CreateChunks(w)
    PROVE  IndexInv'
<1> USE DEF IndexInv
<1> DEFINE d == job[w].doc
           n == job[w].parts
<1>1. PICK pc \in {"create", "ready"} :
         /\ job' = [job EXCEPT ![w].pc = pc]
         /\ \/ /\ pc = "create" /\ job[w].pc = "replace"
               /\ rows' = [rows EXCEPT ![d] = {}]
            \/ /\ pc = "ready" /\ job[w].pc = "create" /\ doc[d].there
               /\ rows' = [rows EXCEPT ![d] = @ \cup 1..n]
         /\ UNCHANGED <<doc, vec, spoilt, indexQueue, deleted>>
  BY DEF Knowledge!DropChunks, Knowledge!CreateChunks, Knowledge!At,
     Knowledge!Go
<1>2. n \in 1..2 /\ vec \in [Doc -> SUBSET (1..2)]
      /\ rows \in [Doc -> SUBSET (0..2)]
  BY DEF KbTypes, JobAt
<1>3. /\ rows' \in [Doc -> SUBSET (0..2)]
      /\ \A e \in Doc : rows'[e] =
            IF e # d THEN rows[e]
            ELSE IF pc = "create" THEN {} ELSE rows[e] \cup 1..n
  <2>1. d \in Doc
    BY <1>1 DEF KbTypes, Placed, Stages, Late
  <2> HIDE DEF d, n
  <2>2. CASE pc = "create" /\ rows' = [rows EXCEPT ![d] = {}]
    BY <1>2, <2>1, <2>2
  <2>3. CASE pc = "ready" /\ rows' = [rows EXCEPT ![d] = @ \cup 1..n]
    BY <1>2, <2>1, <2>3, Widened, 1..2 \subseteq 0..2
  <2> QED BY <1>1, <2>2, <2>3
<1>4. /\ KbTypes' /\ DocsKnown' /\ Agree'
      /\ job[w].doc \in Doc /\ job[w].parts \in 1..2
      /\ job'[w].pc = pc /\ job'[w].doc = job[w].doc
      /\ job'[w].parts = job[w].parts /\ job'[w].left = job[w].left
      /\ \A v \in Worker \ {w} : job'[v] = job[v]
  <2>1. pc \in Late \cup {"ready"} /\ job[w].pc \in Late \cup {"add"}
    BY <1>1 DEF Late
  <2>2. \A e \in Doc : rows'[e] # {} => doc[e].there
    BY <1>1, <1>3 DEF DocsKnown
  <2> QED BY <1>1, <1>2, <1>3, <2>1, <2>2, ChunkStep
<1> HIDE DEF d, n
<1>5. \A v \in Worker, e \in Doc : Rewrites(v, e) => Rewrites(v, e)'
  BY <1>1, <1>4 DEF Rewrites, Early
<1>6. ASSUME NEW e \in Doc \ spoilt PROVE HeldIn(e)'
  <2>1. CASE \E v \in Worker : Rewrites(v, e)
    BY <1>5, <2>1 DEF HeldIn
  <2>2. CASE ~\E v \in Worker : Rewrites(v, e)
    <3>1. /\ \/ rows[e] \ {0} \subseteq vec[e]
             \/ \E v \in Worker : job[v].doc = e /\ job[v].pc = "replace"
          /\ \A v \in Worker : job[v].doc = e /\ job[v].pc \in Late =>
                1..job[v].parts \subseteq vec[e]
      BY <1>6, <2>2 DEF IndexHeld, HeldIn
    <3>2. \A v \in Worker : job'[v].doc = e /\ job'[v].pc \in Late =>
             1..job'[v].parts \subseteq vec'[e]
      BY <1>1, <1>4, <3>1 DEF Late
    <3>3. \/ rows'[e] \ {0} \subseteq vec'[e]
          \/ \E v \in Worker : job'[v].doc = e /\ job'[v].pc = "replace"
      <4>1. CASE e # d
        BY <1>1, <1>3, <1>4, <3>1, <4>1 DEF d
      <4>2. CASE e = d /\ pc = "create"
        BY <1>3, <4>2
      <4>3. CASE e = d /\ pc = "ready"
        <5>1. job[w].pc = "create" /\ 1..n \subseteq vec[e]
          BY <1>1, <3>1, <4>3 DEF Late, d, n
        <5> QED BY <1>1, <1>3, <1>4, <3>1, <4>3, <5>1
      <4> QED BY <1>1, <4>1, <4>2, <4>3
    <3> QED BY <3>2, <3>3 DEF HeldIn
  <2> QED BY <2>1, <2>2
<1> QED BY <1>1, <1>4, <1>6 DEF IndexHeld

LEMMA ClearKeeps ==
    ASSUME IndexInv, NEW w \in Worker, Knowledge!ReindexClear(w)
    PROVE  IndexInv'
<1> USE DEF IndexInv
<1> DEFINE left == {d \in Doc : doc[d].there}
           new == [job[w] EXCEPT !.pc = "next", !.list = Knowledge!AtRest.list,
                                 !.left = left]
<1>1. /\ job[w] \in JobAt /\ Placed(job[w]) /\ job[w].pc = "clear"
      /\ doc \in [Doc -> DocAt] /\ vec \in [Doc -> SUBSET (1..2)]
  BY DEF KbTypes, Knowledge!ReindexClear, Knowledge!At
<1>2. /\ job' = [job EXCEPT ![w] = new]
      /\ vec' = [d \in Doc |-> vec[d] \ job[w].list[d]]
      /\ UNCHANGED <<doc, rows, spoilt, indexQueue, deleted>>
  BY <1>1 DEF Knowledge!ReindexClear, KbTypes
<1>3. left \in SUBSET Doc /\ \A d \in Doc : d \in left <=> doc[d].there
  OBVIOUS
<1> HIDE DEF left
<1>4. /\ new \in JobAt /\ new.pc = "next" /\ new.left = left
      /\ new.doc = job[w].doc /\ new.all = job[w].all
  <2>1. Knowledge!AtRest.list \in [Doc -> SUBSET (0..2)] /\ "next" \in Pcs
    BY DEF Knowledge!AtRest, Pcs
  <2> QED BY <1>1, <1>3, <2>1 DEF JobAt
<1> HIDE DEF new
<1>5. Placed(new) /\ new.doc = Knowledge!None
  BY <1>1, <1>4 DEF Placed, Stages, Early, Late
<1>6. /\ job' \in [Worker -> JobAt] /\ job'[w] = new
      /\ \A v \in Worker \ {w} : job'[v] = job[v]
      /\ (\A v \in Worker : Placed(job[v]))'
  BY <1>2, <1>4, <1>5, JobPlace
<1>7. KbTypes' /\ DocsKnown'
  BY <1>1, <1>2, <1>6 DEF KbTypes, DocsKnown
<1>8. Agree'
  <2>1. ASSUME NEW v \in Worker \ {w}, NEW d \in Doc \ spoilt
        PROVE  AgreesOn(v, d)'
    BY <1>2, <1>6, <2>1 DEF Agree, AgreesOn
  <2>2. ASSUME NEW d \in Doc \ spoilt PROVE AgreesOn(w, d)'
    BY <1>2, <1>3, <1>4, <1>5, <1>6 DEF AgreesOn, Stages, Early, Late
  <2>3. ASSUME NEW d \in Doc \ spoilt PROVE Alike(d)'
    <3>1. Alike(d) /\ ~Knowledge!Splits(w, d)'
      BY <1>4, <1>6 DEF Agree, Knowledge!Splits
    <3> QED BY <1>6, <3>1 DEF Alike, Knowledge!Splits
  <2> QED BY <1>2, <2>1, <2>2, <2>3 DEF Agree
<1>9. ASSUME NEW d \in Doc \ spoilt PROVE HeldIn(d)'
  <2>1. CASE doc[d].there
    <3>1. (d \in job[w].left)'
      BY <1>3, <1>4, <1>6, <2>1
    <3> QED BY <3>1 DEF HeldIn, Rewrites
  <2>2. CASE ~doc[d].there
    <3>1. rows'[d] = {}
      BY <1>2, <2>2 DEF DocsKnown
    <3>2. \A v \in Worker : job'[v].doc = d => job'[v].pc \notin Late
      BY <1>2, <1>8, <1>9, <2>2 DEF Agree, AgreesOn, Stages
    <3> QED BY <3>1, <3>2 DEF HeldIn
  <2> QED BY <2>1, <2>2
<1> QED BY <1>2, <1>7, <1>8, <1>9 DEF IndexHeld

LEMMA KbNext == ASSUME IndexInv, [Knowledge!Next]_knowledgeVars PROVE IndexInv'
<1>1. CASE UNCHANGED knowledgeVars
  BY <1>1 DEF knowledgeVars, IndexInv, KbTypes, DocsKnown, Agree, AgreesOn,
     Alike, Knowledge!Splits, IndexHeld, HeldIn, Rewrites
<1> QED BY <1>1, CreateKeeps, EditKeeps, MoreKeeps, TakeKeeps, ParseKeeps,
           ExtractKeeps, EndKeeps, AddKeeps, RowsKeep, ListKeeps, ClearKeeps
           DEF Knowledge!Next

LEMMA KbFollows == IndexInv => Knowledge!IndexComplete
<1> SUFFICES ASSUME IndexInv, NEW d \in Doc \ spoilt, ~Knowledge!Busy(d)
             PROVE  rows[d] \ {0} \subseteq vec[d]
  BY DEF Knowledge!IndexComplete
<1>1. \A w \in Worker : /\ d \notin job[w].left
                        /\ job[w].doc = d => job[w].pc \notin Stages
  BY NotBusy DEF IndexInv
<1> QED BY <1>1 DEF IndexInv, IndexHeld, HeldIn, Rewrites, Stages, Early, Late

LEMMA KnowledgeSteps ==
    ASSUME part = "knowledge", [Next]_vars
    PROVE  [Knowledge!Next]_knowledgeVars
BY DEF Next, vars, knowledgeVars

\* Every chunk a task has written for a ready document has its vector when no
\* task is at work on it, for any number of documents and workers, however
\* uploads, reindexings and edits overlap, unless passes at the document at
\* the same time split it differently, something failed at it, or it or its
\* chunks were deleted or moved meanwhile.
\* Code: ingest_document_task, reindex_kb_task, KnowledgeDocumentViewSet.
KnowledgeHeld == part = "knowledge" => IndexInv
THEOREM IndexHolds == Spec => []IndexComplete
<1>1. Init => KnowledgeHeld
  BY KbInit DEF Init, KnowledgeHeld
<1>2. KnowledgeHeld /\ [Next]_vars => KnowledgeHeld'
  BY PartStays, KnowledgeSteps, KbNext DEF KnowledgeHeld
<1>3. KnowledgeHeld => IndexComplete
  BY KbFollows DEF KnowledgeHeld, IndexComplete
<1> QED BY <1>1, <1>2, <1>3, PTL DEF Spec

-----------------------------------------------------------------------------
(* Restoring a backup: the rows, the versions and the ids it maps.           *)

VersionAt == [number : Nat, ref : Int, current : BOOLEAN]
DbAt == [assets : [Restore!Ids -> Restore!Rows], nextId : Int,
         pipe : [there : BOOLEAN, fk : Int, ref : Int],
         versions : SUBSET VersionAt]
RestoreTypes ==
    /\ backup.assets \in [Restore!Olds -> Key \cup {Restore!NoAsset}]
    /\ backup.match \in Restore!Tables /\ backup.orphans \subseteq Restore!Olds
    /\ backup.fk \in Restore!Olds /\ backup.ref \in Restore!Olds
    /\ backup.share \in Restore!Olds \cup {0}
    /\ backup.versions = {Restore!Old(1, backup.ref, TRUE)}
    /\ db \in DbAt /\ saved \in DbAt
    /\ idMap \in [Restore!Olds -> 0..MaxId]
    /\ restoreTodo \in SUBSET Restore!Olds
    /\ mapped \in [pipe : BOOLEAN, versions : SUBSET {1}]
    /\ errors \in BOOLEAN

BeforePipe == {"idle", "unread", "shares", "assets"}
AfterPipe  == {"versions", "keys", "links", "refs", "commit", "committed"}

\* The rows of the assets: those that were here stay, others get the ids that
\* follow.
RowsKept ==
    /\ Restore!Single
    /\ \A i \in Restore!Ids :
          /\ i >= 3 => saved.assets[i] = Restore!NoRow
          /\ saved.assets[i] # Restore!NoRow =>
                \/ db.assets[i] = saved.assets[i]
                \/ /\ backup.match = "id" /\ i \in Restore!Olds
                   /\ backup.assets[i] # Restore!NoAsset
    /\ restorePhase = "rolledback" => db = saved /\ errors
    /\ restorePhase # "rolledback" =>
          /\ \A i \in Restore!Ids : db.assets[i] # Restore!NoRow =>
                 i < db.nextId
          /\ db.nextId >= 3
          /\ restoreTodo = Restore!Olds => db.nextId <= 3
          /\ restoreTodo # {} => db.nextId <= 4

\* The map leads to the rows of the assets.
MapTrue ==
    restorePhase # "rolledback" =>
       /\ \A o \in Restore!Olds :
             /\ idMap[o] # 0 => Restore!Refers(idMap[o], o)
             /\ idMap[o] # 0 \/ o \in restoreTodo =>
                    backup.assets[o] # Restore!NoAsset
       /\ ~errors => \A o \in Restore!Olds :
                        \/ o \in restoreTodo \/ idMap[o] # 0
                        \/ backup.assets[o] = Restore!NoAsset

\* What of the pipeline has been imported, and how far its references are.
PipelineKnown ==
    /\ restorePhase \in BeforePipe =>
           ~mapped.pipe /\ db.versions \subseteq {Restore!Old(1, 1, TRUE)}
    /\ restorePhase \in AfterPipe =>
           restoreTodo = {} /\ (~errors => mapped.pipe)
    /\ mapped.pipe /\ restorePhase \in {"versions", "keys", "links", "refs"} =>
          db.pipe.ref = backup.ref
    /\ mapped.pipe /\ restorePhase \in {"keys", "links", "refs"} =>
          \A v \in db.versions : v.number \in mapped.versions =>
             v.ref = backup.ref
    /\ mapped.pipe
           /\ restorePhase \in {"links", "refs", "commit", "committed"} =>
          Restore!Refers(db.pipe.fk, backup.fk) \/ "fk" \in unresolved
    /\ mapped.pipe /\ restorePhase \in {"commit", "committed"} =>
          \/ /\ Restore!Refers(db.pipe.ref, backup.ref)
             /\ \A v \in db.versions :
                   v.number \in mapped.versions => v.ref = db.pipe.ref
          \/ "ref" \in unresolved
    /\ restorePhase \in {"links", "refs", "commit", "committed"} =>
          \A o \in backup.orphans : idMap[o] # 0 => "parent" \in unresolved

\* The share that was here, and the one imported: its asset is the old one
\* until it is mapped.
SharesKnown ==
    /\ sharing \in [1..2 -> Int] /\ sharingHere \in [1..2 -> Int]
    /\ shareMap \in 0..2
    /\ sharing[1] = sharingHere[1] \/ sharingHere[1] = backup.share
    /\ shareMap # 1 => sharing[1] = sharingHere[1]
    /\ shareMap = 1 /\ restorePhase # "rolledback" =>
          sharingHere[1] = backup.share
    /\ restorePhase = "rolledback" => sharing = sharingHere
    /\ restorePhase \in {"idle", "unread", "shares"} => shareMap = 0
    /\ shareMap # 0
           /\ restorePhase \in {"assets", "versions", "keys", "links"} =>
          sharing[shareMap] = backup.share
    /\ shareMap # 0 => backup.share \in Restore!Olds
    /\ shareMap # 0 /\ restorePhase \in {"refs", "commit", "committed"} =>
          \/ Restore!Refers(sharing[shareMap], backup.share)
          \/ "share" \in unresolved
    /\ restorePhase \in {"assets"} \cup AfterPipe =>
          (~errors /\ backup.share # 0 => shareMap # 0)
RestoreInv ==
    RestoreTypes /\ RowsKept /\ MapTrue /\ PipelineKnown /\ SharesKnown

\* What is known of the backup that is restored.
LEMMA FileKnown ==
    ASSUME Restore!Init
    PROVE  /\ backup.match \in Restore!Tables
           /\ backup.assets \in [Restore!Olds -> Key \cup {Restore!NoAsset}]
           /\ backup.orphans \subseteq Restore!Olds
           /\ backup.fk \in Restore!Olds /\ backup.ref \in Restore!Olds
           /\ backup.share \in Restore!Olds \cup {0}
           /\ backup.versions = {Restore!Old(1, backup.ref, TRUE)}
<1>1. \E match \in Restore!Tables,
         assets \in [Restore!Olds -> Key \cup {Restore!NoAsset}],
         orphans \in SUBSET Restore!Olds, fk, ref \in Restore!Olds,
         share \in Restore!Olds \cup {0} :
           /\ match = "key" => Restore!Distinct(assets)
           /\ match # "loose" => orphans = {}
           /\ backup =
                [match |-> match, assets |-> assets, orphans |-> orphans,
                 fk |-> fk, ref |-> ref, share |-> share,
                 versions |-> {Restore!Old(1, ref, TRUE)}]
  BY DEF Restore!Init
<1>2. PICK match \in Restore!Tables,
           assets \in [Restore!Olds -> Key \cup {Restore!NoAsset}],
           orphans \in SUBSET Restore!Olds, fk \in Restore!Olds,
           ref \in Restore!Olds, share \in Restore!Olds \cup {0} :
             backup = [match |-> match, assets |-> assets, orphans |-> orphans,
                       fk |-> fk, ref |-> ref, share |-> share,
                       versions |-> {Restore!Old(1, ref, TRUE)}]
  BY <1>1, Zenon
<1> QED BY <1>2

LEMMA RestoreInit == Restore!Init => RestoreInv
<1> SUFFICES ASSUME Restore!Init PROVE RestoreInv
  OBVIOUS
<1> USE RestoreBounds
<1> DEFINE RowsOf(h) == [i \in Restore!Ids |-> IF i \in 1..2
                                            THEN Restore!Row(h[i], TRUE)
                                            ELSE Restore!NoRow]
           PipeOf(t) == IF t THEN [there |-> TRUE, fk |-> 0, ref |-> 1]
                        ELSE Restore!NoPipe
           VersOf(t) == IF t THEN {Restore!Old(1, 1, TRUE)} ELSE {}
<1>9. PICK here \in [1..2 -> Key \cup {Restore!NoAsset}], there \in BOOLEAN :
         db = [assets |-> RowsOf(here), nextId |-> 3, pipe |-> PipeOf(there),
               versions |-> VersOf(there)]
  BY DEF Restore!Init
<1>10. \A i \in Restore!Ids : i >= 3 => RowsOf(here)[i] = Restore!NoRow
  <2> SUFFICES ASSUME NEW i \in Restore!Ids, i >= 3
               PROVE  RowsOf(here)[i] = Restore!NoRow
    OBVIOUS
  <2>1. i \notin 1..2
    <3> HIDE DEF RowsOf
    <3> QED BY DEF Restore!Ids
  <2> QED BY <2>1, Zenon
<1>1. RestoreTypes
  <2>1. RowsOf(here) \in [Restore!Ids -> Restore!Rows]
    <3>1. \A k \in Key \cup {Restore!NoAsset} :
             Restore!Row(k, TRUE) \in Restore!Rows
      BY DEF Restore!Row, Restore!Rows, Restore!NoRow
    <3>2. Restore!NoRow \in Restore!Rows
      BY DEF Restore!Rows
    <3> QED BY <3>1, <3>2
  <2>2. PipeOf(there) \in [there : BOOLEAN, fk : Int, ref : Int]
    BY DEF Restore!NoPipe
  <2>3. VersOf(there) \in SUBSET VersionAt
    BY DEF Restore!Old, VersionAt
  <2> HIDE DEF RowsOf, PipeOf, VersOf
  <2>5. db \in DbAt
    BY <1>9, <2>1, <2>2, <2>3 DEF DbAt
  <2>6. /\ backup.match \in Restore!Tables
        /\ backup.assets \in [Restore!Olds -> Key \cup {Restore!NoAsset}]
        /\ backup.orphans \subseteq Restore!Olds
        /\ backup.fk \in Restore!Olds /\ backup.ref \in Restore!Olds
        /\ backup.share \in Restore!Olds \cup {0}
        /\ backup.versions = {Restore!Old(1, backup.ref, TRUE)}
    BY FileKnown
  <2>7. /\ idMap = [p \in Restore!Olds |-> 0]
        /\ restoreTodo =
              {o \in Restore!Olds : backup.assets[o] # Restore!NoAsset}
        /\ mapped = [pipe |-> FALSE, versions |-> {}]
        /\ errors = FALSE /\ saved = db
    BY DEF Restore!Init
  <2>8. idMap \in [Restore!Olds -> 0..MaxId]
            /\ mapped \in [pipe : BOOLEAN, versions : SUBSET {1}]
    BY <2>7
  <2>9. restoreTodo \in SUBSET Restore!Olds
    BY <2>7
  <2> QED BY <2>5, <2>6, <2>7, <2>8, <2>9 DEF RestoreTypes
<1>2. RowsKept
  <2>1. db.nextId = 3 /\ db.assets = RowsOf(here)
    <3> HIDE DEF RowsOf, PipeOf, VersOf
    <3> QED BY <1>9
  <2>2. \A i \in Restore!Ids : /\ i >= 3 => db.assets[i] = Restore!NoRow
                               /\ db.assets[i] # Restore!NoRow => i < 3
    <3> HIDE DEF RowsOf
    <3> QED BY <1>10, <2>1 DEF Restore!Ids
  <2>3. saved = db /\ restorePhase = "idle"
    BY DEF Restore!Init
  <2>4. /\ db.nextId = 3 /\ \A i \in Restore!Ids : i \in Int
        /\ \A i \in Restore!Ids :
              i >= 3 => saved.assets[i] = Restore!NoRow
    <3> HIDE DEF RowsOf
    <3> QED BY <2>1, <2>2, <2>3 DEF Restore!Ids
  <2> HIDE DEF RowsOf, PipeOf, VersOf
  <2> QED BY <2>2, <2>3, <2>4 DEF RowsKept, Restore!Single
<1>3. MapTrue
  BY DEF Restore!Init, MapTrue
<1>4. PipelineKnown
  <2>1. db.versions = VersOf(there)
    <3> HIDE DEF RowsOf, PipeOf, VersOf
    <3> QED BY <1>9
  <2>2. restorePhase = "idle" /\ mapped.pipe = FALSE
    BY DEF Restore!Init
  <2> QED BY <2>1, <2>2 DEF PipelineKnown, AfterPipe, BeforePipe
<1>5. SharesKnown
  <2>1. /\ sharing \in [1..2 -> Int] /\ sharingHere = sharing /\ shareMap = 0
        /\ restorePhase = "idle"
    BY DEF Restore!Init
  <2> QED BY <2>1 DEF SharesKnown, AfterPipe
<1> QED BY <1>1, <1>2, <1>3, <1>4, <1>5 DEF RestoreInv

\* The imported share stays what it is while the assets and the pipeline do,
\* and while they are only added to before it is mapped.
LEMMA SharesStay ==
    ASSUME SharesKnown, UNCHANGED <<backup, sharing, sharingHere, shareMap>>,
           errors => errors', restorePhase # "rolledback",
           \/ /\ restorePhase \in {"assets", "versions", "keys"}
              /\ restorePhase' \in {"assets", "versions", "keys", "links"}
           \/ /\ restorePhase \in {"refs", "commit", "committed"}
              /\ restorePhase' \in {"refs", "commit", "committed"}
              /\ UNCHANGED idMap /\ db'.assets = db.assets
              /\ unresolved \subseteq unresolved'
           \/ UNCHANGED <<restorePhase, idMap, db, unresolved>>
    PROVE  SharesKnown'
BY DEF SharesKnown, Restore!Refers, Restore!Made, AfterPipe

\* The file comes and goes.
LEMMA FileKeeps ==
    ASSUME RestoreInv, Restore!Generate \/ Restore!RestoreFile
               \/ Restore!Upload \/ Restore!UploadEnd \/ Restore!Delete
    PROVE  RestoreInv'
<1> USE DEF RestoreInv
<1>1. /\ UNCHANGED <<backup, db, saved, sharing, sharingHere, idMap, shareMap,
             restoreTodo, mapped, errors, unresolved>>
      /\ \/ restorePhase' = restorePhase
         \/ restorePhase = "idle" /\ restorePhase' \in {"shares", "unread"}
  BY DEF Restore!Generate, Restore!RestoreFile, Restore!Upload,
     Restore!UploadEnd, Restore!Delete
<1>2. RestoreTypes'
  BY <1>1 DEF RestoreTypes
<1>3. RowsKept'
  BY <1>1 DEF RowsKept, Restore!Single
<1>4. MapTrue'
  BY <1>1 DEF MapTrue, Restore!Refers, Restore!Made
<1>5. PipelineKnown'
  BY <1>1 DEF PipelineKnown, BeforePipe, AfterPipe, Restore!Refers,
     Restore!Made
<1>6. SharesKnown'
  BY <1>1 DEF SharesKnown, AfterPipe, Restore!Refers, Restore!Made
<1> QED BY <1>2, <1>3, <1>4, <1>5, <1>6

\* The share is imported, or is not.
LEMMA ShareKeeps ==
    ASSUME RestoreInv, Restore!ImportShare \/ Restore!SkipShare
    PROVE  RestoreInv'
<1> USE DEF RestoreInv
<1>1. /\ UNCHANGED <<backup, db, saved, sharingHere, idMap, restoreTodo, mapped,
             unresolved>>
      /\ restorePhase = "shares" /\ restorePhase' = "assets"
      /\ errors' = errors \/ errors' = TRUE
  BY DEF Restore!ImportShare, Restore!SkipShare
<1>2. RestoreTypes'
  BY <1>1 DEF RestoreTypes
<1>3. RowsKept'
  BY <1>1 DEF RowsKept, Restore!Single
<1>4. MapTrue'
  BY <1>1 DEF MapTrue, Restore!Refers, Restore!Made
<1>5. PipelineKnown'
  BY <1>1 DEF PipelineKnown, BeforePipe, AfterPipe
<1>6. SharesKnown'
  <2>1. CASE Restore!SkipShare
    BY <1>1, <2>1 DEF Restore!SkipShare, SharesKnown, AfterPipe
  <2>2. CASE Restore!ImportShare /\ backup.share = 0
    BY <1>1, <2>2 DEF Restore!ImportShare, SharesKnown, AfterPipe
  <2>3. CASE Restore!ImportShare /\ backup.share # 0
    <3>1. PICK s \in 1..2 : /\ s = IF sharing[1] = backup.share THEN 1 ELSE 2
                            /\ sharing' = [sharing EXCEPT ![s] = backup.share]
                            /\ shareMap' = s
      BY <2>3 DEF Restore!ImportShare
    <3>2. backup.share \in Restore!Olds /\ backup.share \in Int
      BY <2>3 DEF RestoreTypes, Restore!Olds
    <3>3. /\ sharing' \in [1..2 -> Int] /\ sharing'[s] = backup.share
          /\ s # 1 => sharing'[1] = sharing[1]
          /\ s = 1 => sharing[1] = backup.share
      BY <3>1, <3>2 DEF SharesKnown
    <3>4. shareMap = 0 /\ sharing[1] = sharingHere[1]
      BY <1>1 DEF SharesKnown
    <3> QED BY <1>1, <3>1, <3>2, <3>3, <3>4 DEF SharesKnown, AfterPipe
  <2> QED BY <2>1, <2>2, <2>3
<1> QED BY <1>2, <1>3, <1>4, <1>5, <1>6

LEMMA ImportKeeps ==
    ASSUME RestoreInv, NEW o \in Restore!Olds, Restore!ImportAsset(o)
    PROVE  RestoreInv'
<1> USE DEF RestoreInv
<1> USE RestoreBounds
<1> DEFINE asset == Restore!Made(o)
<1>1. /\ restorePhase = "assets" /\ o \in restoreTodo
      /\ restoreTodo' = restoreTodo \ {o}
      /\ UNCHANGED <<backup, saved, sharing, sharingHere, shareMap, mapped,
                     errors, unresolved, restorePhase>>
  BY DEF Restore!ImportAsset
<1>2. PICK i \in IF Restore!Found(o) # {} THEN Restore!Found(o)
                ELSE {db.nextId} :
         /\ db' = [db EXCEPT !.assets[i] = asset,
                             !.nextId = IF i = @ THEN i + 1 ELSE @]
         /\ idMap' = [idMap EXCEPT ![o] = i]
  BY DEF Restore!ImportAsset
<1>3. /\ asset \in Restore!Rows /\ asset # Restore!NoRow
      /\ backup.assets[o] # Restore!NoAsset
      /\ asset.whole <=> o \notin backup.orphans
  <2>1. backup.assets[o] \in Key /\ backup.assets[o] # Restore!NoAsset
    BY <1>1 DEF RestoreTypes, MapTrue
  <2> QED BY <2>1 DEF Restore!Made, Restore!Row, Restore!Rows, Restore!NoRow
<1>4. /\ db.nextId \in Int /\ db.nextId >= 3 /\ db.nextId <= 4
      /\ \A j \in Restore!Ids : db.assets[j] # Restore!NoRow => j < db.nextId
  BY <1>1 DEF RestoreTypes, DbAt, RowsKept
<1> DEFINE New == i = db.nextId /\ Restore!Found(o) = {}
           Same == /\ db.assets[i] = asset
                   /\ backup.match \in {"key", "loose"}
           Over == backup.match = "id" /\ i = o
<1>5. i \in Restore!Ids /\ i <= db.nextId /\ (New \/ Same \/ Over)
  <2>1. CASE Restore!Found(o) # {}
    <3>1. i \in Restore!Ids /\ db.assets[i] # Restore!NoRow /\ (Same \/ Over)
      BY <1>2, <1>3, <2>1 DEF Restore!Found, RestoreTypes, Restore!Tables
    <3> QED BY <1>4, <3>1 DEF Restore!Ids
  <2>2. CASE Restore!Found(o) = {}
    <3>1. i = db.nextId
      BY <1>2, <2>2
    <3> QED BY <1>4, <2>2, <3>1 DEF Restore!Ids
  <2> QED BY <2>1, <2>2
<1> DEFINE next == IF i = db.nextId THEN i + 1 ELSE db.nextId
<1>6. /\ next \in Int /\ next >= db.nextId /\ i < next
      /\ next <= db.nextId + 1
  BY <1>4, <1>5 DEF Restore!Ids
<1> HIDE DEF next, asset
<1>7. /\ db' \in DbAt /\ db'.nextId = next
      /\ db'.pipe = db.pipe /\ db'.versions = db.versions
      /\ db'.assets[i] = asset
      /\ \A j \in Restore!Ids \ {i} : db'.assets[j] = db.assets[j]
  <2>1. db \in DbAt
    BY DEF RestoreTypes
  <2>2. PICK slots : slots = [db.assets EXCEPT ![i] = asset]
    OBVIOUS
  <2>3. /\ slots \in [Restore!Ids -> Restore!Rows] /\ slots[i] = asset
        /\ \A j \in Restore!Ids \ {i} : slots[j] = db.assets[j]
    BY <1>3, <1>5, <2>1, <2>2 DEF DbAt
  <2>4. db' = [db EXCEPT !.assets = slots, !.nextId = next]
    BY <1>2, <2>1, <2>2 DEF DbAt, next
  <2>5. /\ db' = [assets |-> slots, nextId |-> next, pipe |-> db.pipe,
                  versions |-> db.versions]
    BY <2>1, <2>4 DEF DbAt
  <2> QED BY <1>6, <2>1, <2>3, <2>5 DEF DbAt
<1>8. /\ idMap' \in [Restore!Olds -> 0..MaxId] /\ idMap'[o] = i /\ i # 0
      /\ \A p \in Restore!Olds \ {o} : idMap'[p] = idMap[p]
  BY <1>2, <1>5 DEF RestoreTypes, Restore!Ids
<1>9. RestoreTypes'
  BY <1>1, <1>7, <1>8 DEF RestoreTypes
<1>10. \A j \in Restore!Ids : db.assets[j] # Restore!NoRow =>
          \/ db'.assets[j] = db.assets[j]
          \/ backup.match = "id" /\ j = o
  <2> SUFFICES ASSUME NEW j \in Restore!Ids, db.assets[j] # Restore!NoRow
               PROVE  \/ db'.assets[j] = db.assets[j]
                      \/ backup.match = "id" /\ j = o
    OBVIOUS
  <2>1. j # db.nextId
    BY <1>4 DEF Restore!Ids
  <2>2. CASE j = i
    BY <1>5, <1>7, <2>1, <2>2
  <2>3. CASE j # i
    BY <1>7, <2>3
  <2> QED BY <2>2, <2>3
<1>11. Restore!Single'
  <2>0. backup' = backup /\ saved' = saved
    BY <1>1
  <2> SUFFICES ASSUME backup.match \in {"key", "loose"},
                      NEW a \in Restore!Ids, NEW b \in Restore!Ids, a # b,
                      db'.assets[a] = db'.assets[b],
                      db'.assets[a] # Restore!NoRow, db'.assets[a].whole
               PROVE  /\ saved.assets[a] = db'.assets[a]
                      /\ saved.assets[b] = db'.assets[b]
    BY <2>0 DEF Restore!Single
  <2>1. CASE db'.assets[a] = db.assets[a] /\ db'.assets[b] = db.assets[b]
    BY <2>1 DEF RowsKept, Restore!Single
  <2>2. CASE ~(db'.assets[a] = db.assets[a] /\ db'.assets[b] = db.assets[b])
    <3>1. (a = i \/ b = i) /\ ~Same /\ ~Over
      BY <1>7, <2>2
    <3>2. Restore!Found(o) = {} /\ db'.assets[a] = asset
      BY <1>5, <1>7, <3>1
    <3>3. o \notin backup.orphans
      BY <1>3, <3>2
    <3>4. \A j \in Restore!Ids : db.assets[j] # asset
      BY <3>2, <3>3 DEF Restore!Found, asset
    <3> QED BY <1>7, <3>1, <3>2, <3>4
  <2> QED BY <2>1, <2>2
<1>12. RowsKept'
  <2>0. backup' = backup /\ saved' = saved /\ restorePhase' = restorePhase
    BY <1>1
  <2>1. ASSUME NEW j \in Restore!Ids
        PROVE  /\ j >= 3 => saved.assets[j] = Restore!NoRow
               /\ saved.assets[j] # Restore!NoRow =>
                     \/ db'.assets[j] = saved.assets[j]
                     \/ /\ backup.match = "id" /\ j \in Restore!Olds
                        /\ backup.assets[j] # Restore!NoAsset
               /\ db'.assets[j] # Restore!NoRow => j < db'.nextId
    <3>1. db'.assets[j] # Restore!NoRow => j < db'.nextId
      <4>1. CASE j = i
        BY <1>6, <1>7, <4>1
      <4>2. CASE j # i
        BY <1>4, <1>6, <1>7, <4>2 DEF Restore!Ids
      <4> QED BY <4>1, <4>2
    <3>2. \/ db.assets[j] = saved.assets[j] \/ saved.assets[j] = Restore!NoRow
          \/ /\ backup.match = "id" /\ j \in Restore!Olds
             /\ backup.assets[j] # Restore!NoAsset
      BY DEF RowsKept
    <3> QED BY <1>3, <1>10, <3>1, <3>2 DEF RowsKept
  <2>2. /\ db'.nextId >= 3 /\ restoreTodo' # Restore!Olds
        /\ restoreTodo' # {} => db'.nextId <= 4
    <3>1. restoreTodo' # {} => restoreTodo = Restore!Olds
      <4>1. restoreTodo \subseteq {1, 3} /\ o \in {1, 3}
        BY DEF RestoreTypes, Restore!Olds
      <4> SUFFICES ASSUME NEW p \in restoreTodo'
                   PROVE  1 \in restoreTodo /\ 3 \in restoreTodo
        BY <4>1 DEF Restore!Olds
      <4>2. p \in {1, 3} /\ p # o /\ p \in restoreTodo
        BY <1>1, <4>1
      <4> QED BY <1>1, <4>1, <4>2
    <3>2. restoreTodo = Restore!Olds => db.nextId <= 3
      BY <1>1 DEF RowsKept
    <3>3. restoreTodo' # Restore!Olds
      BY <1>1
    <3> QED BY <1>4, <1>6, <1>7, <3>1, <3>2, <3>3
  <2> QED BY <1>1, <1>11, <2>0, <2>1, <2>2 DEF RowsKept
<1>13. MapTrue'
  <2>1. ASSUME NEW p \in Restore!Olds, idMap'[p] # 0
        PROVE  (Restore!Refers(idMap[p], p))'
                   /\ backup.assets[p] # Restore!NoAsset
    <3>0. backup' = backup
      BY <1>1
    <3>1. CASE p = o
      <4>1. idMap'[p] = i /\ i # 0 /\ db'.assets[i] = Restore!Made(p)
        BY <1>7, <1>8, <3>1 DEF asset
      <4> QED BY <1>3, <3>0, <3>1, <4>1 DEF Restore!Refers, Restore!Made
    <3>2. CASE p # o
      <4>1. /\ idMap'[p] = idMap[p] /\ Restore!Refers(idMap[p], p)
            /\ backup.assets[p] # Restore!NoAsset
        BY <1>1, <1>8, <2>1, <3>2 DEF MapTrue
      <4>2. idMap[p] \in Restore!Ids
        BY <4>1 DEF Restore!Refers, RestoreTypes, Restore!Ids
      <4>3. Restore!Made(p) # Restore!NoRow
        BY <4>1 DEF Restore!Made, Restore!Row, Restore!NoRow
      <4>4. db'.assets[idMap[p]] = Restore!Made(p) \/ backup.match = "id"
        BY <1>10, <4>1, <4>2, <4>3 DEF Restore!Refers
      <4> QED BY <3>0, <4>1, <4>4 DEF Restore!Refers, Restore!Made
    <3> QED BY <3>1, <3>2
  <2>2. ASSUME NEW p \in Restore!Olds
        PROVE  /\ p \in restoreTodo' => p \in restoreTodo
               /\ p \in restoreTodo => p \in restoreTodo' \/ idMap'[p] # 0
               /\ idMap[p] # 0 => idMap'[p] # 0
    BY <1>1, <1>8
  <2>3. restorePhase' = restorePhase /\ errors' = errors /\ backup' = backup
    BY <1>1
  <2>4. restorePhase # "rolledback"
    BY <1>1
  <2> QED BY <2>1, <2>2, <2>3, <2>4 DEF MapTrue
<1>14. PipelineKnown'
  BY <1>1, <1>7 DEF PipelineKnown, BeforePipe, AfterPipe
<1>15. SharesKnown'
  BY <1>1, SharesStay
<1> QED BY <1>9, <1>12, <1>13, <1>14, <1>15

LEMMA SkipKeeps ==
    ASSUME RestoreInv, NEW o \in Restore!Olds, Restore!SkipAsset(o)
    PROVE  RestoreInv'
<1> USE DEF RestoreInv
<1>1. /\ restorePhase = "assets" /\ o \in restoreTodo
      /\ restoreTodo' = restoreTodo \ {o} /\ errors' = TRUE
      /\ UNCHANGED <<backup, db, saved, sharing, sharingHere, idMap, shareMap,
             mapped, unresolved, restorePhase>>
  BY DEF Restore!SkipAsset
<1>2. RestoreTypes'
  BY <1>1 DEF RestoreTypes
<1>3. RowsKept'
  <2>1. restoreTodo' # Restore!Olds
    BY <1>1
  <2>2. restoreTodo # {} /\ db.nextId <= 4
    BY <1>1 DEF RowsKept
  <2> QED BY <1>1, <2>1, <2>2 DEF RowsKept, Restore!Single
<1>4. MapTrue'
  BY <1>1 DEF MapTrue, Restore!Refers, Restore!Made
<1>5. PipelineKnown'
  BY <1>1 DEF PipelineKnown, BeforePipe, AfterPipe
<1>6. SharesKnown'
  BY <1>1, SharesStay
<1> QED BY <1>2, <1>3, <1>4, <1>5, <1>6

\* The rows of the assets and the map stay as they are.
LEMMA RowsStay ==
    ASSUME RestoreInv,
           restorePhase \in {"assets", "versions", "keys", "links", "refs",
                             "commit"},
           restorePhase' \in AfterPipe, db' \in DbAt,
           db'.assets = db.assets, db'.nextId = db.nextId,
           errors \in BOOLEAN, errors' \in BOOLEAN, errors => errors',
           UNCHANGED <<backup, saved, idMap, restoreTodo>>
    PROVE  /\ RowsKept' /\ MapTrue'
           /\ mapped' \in [pipe : BOOLEAN, versions : SUBSET {1}] =>
                  RestoreTypes'
<1> USE DEF RestoreInv
<1>1. RowsKept'
  BY DEF RowsKept, Restore!Single, AfterPipe
<1>2. MapTrue'
  BY DEF MapTrue, Restore!Refers, Restore!Made, AfterPipe
<1>3. mapped' \in [pipe : BOOLEAN, versions : SUBSET {1}] => RestoreTypes'
  BY DEF RestoreTypes
<1> QED BY <1>1, <1>2, <1>3

LEMMA MappedId ==
    ASSUME RestoreInv, NEW o \in Restore!Olds, NEW else \in Int
    PROVE  Restore!Mapped(o, else) \in Int
BY DEF RestoreInv, RestoreTypes, Restore!Mapped

LEMMA PipelineKeeps ==
    ASSUME RestoreInv, Restore!ImportPipeline \/ Restore!SkipPipeline
    PROVE  RestoreInv'
<1> USE DEF RestoreInv
<1>1. CASE Restore!ImportPipeline
  <2> DEFINE fk == Restore!Mapped(backup.fk, db.pipe.fk)
             next == Restore!Max({v.number : v \in db.versions} \cup {0}) + 1
             marks == {[v EXCEPT !.current = FALSE] : v \in db.versions}
             pipe == [there |-> TRUE, fk |-> fk, ref |-> backup.ref]
             kept == IF db.pipe.there
                         THEN marks \cup {Restore!Old(next, backup.ref, TRUE)}
                                  ELSE {}
  <2>1. /\ restorePhase = "assets" /\ restoreTodo = {}
        /\ restorePhase' = "versions"
        /\ db' = [db EXCEPT !.pipe = pipe, !.versions = kept]
        /\ mapped' = [mapped EXCEPT !.pipe = TRUE]
        /\ UNCHANGED <<backup, saved, sharing, sharingHere, idMap, shareMap,
               restoreTodo, errors, unresolved>>
    BY <1>1 DEF Restore!ImportPipeline
  <2>2. /\ db \in DbAt /\ backup.fk \in Restore!Olds
        /\ backup.ref \in Restore!Olds /\ backup.ref \in Int
    BY DEF RestoreTypes, Restore!Olds
  <2>3. fk \in Int
    <3>1. db.pipe.fk \in Int
      BY <2>2 DEF DbAt
    <3> QED BY <2>2, <3>1, MappedId
  <2>4. next \in Nat
    <3>1. db.versions \subseteq {Restore!Old(1, 1, TRUE)}
              /\ Restore!Old(1, 1, TRUE).number = 1
      BY <2>1 DEF PipelineKnown, BeforePipe, Restore!Old
    <3>2. {v.number : v \in db.versions} \cup {0} \in {{0}, {0, 1}}
      <4>1. \A v \in db.versions : v.number = 1
        BY <3>1
      <4>2. CASE db.versions = {}
        BY <4>2
      <4>3. CASE db.versions # {}
        <5>1. {v.number : v \in db.versions} = {1}
          BY <4>1, <4>3
        <5> HIDE DEF RestoreInv
        <5> QED BY <5>1
      <4> QED BY <4>2, <4>3
    <3>3. Restore!Max({0}) = 0
      BY DEF Restore!Max
    <3>4. Restore!Max({0, 1}) = 1
      <4>1. \E x \in {0, 1} : \A y \in {0, 1} : x >= y
        OBVIOUS
      <4>2. Restore!Max({0, 1}) \in {0, 1} /\ Restore!Max({0, 1}) >= 1
        BY <4>1 DEF Restore!Max
      <4> QED BY <4>2
    <3>5. next = Restore!Max({v.number : v \in db.versions} \cup {0}) + 1
      OBVIOUS
    <3>6. CASE {v.number : v \in db.versions} \cup {0} = {0}
      <4>1. next = Restore!Max({0}) + 1
        BY <3>5, <3>6
      <4> HIDE DEF next, RestoreInv
      <4> QED BY <3>3, <4>1
    <3>7. CASE {v.number : v \in db.versions} \cup {0} = {0, 1}
      <4>1. next = Restore!Max({0, 1}) + 1
        BY <3>5, <3>7
      <4> HIDE DEF next, RestoreInv
      <4> QED BY <3>4, <4>1
    <3> QED BY <3>2, <3>6, <3>7
  <2>5. kept \in SUBSET VersionAt
    <3>1. marks \in SUBSET VersionAt
      <4>1. db.versions \in SUBSET VersionAt
        BY <2>2 DEF DbAt
      <4>2. ASSUME NEW v \in db.versions
            PROVE  [v EXCEPT !.current = FALSE] \in VersionAt
        <5>1. v \in VersionAt
          BY <4>1
        <5> HIDE DEF RestoreInv
        <5> QED BY <5>1 DEF VersionAt
      <4> QED BY <4>2
    <3>2. Restore!Old(next, backup.ref, TRUE) \in VersionAt
      BY <2>2, <2>4 DEF Restore!Old, VersionAt
    <3> HIDE DEF marks, next
    <3> QED BY <3>1, <3>2
  <2>6. pipe \in [there : BOOLEAN, fk : Int, ref : Int]
            /\ pipe.ref = backup.ref
    <3> HIDE DEF fk
    <3> QED BY <2>2, <2>3
  <2> HIDE DEF fk, next, marks, pipe, kept
  <2>7. db' \in DbAt /\ db'.assets = db.assets /\ db'.nextId = db.nextId
        /\ db'.pipe = pipe /\ db'.versions = kept
    <3>1. db' = [assets |-> db.assets, nextId |-> db.nextId, pipe |-> pipe,
                 versions |-> kept]
      BY <2>1, <2>2 DEF DbAt
    <3> QED BY <2>2, <2>5, <2>6, <3>1 DEF DbAt
  <2>8. /\ mapped' \in [pipe : BOOLEAN, versions : SUBSET {1}]
        /\ mapped'.pipe
    BY <2>1 DEF RestoreTypes
  <2>9. RestoreTypes' /\ RowsKept' /\ MapTrue'
    <3>1. errors \in BOOLEAN
      BY DEF RestoreTypes
    <3> HIDE DEF RestoreInv
    <3> QED BY <2>1, <2>7, <2>8, <3>1, RowsStay DEF AfterPipe
  <2>10. PipelineKnown'
    BY <2>1, <2>6, <2>7, <2>8 DEF PipelineKnown, BeforePipe, AfterPipe
  <2>11. SharesKnown'
    BY <2>1, SharesStay
  <2> QED BY <2>9, <2>10, <2>11
<1>2. CASE Restore!SkipPipeline
  <2>1. /\ restorePhase = "assets" /\ restoreTodo = {}
        /\ restorePhase' = "versions" /\ errors' = TRUE
        /\ UNCHANGED <<backup, db, saved, sharing, sharingHere, idMap,
               shareMap, restoreTodo, mapped, unresolved>>
    BY <1>2 DEF Restore!SkipPipeline
  <2>2. /\ db \in DbAt /\ mapped \in [pipe : BOOLEAN, versions : SUBSET {1}]
        /\ errors \in BOOLEAN
    BY DEF RestoreTypes
  <2>3. RestoreTypes' /\ RowsKept' /\ MapTrue'
    <3> HIDE DEF RestoreInv
    <3> QED BY <2>1, <2>2, RowsStay DEF AfterPipe
  <2>4. PipelineKnown'
    BY <2>1 DEF PipelineKnown, BeforePipe, AfterPipe
  <2>5. SharesKnown'
    BY <2>1, SharesStay
  <2> QED BY <2>3, <2>4, <2>5
<1> QED BY <1>1, <1>2

LEMMA VersionsKeep ==
    ASSUME RestoreInv, Restore!ImportVersions
    PROVE  RestoreInv'
<1> USE DEF RestoreInv
<1>1. /\ restorePhase = "versions" /\ restorePhase' = "keys"
      /\ UNCHANGED <<backup, saved, sharing, sharingHere, idMap, shareMap,
             restoreTodo, unresolved>>
  BY DEF Restore!ImportVersions
<1>2. /\ db \in DbAt /\ mapped \in [pipe : BOOLEAN, versions : SUBSET {1}]
      /\ errors \in BOOLEAN
      /\ backup.versions = {Restore!Old(1, backup.ref, TRUE)}
      /\ backup.ref \in Int
  BY DEF RestoreTypes, Restore!Olds
<1>3. CASE mapped.pipe
  <2> DEFINE kept == {v \in db.versions : v.number # 1}
                         \cup {Restore!Old(1, backup.ref, TRUE)}
  <2>1. {v.number : v \in backup.versions} = {1}
    BY <1>2 DEF Restore!Old
  <2>2. /\ db' = [db EXCEPT !.versions = kept] /\ errors' = errors
        /\ mapped' = [mapped EXCEPT !.versions = {1}]
    BY <1>2, <1>3, <2>1 DEF Restore!ImportVersions
  <2>3. kept \in SUBSET VersionAt
    <3>1. Restore!Old(1, backup.ref, TRUE) \in VersionAt
      BY <1>2 DEF VersionAt, Restore!Old
    <3>2. db.versions \in SUBSET VersionAt
      BY <1>2 DEF DbAt
    <3> QED BY <3>1, <3>2
  <2>4. \A v \in kept : v.number = 1 => v.ref = backup.ref
    BY DEF Restore!Old
  <2> HIDE DEF kept
  <2>5. /\ db' \in DbAt /\ db'.assets = db.assets /\ db'.nextId = db.nextId
        /\ db'.pipe = db.pipe /\ db'.versions = kept
    BY <1>2, <2>2, <2>3 DEF DbAt
  <2>6. /\ mapped' \in [pipe : BOOLEAN, versions : SUBSET {1}]
        /\ mapped'.pipe = mapped.pipe /\ mapped'.versions = {1}
    BY <1>2, <2>2
  <2>7. RestoreTypes' /\ RowsKept' /\ MapTrue'
    <3> HIDE DEF RestoreInv
    <3> QED BY <1>1, <1>2, <2>2, <2>5, <2>6, RowsStay DEF AfterPipe
  <2>8. PipelineKnown'
    BY <1>1, <1>3, <2>2, <2>4, <2>5, <2>6 DEF PipelineKnown, BeforePipe,
       AfterPipe
  <2>9. SharesKnown'
    BY <1>1, <2>2, SharesStay
  <2> QED BY <2>7, <2>8, <2>9
<1>4. CASE ~mapped.pipe
  <2>1. errors' = TRUE /\ UNCHANGED <<db, mapped>>
    BY <1>4 DEF Restore!ImportVersions
  <2>2. RestoreTypes' /\ RowsKept' /\ MapTrue'
    <3> HIDE DEF RestoreInv
    <3> QED BY <1>1, <1>2, <2>1, RowsStay DEF AfterPipe
  <2>3. PipelineKnown'
    BY <1>1, <1>4, <2>1 DEF PipelineKnown, BeforePipe, AfterPipe
  <2>4. SharesKnown'
    BY <1>1, <2>1, SharesStay
  <2> QED BY <2>2, <2>3, <2>4
<1> QED BY <1>3, <1>4

\* A reference that can be mapped leads to the row of its asset.
LEMMA MappedTo ==
    ASSUME RestoreInv, restorePhase # "rolledback",
           NEW o \in Restore!Olds, NEW else
    PROVE  \/ Restore!Mapped(o, 0) = 0
           \/ Restore!Mapped(o, else) = idMap[o] /\ Restore!Refers(idMap[o], o)
BY DEF RestoreInv, MapTrue, Restore!Mapped

LEMMA KeysKeep ==
    ASSUME RestoreInv, Restore!ImportKeys
    PROVE  RestoreInv'
<1> USE DEF RestoreInv
<1>1. /\ restorePhase = "keys" /\ restorePhase' = "links"
      /\ UNCHANGED <<backup, saved, sharing, sharingHere, idMap, shareMap,
             restoreTodo, mapped, errors>>
      /\ unresolved \subseteq unresolved'
      /\ \A o \in backup.orphans : idMap[o] # 0 => "parent" \in unresolved'
  BY DEF Restore!ImportKeys
<1>2. /\ db \in DbAt /\ mapped \in [pipe : BOOLEAN, versions : SUBSET {1}]
      /\ errors \in BOOLEAN /\ backup.fk \in Restore!Olds
  BY DEF RestoreTypes
<1>3. CASE mapped.pipe
  <2> DEFINE fk == Restore!Mapped(backup.fk, db.pipe.fk)
  <2>1. /\ db' = [db EXCEPT !.pipe.fk = fk]
        /\ Restore!Mapped(backup.fk, 0) = 0 => "fk" \in unresolved'
    BY <1>2, <1>3 DEF Restore!ImportKeys, DbAt
  <2>2. fk \in Int
    <3>1. db.pipe.fk \in Int
      BY <1>2 DEF DbAt
    <3> QED BY <1>2, <3>1, MappedId
  <2>3. \/ Restore!Mapped(backup.fk, 0) = 0
        \/ fk = idMap[backup.fk] /\ Restore!Refers(idMap[backup.fk], backup.fk)
    <3> HIDE DEF RestoreInv
    <3> QED BY <1>1, <1>2, MappedTo
  <2> HIDE DEF fk
  <2>4. /\ db' \in DbAt /\ db'.assets = db.assets /\ db'.nextId = db.nextId
        /\ db'.pipe.fk = fk /\ db'.pipe.ref = db.pipe.ref
        /\ db'.versions = db.versions
    <3> DEFINE pipe == [db.pipe EXCEPT !.fk = fk]
    <3>1. /\ pipe \in [there : BOOLEAN, fk : Int, ref : Int]
          /\ pipe.fk = fk /\ pipe.ref = db.pipe.ref
      BY <1>2, <2>2 DEF DbAt
    <3>2. db' = [db EXCEPT !.pipe = pipe]
      BY <1>2, <2>1 DEF DbAt
    <3> HIDE DEF pipe
    <3> QED BY <1>2, <3>1, <3>2 DEF DbAt
  <2>5. RestoreTypes' /\ RowsKept' /\ MapTrue'
    <3> HIDE DEF RestoreInv
    <3> QED BY <1>1, <1>2, <2>4, RowsStay DEF AfterPipe
  <2>6. Restore!Refers(db.pipe.fk, backup.fk)' \/ "fk" \in unresolved'
    BY <1>1, <2>1, <2>3, <2>4 DEF Restore!Refers, Restore!Made
  <2>7. PipelineKnown'
    BY <1>1, <2>4, <2>6 DEF PipelineKnown, BeforePipe, AfterPipe
  <2>8. SharesKnown'
    BY <1>1, <2>4, SharesStay
  <2> QED BY <2>5, <2>7, <2>8
<1>4. CASE ~mapped.pipe
  <2>1. UNCHANGED db
    BY <1>4 DEF Restore!ImportKeys
  <2>2. RestoreTypes' /\ RowsKept' /\ MapTrue'
    <3> HIDE DEF RestoreInv
    <3> QED BY <1>1, <1>2, <2>1, RowsStay DEF AfterPipe
  <2>3. PipelineKnown'
    BY <1>1, <1>4, <2>1 DEF PipelineKnown, BeforePipe, AfterPipe
  <2>4. SharesKnown'
    BY <1>1, <2>1, SharesStay
  <2> QED BY <2>2, <2>3, <2>4
<1> QED BY <1>3, <1>4

\* The share is led to the row of its asset, or its reference is reported.
LEMMA LinksKeep ==
    ASSUME RestoreInv, Restore!RemapShares
    PROVE  RestoreInv'
<1> USE DEF RestoreInv
<1> DEFINE goal == Restore!Mapped(sharing[shareMap], sharing[shareMap])
<1>1. /\ restorePhase = "links" /\ restorePhase' = "refs"
      /\ UNCHANGED <<backup, db, saved, sharingHere, idMap, shareMap,
                     restoreTodo, mapped, errors>>
      /\ unresolved \subseteq unresolved'
      /\ sharing' = IF shareMap = 0 THEN sharing
                    ELSE [sharing EXCEPT ![shareMap] = goal]
      /\ shareMap # 0 /\ Restore!Mapped(sharing[shareMap], 0) = 0 =>
             "share" \in unresolved'
  BY DEF Restore!RemapShares, Restore!Target
<1>2. /\ db \in DbAt /\ mapped \in [pipe : BOOLEAN, versions : SUBSET {1}]
      /\ errors \in BOOLEAN
  BY DEF RestoreTypes
<1>3. RestoreTypes' /\ RowsKept' /\ MapTrue'
  <2> HIDE DEF RestoreInv
  <2> QED BY <1>1, <1>2, RowsStay DEF AfterPipe
<1>4. PipelineKnown'
  BY <1>1 DEF PipelineKnown, BeforePipe, AfterPipe, Restore!Refers, Restore!Made
<1>5. SharesKnown'
  <2>1. CASE shareMap = 0
    BY <1>1, <2>1 DEF SharesKnown, AfterPipe
  <2>2. CASE shareMap # 0
    <3>1. /\ shareMap \in 1..2 /\ sharing[shareMap] = backup.share
          /\ backup.share \in Restore!Olds
      BY <1>1, <2>2 DEF SharesKnown
    <3>2. goal \in Int
      <4>1. backup.share \in Int
        BY <3>1 DEF Restore!Olds
      <4> HIDE DEF RestoreInv
      <4> QED BY <3>1, <4>1, MappedId
    <3>3. \/ "share" \in unresolved'
          \/ goal = idMap[backup.share]
             /\ Restore!Refers(idMap[backup.share], backup.share)
      <4> HIDE DEF RestoreInv
      <4> QED BY <1>1, <2>2, <3>1, MappedTo
    <3> HIDE DEF goal
    <3>4. /\ sharing' \in [1..2 -> Int] /\ sharing'[shareMap] = goal
          /\ shareMap # 1 => sharing'[1] = sharing[1]
      BY <1>1, <2>2, <3>1, <3>2 DEF SharesKnown
    <3>5. shareMap = 1 => sharingHere[1] = backup.share
      BY <1>1 DEF SharesKnown
    <3>6. \/ (Restore!Refers(sharing[shareMap], backup.share))'
          \/ "share" \in unresolved'
      BY <1>1, <3>3, <3>4 DEF Restore!Refers, Restore!Made
    <3> QED BY <1>1, <2>2, <3>1, <3>4, <3>5, <3>6 DEF SharesKnown, AfterPipe
  <2> QED BY <2>1, <2>2
<1> QED BY <1>3, <1>4, <1>5

LEMMA RefsKeep ==
    ASSUME RestoreInv, Restore!RemapRefs
    PROVE  RestoreInv'
<1> USE DEF RestoreInv
<1> DEFINE ref == IF mapped.pipe THEN Restore!Mapped(db.pipe.ref, db.pipe.ref)
                  ELSE db.pipe.ref
           To(v) == IF v.number \in mapped.versions
               THEN Restore!Mapped(v.ref, v.ref)
                    ELSE v.ref
           kept == {[v EXCEPT !.ref = To(v)] : v \in db.versions}
<1>1. /\ restorePhase = "refs" /\ restorePhase' = "commit"
      /\ UNCHANGED <<backup, saved, sharing, sharingHere, idMap, shareMap,
             restoreTodo, mapped, errors>>
      /\ Restore!Mapped(db.pipe.ref, 0) = 0 =>
             "ref" \in unresolved' \/ ~mapped.pipe
      /\ unresolved \subseteq unresolved'
  BY DEF Restore!RemapRefs
<1>2. /\ db \in DbAt /\ mapped \in [pipe : BOOLEAN, versions : SUBSET {1}]
      /\ errors \in BOOLEAN /\ backup.ref \in Restore!Olds
      /\ idMap \in [Restore!Olds -> 0..MaxId]
  BY DEF RestoreTypes
<1>3. \A id \in Int : Restore!Mapped(id, id) \in Int
  BY <1>2 DEF Restore!Mapped
<1>4. ref \in Int /\ \A v \in VersionAt : To(v) \in Int
  BY <1>2, <1>3 DEF DbAt, VersionAt
<1>5. /\ kept \in SUBSET VersionAt
      /\ \A w \in kept : \E v \in db.versions :
            w.number = v.number /\ w.ref = To(v)
  <2>1. ASSUME NEW v \in db.versions
        PROVE  LET w == [v EXCEPT !.ref = To(v)]
               IN  w \in VersionAt /\ w.number = v.number /\ w.ref = To(v)
    <3>1. v \in VersionAt /\ To(v) \in Int
      BY <1>2, <1>4 DEF DbAt
    <3> HIDE DEF To
    <3> QED BY <3>1 DEF VersionAt
  <2> HIDE DEF To
  <2> QED BY <2>1
<1>6. /\ db' \in DbAt /\ db'.assets = db.assets /\ db'.nextId = db.nextId
      /\ db'.pipe.fk = db.pipe.fk /\ db'.pipe.ref = ref
      /\ db'.versions = kept
  <2> DEFINE pipe == [db.pipe EXCEPT !.ref = ref]
  <2>1. /\ pipe \in [there : BOOLEAN, fk : Int, ref : Int]
        /\ pipe.ref = ref /\ pipe.fk = db.pipe.fk
    <3> HIDE DEF ref
    <3> QED BY <1>2, <1>4 DEF DbAt
  <2>2. db' = [db EXCEPT !.pipe = pipe, !.versions = kept]
    BY <1>2 DEF Restore!RemapRefs, DbAt
  <2> HIDE DEF pipe, kept, ref
  <2>3. db' = [assets |-> db.assets, nextId |-> db.nextId, pipe |-> pipe,
               versions |-> kept]
    BY <1>2, <2>2 DEF DbAt
  <2> QED BY <1>2, <1>5, <2>1, <2>3 DEF DbAt
<1> HIDE DEF kept
<1>7. RestoreTypes' /\ RowsKept' /\ MapTrue'
  <2> HIDE DEF RestoreInv
  <2> QED BY <1>1, <1>2, <1>6, RowsStay DEF AfterPipe
<1>8. mapped.pipe =>
         \/ /\ Restore!Refers(ref, backup.ref)
            /\ \A w \in kept : w.number \in mapped.versions => w.ref = ref
         \/ "ref" \in unresolved'
  <2> SUFFICES ASSUME mapped.pipe, Restore!Mapped(db.pipe.ref, 0) # 0
               PROVE  /\ Restore!Refers(ref, backup.ref)
                      /\ \A w \in kept :
                            w.number \in mapped.versions => w.ref = ref
    BY <1>1
  <2>1. /\ db.pipe.ref = backup.ref
        /\ \A v \in db.versions : v.number \in mapped.versions =>
              v.ref = backup.ref
    BY <1>1 DEF PipelineKnown
  <2>2. Restore!Refers(ref, backup.ref)
    <3> HIDE DEF RestoreInv
    <3> QED BY <1>1, <1>2, <2>1, MappedTo
  <2>3. ASSUME NEW w \in kept, w.number \in mapped.versions
        PROVE  w.ref = ref
    BY <1>5, <2>1, <2>3
  <2> QED BY <2>2, <2>3
<1> HIDE DEF ref
<1>9. PipelineKnown'
  <2>1. mapped'.pipe =>
            Restore!Refers(db.pipe.fk, backup.fk)' \/ "fk" \in unresolved'
    BY <1>1, <1>6 DEF PipelineKnown, Restore!Refers, Restore!Made
  <2>2. mapped'.pipe =>
           \/ /\ Restore!Refers(db.pipe.ref, backup.ref)'
              /\ \A v \in db'.versions :
                    v.number \in mapped'.versions => v.ref = db'.pipe.ref
           \/ "ref" \in unresolved'
    BY <1>1, <1>6, <1>8 DEF Restore!Refers, Restore!Made
  <2> QED BY <1>1, <2>1, <2>2 DEF PipelineKnown, BeforePipe, AfterPipe
<1>10. SharesKnown'
  BY <1>1, <1>6, SharesStay
<1> QED BY <1>7, <1>9, <1>10

\* The transaction ends.
LEMMA CommitKeeps ==
    ASSUME RestoreInv,
           Restore!Commit \/ Restore!RollBack \/ Restore!RefuseShare
    PROVE  RestoreInv'
<1> USE DEF RestoreInv
<1>1. CASE Restore!Commit
  <2>1. /\ restorePhase = "commit" /\ restorePhase' = "committed"
        /\ UNCHANGED <<backup, db, saved, sharing, sharingHere, idMap,
               shareMap, restoreTodo, mapped, errors, unresolved>>
    BY <1>1 DEF Restore!Commit
  <2>2. /\ db \in DbAt /\ mapped \in [pipe : BOOLEAN, versions : SUBSET {1}]
        /\ errors \in BOOLEAN
    BY DEF RestoreTypes
  <2>3. RestoreTypes' /\ RowsKept' /\ MapTrue'
    <3> HIDE DEF RestoreInv
    <3> QED BY <2>1, <2>2, RowsStay DEF AfterPipe
  <2>4. PipelineKnown'
    BY <2>1 DEF PipelineKnown, BeforePipe, AfterPipe, Restore!Refers,
       Restore!Made
  <2>5. SharesKnown'
    BY <2>1, SharesStay
  <2> QED BY <2>3, <2>4, <2>5
<1>2. CASE Restore!RollBack \/ Restore!RefuseShare
  <2>1. /\ db' = saved /\ errors' = TRUE /\ restorePhase' = "rolledback"
        /\ sharing' = sharingHere
        /\ restorePhase \notin {"idle", "unread", "committed", "rolledback"}
        /\ UNCHANGED <<backup, saved, sharingHere, idMap, shareMap, restoreTodo,
               mapped>>
    BY <1>2 DEF Restore!RollBack, Restore!RefuseShare
  <2>2. RestoreTypes'
    BY <2>1 DEF RestoreTypes
  <2>3. RowsKept'
    BY <2>1 DEF RowsKept, Restore!Single
  <2>4. MapTrue' /\ PipelineKnown'
    BY <2>1 DEF MapTrue, PipelineKnown, BeforePipe, AfterPipe
  <2>5. SharesKnown'
    BY <2>1 DEF SharesKnown, AfterPipe
  <2> QED BY <2>2, <2>3, <2>4, <2>5
<1> QED BY <1>1, <1>2

LEMMA RestoreStep == ASSUME RestoreInv, [Restore!Next]_restoreVars
                     PROVE  RestoreInv'
<1>1. CASE Restore!Next
  <2>1. CASE Restore!Generate \/ Restore!RestoreFile \/ Restore!Upload
                 \/ Restore!UploadEnd \/ Restore!Delete
    BY <2>1, FileKeeps
  <2>2. ASSUME NEW o \in Restore!Olds, Restore!ImportAsset(o) PROVE RestoreInv'
    BY <2>2, ImportKeeps
  <2>3. ASSUME NEW o \in Restore!Olds, Restore!SkipAsset(o) PROVE RestoreInv'
    BY <2>3, SkipKeeps
  <2>4. CASE Restore!ImportPipeline \/ Restore!SkipPipeline
    BY <2>4, PipelineKeeps
  <2>5. CASE Restore!ImportVersions
    BY <2>5, VersionsKeep
  <2>6. CASE Restore!ImportKeys \/ Restore!RemapShares \/ Restore!RemapRefs
    BY <2>6, KeysKeep, LinksKeep, RefsKeep
  <2>7. CASE Restore!Commit \/ Restore!RollBack \/ Restore!RefuseShare
    BY <2>7, CommitKeeps
  <2>8. CASE Restore!ImportShare \/ Restore!SkipShare
    BY <2>8, ShareKeeps
  <2> HIDE DEF RestoreInv
  <2> QED BY <1>1, <2>1, <2>2, <2>3, <2>4, <2>5, <2>6, <2>7, <2>8
     DEF Restore!Next
<1>2. CASE UNCHANGED restoreVars
  <2>1. UNCHANGED <<backup, db, saved, sharing, sharingHere, idMap, shareMap,
                    restoreTodo, mapped, errors, unresolved, restorePhase>>
    BY <1>2 DEF restoreVars
  <2>2. RestoreTypes'
    BY <2>1 DEF RestoreInv, RestoreTypes
  <2>3. RowsKept'
    BY <2>1 DEF RestoreInv, RowsKept, Restore!Single
  <2>4. MapTrue'
    BY <2>1 DEF RestoreInv, MapTrue, Restore!Refers, Restore!Made
  <2>5. PipelineKnown'
    BY <2>1 DEF RestoreInv, PipelineKnown, Restore!Refers, Restore!Made
  <2>6. SharesKnown'
    BY <2>1 DEF RestoreInv, SharesKnown, Restore!Refers, Restore!Made
  <2> QED BY <2>2, <2>3, <2>4, <2>5, <2>6 DEF RestoreInv
<1> QED BY <1>1, <1>2

LEMMA RestoreFollows == RestoreInv => Restore!RestoreSound
<1> SUFFICES ASSUME RestoreInv PROVE Restore!RestoreSound
  OBVIOUS
<1>1. Restore!Left
  BY DEF RestoreInv, RowsKept, SharesKnown, Restore!Left
<1>2. /\ Restore!Single
      /\ restorePhase = "rolledback" =>
             db = saved /\ sharing = sharingHere /\ errors
  BY DEF RestoreInv, RowsKept, SharesKnown
<1>3. restorePhase = "committed" => Restore!Resolved
  BY DEF RestoreInv, PipelineKnown, SharesKnown, Restore!Resolved
<1>4. restorePhase = "committed" /\ ~errors =>
         /\ mapped.pipe /\ (backup.share # 0 => shareMap # 0)
         /\ \A o \in Restore!Olds : backup.assets[o] # Restore!NoAsset =>
                Restore!Refers(idMap[o], o)
  BY DEF RestoreInv, PipelineKnown, SharesKnown, MapTrue, AfterPipe
<1> QED BY <1>1, <1>2, <1>3, <1>4 DEF Restore!RestoreSound

LEMMA RestoreSteps ==
    ASSUME part = "restore", [Next]_vars
    PROVE  [Restore!Next]_restoreVars
BY DEF Next, vars, restoreVars

\* Whatever rows are here, every reference of what was imported leads to the
\* row its record has here or is reported; rows that were here stay as they
\* were and none is doubled, where the table has a natural key: one matched by
\* old ids may be taken over, and one without a key is doubled.  A roll-back
\* leaves what was here.  For any assets.
\* Code: the id map, unique_fields and the errors of BackupImporter.
RestoreHeld == part = "restore" => RestoreInv
THEOREM RestoreHolds == Spec => []RestoreSound
<1>1. Init => RestoreHeld
  BY RestoreInit DEF Init, RestoreHeld
<1>2. RestoreHeld /\ [Next]_vars => RestoreHeld'
  BY PartStays, RestoreSteps, RestoreStep DEF RestoreHeld
<1>3. RestoreHeld => RestoreSound
  BY RestoreFollows DEF RestoreHeld, RestoreSound
<1> QED BY <1>1, <1>2, <1>3, PTL DEF Spec

-----------------------------------------------------------------------------
(* The evidence of a diagnosis: what is collected and indexed.               *)

\* What failed is what is warned about.
WarnedOf ==
    warned = {s \in Context!Source : source[s] = "failed"}
             \cup {c \in Context!Collector : collector[c] = "failed"}
\* Lists with items are those of collectors that succeeded.
DataFrom ==
    \A c \in Context!Collector : \A s \in Context!SectionsOf(c) :
        data[s] # 0 => collector[c] = "success"
Unasked == [cited |-> {}, valid |-> 0]
\* The index and the timeline are those of the lists as they are.
BuiltOnce ==
    phase \in {"ask", "saved"} =>
        evidence = Context!Built /\ timeline = Context!Drawn
Reported ==
    IF phase = "saved" THEN report.valid = Context!Valid(report.cited)
    ELSE report = Unasked
ContextInv ==
    /\ source \in [Context!Source -> {"skipped", "todo", "success", "failed"}]
    /\ collector
           \in [Context!Collector -> {"off", "pending", "running", "success",
                                    "failed"}]
    /\ data \in [Section -> Nat]
    /\ WarnedOf /\ DataFrom /\ BuiltOnce /\ Reported

LEMMA SectionsApart ==
    ASSUME NEW c \in Context!Collector, NEW d \in Context!Collector,
           NEW s \in Context!SectionsOf(c),
           s \in Context!SectionsOf(d)
    PROVE  c = d
BY DEF Context!Collector, Context!SectionsOf

LEMMA ContextInit == Context!Init => ContextInv
<1> SUFFICES ASSUME Context!Init PROVE ContextInv
  OBVIOUS
<1>1. PICK on \in SUBSET Context!Collector, service \in BOOLEAN :
          Context!Fresh(on, service)
  BY DEF Context!Init
<1>2. DataFrom
  BY <1>1 DEF Context!Fresh, DataFrom, Context!SectionsOf
<1> QED BY <1>1, <1>2 DEF ContextInv, Context!Fresh, WarnedOf, BuiltOnce,
           Reported, Unasked

\* As long as nothing is built, what the lists hold may change.
LEMMA BeforeBuild ==
    ASSUME ContextInv, phase \in {"sources", "collect"},
           phase' \in {"sources", "collect"}, UNCHANGED report
    PROVE  BuiltOnce' /\ Reported'
BY DEF ContextInv, BuiltOnce, Reported, Unasked

LEMMA QueryKeeps ==
    ASSUME ContextInv, NEW s \in Context!Source, Context!QuerySource(s)
    PROVE  ContextInv'
<1>1. BuiltOnce' /\ Reported'
  BY BeforeBuild DEF Context!QuerySource
<1>2. WarnedOf'
  <2>1. CASE source' = [source EXCEPT ![s] = "success"] /\ UNCHANGED warned
    BY <2>1 DEF ContextInv, WarnedOf, Context!QuerySource
  <2>2. CASE source' = [source EXCEPT ![s] = "failed"]
                 /\ warned' = warned \cup {s}
    BY <2>2 DEF ContextInv, WarnedOf, Context!QuerySource
  <2> QED BY <2>1, <2>2 DEF Context!QuerySource
<1> QED BY <1>1, <1>2 DEF ContextInv, Context!QuerySource, DataFrom

LEMMA PoolKeeps ==
    ASSUME ContextInv, NEW c \in Context!Collector,
           Context!Collect(c) \/ Context!CollectorReturns(c)
               \/ Context!CollectorRaises(c)
    PROVE  ContextInv'
<1>0. BuiltOnce' /\ Reported'
  BY BeforeBuild DEF Context!Collect, Context!CollectorReturns,
     Context!CollectorRaises
<1>1. CASE Context!Collect(c)
  <2>1. WarnedOf'
    BY <1>1 DEF ContextInv, WarnedOf, Context!Collect
  <2>2. DataFrom'
    BY <1>1 DEF ContextInv, DataFrom, Context!Collect
  <2> QED BY <1>0, <1>1, <2>1, <2>2 DEF ContextInv, Context!Collect
<1>2. CASE Context!CollectorReturns(c)
  <2>1. WarnedOf'
    BY <1>2 DEF ContextInv, WarnedOf, Context!CollectorReturns
  <2>2. PICK items \in [Context!SectionsOf(c) -> 0..MaxItems] :
           data' =
               [s \in Section |-> IF s \in Context!SectionsOf(c) THEN items[s]
                   ELSE data[s]]
    BY <1>2 DEF Context!CollectorReturns, Context!Fill
  <2>3. data' \in [Section -> Nat]
    BY <2>2, ContextNames DEF ContextInv
  <2>4. DataFrom'
    <3> SUFFICES ASSUME NEW d \in Context!Collector,
                        NEW s \in Context!SectionsOf(d), data'[s] # 0
                 PROVE  collector'[d] = "success"
      BY DEF DataFrom
    <3>0. s \in Section
      BY DEF Context!SectionsOf
    <3>1. CASE d = c
      BY <1>2, <3>1 DEF ContextInv, Context!CollectorReturns
    <3>2. CASE d # c
      <4>1. s \notin Context!SectionsOf(c)
        BY <3>2, SectionsApart
      <4>2. data[s] # 0
        BY <2>2, <4>1, <3>0
      <4>3. collector[d] = "success"
        BY <4>2 DEF ContextInv, DataFrom
      <4> QED BY <4>3, <3>2, <1>2 DEF ContextInv, Context!CollectorReturns
    <3> QED BY <3>1, <3>2
  <2> QED BY <1>0, <1>2, <2>1, <2>3, <2>4 DEF ContextInv,
             Context!CollectorReturns
<1>3. CASE Context!CollectorRaises(c)
  <2>1. WarnedOf'
    BY <1>3 DEF ContextInv, WarnedOf, Context!CollectorRaises
  <2>2. DataFrom'
    BY <1>3 DEF ContextInv, DataFrom, Context!CollectorRaises
  <2> QED BY <1>0, <1>3, <2>1, <2>2 DEF ContextInv, Context!CollectorRaises
<1> QED BY <1>1, <1>2, <1>3

LEMMA BuildKeeps == ASSUME ContextInv, Context!BuildContext PROVE ContextInv'
<1>1. Context!Built' = Context!Built /\ Context!Drawn' = Context!Drawn
  BY DEF Context!BuildContext, Context!Built, Context!Drawn, Context!Copied,
     Context!Sourced, Context!Label, Context!SourceItems, Context!Listed,
     Context!Items,
     Context!Deployment
<1>2. BuiltOnce'
  BY <1>1 DEF Context!BuildContext, BuiltOnce
<1>3. WarnedOf' /\ DataFrom' /\ Reported'
  BY DEF ContextInv, Context!BuildContext, WarnedOf, DataFrom, Reported
<1> QED BY <1>2, <1>3 DEF ContextInv, Context!BuildContext

LEMMA ReportKeeps == ASSUME ContextInv, Context!Report PROVE ContextInv'
<1>1. Context!Built' = Context!Built /\ Context!Drawn' = Context!Drawn
  BY DEF Context!Report, Context!Built, Context!Drawn, Context!Copied,
     Context!Sourced, Context!Label, Context!SourceItems, Context!Listed,
     Context!Items,
     Context!Deployment
<1>2. BuiltOnce'
  BY <1>1 DEF ContextInv, Context!Report, BuiltOnce
<1>3. PICK cited : report' = [cited |-> cited, valid |-> Context!Valid(cited)]
  BY DEF Context!Report
<1>4. Context!Valid(cited) = Context!Valid(cited)'
  BY DEF Context!Report, Context!Valid
<1>5. Reported'
  BY <1>3, <1>4 DEF Context!Report, Reported
<1>6. WarnedOf' /\ DataFrom'
  BY DEF ContextInv, Context!Report, WarnedOf, DataFrom
<1> QED BY <1>2, <1>5, <1>6 DEF ContextInv, Context!Report

LEMMA GiveUpKeeps == ASSUME ContextInv, Context!GiveUp PROVE ContextInv'
<1>1. CASE attempt < Attempts
  <2>1. source'
            \in [Context!Source -> {"skipped", "todo", "success", "failed"}]
    BY <1>1 DEF Context!GiveUp
  <2>2. collector'
            \in [Context!Collector -> {"off", "pending", "running", "success",
                "failed"}]
    BY <1>1 DEF Context!GiveUp
  <2>3. data' \in [Section -> Nat] /\ DataFrom'
    BY <1>1 DEF Context!GiveUp, DataFrom, Context!SectionsOf
  <2>4. WarnedOf'
    BY <1>1 DEF Context!GiveUp, WarnedOf
  <2>5. BuiltOnce' /\ Reported'
    BY <1>1 DEF ContextInv, Context!GiveUp, BuiltOnce, Reported
  <2> QED BY <2>1, <2>2, <2>3, <2>4, <2>5 DEF ContextInv
<1>2. CASE ~(attempt < Attempts)
  BY <1>2 DEF ContextInv, Context!GiveUp, WarnedOf, DataFrom, BuiltOnce,
     Reported
<1> QED BY <1>1, <1>2

LEMMA ContextStep == ASSUME ContextInv, [Context!Next]_contextVars
                     PROVE  ContextInv'
<1>1. CASE UNCHANGED contextVars
  <2>1. Context!Built' = Context!Built /\ Context!Drawn' = Context!Drawn
    BY <1>1 DEF contextVars, Context!Built, Context!Drawn, Context!Copied,
       Context!Sourced, Context!Label, Context!SourceItems, Context!Listed,
     Context!Items,
       Context!Deployment
  <2>2. BuiltOnce' /\ Reported'
    BY <1>1, <2>1 DEF ContextInv, contextVars, BuiltOnce, Reported,
       Context!Valid
  <2> QED BY <1>1, <2>2 DEF ContextInv, contextVars, WarnedOf, DataFrom
<1>2. CASE Context!StartCollectors
  <2>1. BuiltOnce' /\ Reported'
    BY <1>2, BeforeBuild DEF Context!StartCollectors
  <2> QED BY <1>2, <2>1 DEF ContextInv, Context!StartCollectors, WarnedOf,
             DataFrom
<1> QED BY <1>1, <1>2, QueryKeeps, PoolKeeps, BuildKeeps, ReportKeeps,
           GiveUpKeeps DEF Context!Next

\* A reference of the index leads to one item, or to metrics of one name.
LEMMA OneItem ==
    \A e, d \in Context!Built :
        e[1] = d[1] => e = d \/ Context!Namesakes(e[2], d[2])
<1> DEFINE Old(e) == \E i : \/ e = <<<<"LOG", i>>, <<first["logs"], i>>>>
                            \/ e = <<<<"METRIC", i>>, <<first["metrics"], i>>>>
           Own(e) == \E s \in Context!Source : \E i \in Context!SourceItems(s) :
                        e = <<<<s, Context!Label(s, i)>>, <<s, i>>>>
           Line(e) == \E s \in Section, i \in Nat : e = <<<<s, i>>, <<s, i>>>>
<1>1. \A e \in Context!Built : Old(e) \/ Own(e) \/ Line(e)
  BY DEF Context!Built, Context!Copied, Context!Sourced, Context!SourceItems,
     Context!Listed, Context!Items
<1>2. /\ "LOG" \notin Context!Source \cup Section
      /\ "METRIC" \notin Context!Source \cup Section
      /\ Context!Source \cap Section = {}
  BY ContextNames
<1> SUFFICES ASSUME NEW e \in Context!Built, NEW d \in Context!Built,
                    e[1] = d[1]
             PROVE  e = d \/ Context!Namesakes(e[2], d[2])
  OBVIOUS
<1>3. CASE Own(e) /\ Own(d)
  <2>1. PICK s \in Context!Source : \E i \in Context!SourceItems(s) :
           e = <<<<s, Context!Label(s, i)>>, <<s, i>>>>
    BY <1>3
  <2>2. PICK t \in Context!Source : \E j \in Context!SourceItems(t) :
           d = <<<<t, Context!Label(t, j)>>, <<t, j>>>>
    BY <1>3
  <2>3. PICK i \in Context!SourceItems(s), j \in Context!SourceItems(t) :
           /\ e = <<<<s, Context!Label(s, i)>>, <<s, i>>>>
           /\ d = <<<<t, Context!Label(t, j)>>, <<t, j>>>>
    BY <2>1, <2>2
  <2>4. s = t /\ Context!Label(s, i) = Context!Label(s, j)
    BY <2>3
  <2>5. CASE s \in MetricSource
    <3>1. lines[s][i] = lines[s][j]
      BY <2>4, <2>5 DEF Context!Label
    <3> QED BY <2>3, <2>4, <2>5, <3>1 DEF Context!Namesakes
  <2>6. CASE s \notin MetricSource
    BY <2>3, <2>4, <2>6 DEF Context!Label
  <2> QED BY <2>5, <2>6
<1>4. CASE ~(Own(e) /\ Own(d))
  BY <1>1, <1>2, <1>4
<1> QED BY <1>3, <1>4

LEMMA ContextFollows == ContextInv => Context!ContextSound
<1> SUFFICES ASSUME ContextInv PROVE Context!Complete /\ Context!RefsResolve
  BY DEF Context!ContextSound
<1>1. ASSUME phase \in {"ask", "saved"}
      PROVE  /\ evidence = Context!Built /\ timeline = Context!Drawn
             /\ timeline \ Context!Deployment \subseteq evidence
  <2>1. evidence = Context!Built /\ timeline = Context!Drawn
    BY <1>1 DEF ContextInv, BuiltOnce
  <2>2. Context!Drawn \ Context!Deployment \subseteq Context!Built
    BY DEF Context!Drawn, Context!Built, Context!Source
  <2> QED BY <2>1, <2>2
<1>2. Context!Complete
  <2> SUFFICES ASSUME phase = "saved"
               PROVE  /\ \A s \in Context!Source :
                             \A i \in Context!SourceItems(s) :
                            \E e \in evidence : e[2] = <<s, i>>
                      /\ \A c \in Context!Collector :
                             \A s \in Context!SectionsOf(c) :
                            Context!Items(s) # {} =>
                               /\ collector[c] = "success"
                               /\ Context!Listed(s) \subseteq evidence
    BY DEF Context!Complete, ContextInv, WarnedOf
  <2>1. evidence = Context!Built
    BY <1>1
  <2>2. ASSUME NEW s \in Context!Source, NEW i \in Context!SourceItems(s)
        PROVE  \E e \in evidence : e[2] = <<s, i>>
    <3>1. <<<<s, Context!Label(s, i)>>, <<s, i>>>> \in evidence
      BY <2>1 DEF Context!Built, Context!Sourced
    <3> QED BY <3>1
  <2>3. ASSUME NEW c \in Context!Collector,
               NEW s \in Context!SectionsOf(c), Context!Items(s) # {}
        PROVE  collector[c] = "success" /\ Context!Listed(s) \subseteq evidence
    <3>1. s \in Section
      BY DEF Context!SectionsOf
    <3>2. data[s] # 0
      BY <2>3, <3>1 DEF ContextInv, Context!Items
    <3>3. collector[c] = "success"
      BY <3>2 DEF ContextInv, DataFrom
    <3>4. Context!Listed(s) \subseteq evidence
      BY <2>1, <3>1 DEF Context!Built
    <3> QED BY <3>3, <3>4
  <2> QED BY <2>2, <2>3
<1>3. Context!RefsResolve
  <2> DEFINE Dated == timeline \ Context!Deployment
             Cites == {e[1] : e \in evidence} \cup {e[1] : e \in Dated}
  <2> SUFFICES ASSUME phase \in {"ask", "saved"}
               PROVE  /\ \A e, d \in evidence :
                            e[1] = d[1] => \/ e = d
                                           \/ Context!Namesakes(e[2], d[2])
                      /\ Dated \subseteq evidence
                      /\ report.cited \subseteq Cites =>
                            report.valid = Cardinality(report.cited)
    BY DEF Context!RefsResolve, Context!Cardinality, Cardinality
  <2>1. \A e, d \in evidence :
           e[1] = d[1] => e = d \/ Context!Namesakes(e[2], d[2])
    BY <1>1, OneItem
  <2>2. ASSUME report.cited \subseteq Cites
        PROVE  report.valid = Cardinality(report.cited)
    <3>1. CASE phase = "ask"
      <4>1. report = Unasked
        BY <3>1 DEF ContextInv, Reported
      <4> QED BY <4>1, FS_EmptySet DEF Unasked
    <3>2. CASE phase = "saved"
      <4>1. report.valid = Context!Valid(report.cited)
        BY <3>2 DEF ContextInv, Reported
      <4>2. report.cited \cap {e[1] : e \in evidence} = report.cited
        BY <2>2, <1>1
      <4> QED BY <4>1, <4>2 DEF Context!Valid, Context!Cardinality, Cardinality
    <3> QED BY <3>1, <3>2
  <2> QED BY <1>1, <2>1, <2>2
<1> QED BY <1>2, <1>3

-----------------------------------------------------------------------------
(* The prompt of a diagnosis: sums, ranks and what fits.                     *)

\* A set of natural numbers has a least element.
LEMMA Least ==
    ASSUME NEW T \in SUBSET Nat, T # {}
    PROVE  \E n \in T : \A m \in T : n <= m
<1> DEFINE R == OpToRel(<, Nat)
<1>1. IsWellFoundedOn(R, Nat)
  BY NatLessThanWellFounded
<1> HIDE DEF R
<1>2. PICK x \in T : \A y \in T : ~(<<y, x>> \in R)
  BY <1>1, WFMin
<1>3. \A y \in T : y < x => <<y, x>> \in R
  BY DEF R, OpToRel
<1>4. ASSUME NEW y \in T PROVE x <= y
  <2>1. x \in Nat /\ y \in Nat
    BY <1>2
  <2>2. ~(y < x)
    BY <1>2, <1>3
  <2> QED BY <2>1, <2>2
<1> QED BY <1>2, <1>4

\* What holds of 0 and goes from each number to the next holds up to N.
LEMMA UpTo ==
    ASSUME NEW N \in Nat, NEW T, 0 \in T,
           \A n \in 0..N : n # N /\ n \in T => n + 1 \in T
    PROVE  \A n \in 0..N : n \in T
<1> DEFINE U == {n \in 0..N : n \notin T}
<1> SUFFICES ASSUME U # {} PROVE FALSE
  OBVIOUS
<1>1. U \in SUBSET Nat
  OBVIOUS
<1>2. PICK n \in U : \A m \in U : n <= m
  <2> HIDE DEF U
  <2> QED BY <1>1, Least
<1>3. n \in 0..N /\ n \notin T /\ n # 0
  OBVIOUS
<1>4. n - 1 \in 0..N /\ n - 1 # N /\ n - 1 \notin U /\ (n - 1) + 1 = n
  BY <1>2, <1>3
<1> QED BY <1>3, <1>4

-----------------------------------------------------------------------------
\* The sums of the first numbers of a sequence, up to n of them.
Sums(q, n, f) == f = [k \in 0..n |-> IF k = 0 THEN 0 ELSE f[k - 1] + q[k]]

LEMMA SumsExist ==
    ASSUME NEW q \in Seq(Nat)
    PROVE  \A n \in 0..Len(q) : \E f : Sums(q, n, f)
<1> DEFINE T == {n \in 0..Len(q) : \E f : Sums(q, n, f)}
<1>0. Len(q) \in Nat
  OBVIOUS
<1>1. 0 \in T
  <2> DEFINE f == [k \in 0..0 |-> 0]
  <2>1. f = [k \in 0..0 |-> IF k = 0 THEN 0 ELSE f[k - 1] + q[k]]
    OBVIOUS
  <2>2. Sums(q, 0, f)
    BY <2>1 DEF Sums
  <2> QED BY <2>2, <1>0
<1>2. ASSUME NEW n \in 0..Len(q), n # Len(q), n \in T
      PROVE  n + 1 \in T
  <2>1. PICK f : Sums(q, n, f)
    BY <1>2
  <2> DEFINE g == [k \in 0..(n + 1) |-> IF k = n + 1 THEN f[n] + q[k]
          ELSE f[k]]
             h == [k \in 0..(n + 1) |-> IF k = 0 THEN 0 ELSE g[k - 1] + q[k]]
  <2>2. ASSUME NEW k \in 0..(n + 1) PROVE g[k] = h[k]
    <3>1. CASE k = n + 1
      BY <3>1
    <3>2. CASE k # n + 1
      <4>1. k \in 0..n /\ (k # 0 => k - 1 \in 0..(n + 1) /\ k - 1 # n + 1)
        BY <3>2
      <4>2. f[k] = IF k = 0 THEN 0 ELSE f[k - 1] + q[k]
        BY <2>1, <4>1 DEF Sums
      <4>3. g[k] = f[k] /\ (k # 0 => g[k - 1] = f[k - 1])
        BY <3>2, <4>1
      <4> QED BY <4>2, <4>3
    <3> QED BY <3>1, <3>2
  <2>3. g = h
    BY <2>2
  <2> HIDE DEF g
  <2>4. Sums(q, n + 1, g)
    BY <2>3 DEF Sums
  <2>5. n + 1 \in 0..Len(q)
    BY <1>0, <1>2
  <2> QED BY <2>4, <2>5
<1> HIDE DEF T
<1>3. \A n \in 0..Len(q) : n \in T
  BY <1>0, <1>1, <1>2, UpTo
<1> QED BY <1>3 DEF T

\* The total of a sequence of numbers is a number, and nothing for zeros.
LEMMA TotalIs ==
    ASSUME NEW q \in Seq(Nat)
    PROVE  /\ Prompt!Total(q) \in Nat
           /\ (\A k \in 1..Len(q) : q[k] = 0) => Prompt!Total(q) = 0
<1> DEFINE f == CHOOSE g : Sums(q, Len(q), g)
<1>0. Len(q) \in Nat /\ \A k \in 1..Len(q) : q[k] \in Nat
  OBVIOUS
<1>1. Sums(q, Len(q), f)
  BY SumsExist, <1>0
<1>2. Prompt!Total(q) = f[Len(q)]
  BY DEF Prompt!Total, Sums
<1> HIDE DEF f
<1>3. \A k \in 0..Len(q) : f[k] = IF k = 0 THEN 0 ELSE f[k - 1] + q[k]
  BY <1>1 DEF Sums
<1> DEFINE T == {k \in 0..Len(q) : f[k] \in Nat}
           U == {k \in 0..Len(q) : f[k] = 0}
<1>4. \A n \in 0..Len(q) : n \in T
  <2>1. 0 \in T
    BY <1>0, <1>3
  <2>2. ASSUME NEW n \in 0..Len(q), n # Len(q), n \in T
        PROVE  n + 1 \in T
    <3>1. n + 1 \in 0..Len(q) /\ n + 1 \in 1..Len(q) /\ n + 1 # 0
              /\ (n + 1) - 1 = n
      BY <1>0, <2>2
    <3>2. f[n + 1] = f[n] + q[n + 1]
      BY <1>3, <3>1
    <3> QED BY <1>0, <2>2, <3>1, <3>2
  <2> HIDE DEF T
  <2> QED BY <1>0, <2>1, <2>2, UpTo
<1>5. ASSUME \A k \in 1..Len(q) : q[k] = 0
      PROVE  \A n \in 0..Len(q) : n \in U
  <2>1. 0 \in U
    BY <1>0, <1>3
  <2>2. ASSUME NEW n \in 0..Len(q), n # Len(q), n \in U
        PROVE  n + 1 \in U
    <3>1. n + 1 \in 0..Len(q) /\ n + 1 \in 1..Len(q) /\ n + 1 # 0
              /\ (n + 1) - 1 = n
      BY <1>0, <2>2
    <3>2. f[n + 1] = f[n] + q[n + 1]
      BY <1>3, <3>1
    <3> QED BY <1>0, <1>5, <2>2, <3>1, <3>2
  <2> HIDE DEF U
  <2> QED BY <1>0, <2>1, <2>2, UpTo
<1>6. Len(q) \in 0..Len(q)
  BY <1>0
<1> QED BY <1>2, <1>4, <1>5, <1>6

-----------------------------------------------------------------------------
Entry == [score : Nat, length : Nat]

LEMMA LengthIs ==
    ASSUME NEW e \in Seq(Entry), NEW s \in Seq(DOMAIN e)
    PROVE  Prompt!Length(e, s) \in Nat /\ (s = <<>> => Prompt!Length(e, s) = 0)
<1> DEFINE q == [k \in DOMAIN s |-> e[s[k]].length]
<1>1. q \in Seq(Nat) /\ Len(q) = Len(s)
  <2>1. DOMAIN s = 1..Len(s) /\ Len(s) \in Nat
    OBVIOUS
  <2>2. ASSUME NEW k \in DOMAIN s PROVE e[s[k]].length \in Nat
    <3>1. s[k] \in DOMAIN e
      OBVIOUS
    <3>2. e[s[k]] \in Entry
      BY <3>1
    <3> QED BY <3>2 DEF Entry
  <2>3. q \in [1..Len(s) -> Nat]
    BY <2>1, <2>2
  <2> HIDE DEF q
  <2> QED BY <2>1, <2>3
<1>2. Prompt!Length(e, s) = Prompt!Total(q)
  BY DEF Prompt!Length
<1> HIDE DEF q
<1>3. s = <<>> => \A k \in 1..Len(q) : q[k] = 0
  BY <1>1
<1> QED BY <1>1, <1>2, <1>3, TotalIs

\* Which item comes before which is a strict order of them all.
LEMMA BeforeOrders ==
    ASSUME NEW l, NEW e \in Seq(Entry)
    PROVE  /\ \A i \in DOMAIN e : ~Prompt!Before(l, e, i, i)
           /\ \A i, j \in DOMAIN e :
                 /\ i # j =>
                        Prompt!Before(l, e, i, j) \/ Prompt!Before(l, e, j, i)
                 /\ ~Prompt!Before(l, e, i, j) \/ ~Prompt!Before(l, e, j, i)
           /\ \A i, j, k \in DOMAIN e :
                 Prompt!Before(l, e, i, j) /\ Prompt!Before(l, e, j, k) =>
                     Prompt!Before(l, e, i, k)
<1>1. \A i \in DOMAIN e : i \in Nat /\ e[i] \in Entry
  OBVIOUS
<1>2. \A i \in DOMAIN e : e[i].score \in Nat
  BY <1>1 DEF Entry
<1> QED BY <1>1, <1>2 DEF Prompt!Before

\* Order lists every item, each after those that come before it.
LEMMA OrderIs ==
    ASSUME NEW l, NEW e \in Seq(Entry)
    PROVE  LET o == Prompt!Order(l, e) IN
           /\ DOMAIN o = DOMAIN e /\ \A n \in DOMAIN e : o[n] \in DOMAIN e
           /\ \A i \in DOMAIN e : \E n \in DOMAIN e : o[n] = i
           /\ \A m, n \in DOMAIN e : m < n => Prompt!Before(l, e, o[m], o[n])
<1> DEFINE D == DOMAIN e
           N == Len(e)
           A(j) == Prompt!Ahead(l, e, j)
           r(j) == Cardinality(A(j))
           o == Prompt!Order(l, e)
<1>0. D = 1..N /\ N \in Nat /\ IsFiniteSet(D) /\ Cardinality(D) = N
  <2>1. D = 1..N /\ N \in Nat
    OBVIOUS
  <2> QED BY <2>1, FS_Interval
<1>1. \A j \in D : A(j) \in SUBSET D /\ j \notin A(j)
  BY BeforeOrders DEF Prompt!Ahead
<1>2. \A j \in D : IsFiniteSet(A(j)) /\ r(j) \in Nat
  <2> HIDE DEF A, D
  <2> QED BY <1>0, <1>1, FS_Subset, FS_CardinalityType
<1>3. ASSUME NEW i \in D, NEW j \in D, Prompt!Before(l, e, i, j)
      PROVE  r(i) < r(j)
  <2>1. A(i) \in SUBSET A(j)
    BY <1>3, BeforeOrders DEF Prompt!Ahead
  <2>2. i \in A(j) /\ i \notin A(i)
    BY <1>1, <1>3 DEF Prompt!Ahead
  <2> HIDE DEF A, D
  <2>3. r(i) <= r(j) /\ r(i) # r(j)
    BY <1>2, <2>1, <2>2, FS_Subset
  <2> QED BY <1>2, <2>3
<1>4. \A j \in D : r(j) + 1 \in D
  <2> SUFFICES ASSUME NEW j \in D PROVE r(j) + 1 \in D
    OBVIOUS
  <2> HIDE DEF A, D, N
  <2>1. r(j) <= N /\ r(j) # N
    BY <1>0, <1>1, FS_Subset
  <2> HIDE DEF r
  <2> QED BY <1>0, <1>2, <2>1
<1>5. \A i, j \in D : r(i) = r(j) => i = j
  <2> HIDE DEF r
  <2>1. \A i, j \in D : i # j => r(i) < r(j) \/ r(j) < r(i)
    BY <1>3, BeforeOrders
  <2> QED BY <1>2, <2>1
<1>6. \A n \in D : \E j \in D : r(j) = n - 1
  <2> DEFINE f == [j \in D |-> r(j) + 1]
  <2> HIDE DEF r, D, N
  <2>1. f \in Injection(D, D)
    <3>1. f \in [D -> D]
      BY <1>4
    <3>2. \A i, j \in D : f[i] = f[j] => i = j
      BY <1>2, <1>5
    <3> HIDE DEF f
    <3> QED BY <3>1, <3>2 DEF Injection, IsInjective
  <2>2. f \in Surjection(D, D)
    <3> HIDE DEF f
    <3> QED BY <1>0, <2>1, FS_Injection
  <2>3. \A n \in D : \E j \in D : f[j] = n
    <3> HIDE DEF f
    <3> QED BY <2>2 DEF Surjection
  <2>4. \A j \in D : f[j] = r(j) + 1
    OBVIOUS
  <2>5. ASSUME NEW n \in D PROVE \E j \in D : r(j) = n - 1
    <3>1. PICK j \in D : f[j] = n
      BY <2>3
    <3>2. r(j) + 1 = n /\ r(j) \in Nat
      BY <1>2, <2>4, <3>1
    <3> QED BY <3>2
  <2> QED BY <2>5
<1>7. \A n \in D : o[n] \in D /\ r(o[n]) = n - 1
  <2>1. o = [n \in D |-> CHOOSE j \in D : r(j) = n - 1]
    BY DEF Prompt!Order, Prompt!Cardinality, Cardinality
  <2> HIDE DEF r, D, o
  <2> QED BY <1>6, <2>1
<1>8. DOMAIN o = D
  BY DEF Prompt!Order
<1> HIDE DEF r, D, o, N
<1>9. ASSUME NEW i \in D PROVE \E n \in D : o[n] = i
  <2>1. PICK n \in D : n = r(i) + 1
    BY <1>4
  <2>2. o[n] \in D /\ r(o[n]) = r(i)
    BY <1>2, <1>7, <2>1
  <2> QED BY <1>5, <2>2
<1>10. ASSUME NEW m \in D, NEW n \in D, m < n
       PROVE  Prompt!Before(l, e, o[m], o[n])
  <2>1. r(o[m]) < r(o[n]) /\ o[m] \in D /\ o[n] \in D
    BY <1>0, <1>7, <1>10
  <2>2. o[m] # o[n] /\ ~Prompt!Before(l, e, o[n], o[m])
    BY <1>2, <1>3, <2>1
  <2> QED BY <2>1, <2>2, BeforeOrders DEF D
<1> QED BY <1>7, <1>8, <1>9, <1>10 DEF D, o

-----------------------------------------------------------------------------
\* One more item is kept or passed over.
Fill(l, e, kept, n) ==
    IF Prompt!Length(e, Append(kept, Prompt!Order(l, e)[n])) <= Room[l]
    THEN Append(kept, Prompt!Order(l, e)[n]) ELSE kept
Fills(l, e, n, f) ==
    f = [m \in 0..n |-> IF m = 0 THEN <<>> ELSE Fill(l, e, f[m - 1], m)]

\* The items can be kept or passed over one after the other, ...
LEMMA FillsExist ==
    ASSUME NEW l, NEW e \in Seq(Entry)
    PROVE  \A n \in 0..Len(e) : \E f : Fills(l, e, n, f)
<1> DEFINE T == {n \in 0..Len(e) : \E f : Fills(l, e, n, f)}
<1>0. Len(e) \in Nat
  OBVIOUS
<1>1. 0 \in T
  <2> DEFINE f == [k \in 0..0 |-> <<>>]
  <2>1. f = [k \in 0..0 |-> IF k = 0 THEN <<>> ELSE Fill(l, e, f[k - 1], k)]
    OBVIOUS
  <2>2. Fills(l, e, 0, f)
    BY <2>1 DEF Fills
  <2> QED BY <2>2, <1>0
<1>2. ASSUME NEW n \in 0..Len(e), n # Len(e), n \in T
      PROVE  n + 1 \in T
  <2>1. PICK f : Fills(l, e, n, f)
    BY <1>2
  <2> DEFINE g == [k \in 0..(n + 1) |->
                     IF k = n + 1 THEN Fill(l, e, f[n], k) ELSE f[k]]
             h == [k \in 0..(n + 1) |->
                     IF k = 0 THEN <<>> ELSE Fill(l, e, g[k - 1], k)]
  <2>2. ASSUME NEW k \in 0..(n + 1) PROVE g[k] = h[k]
    <3>1. CASE k = n + 1
      BY <3>1
    <3>2. CASE k # n + 1
      <4>1. k \in 0..n /\ (k # 0 => k - 1 \in 0..(n + 1) /\ k - 1 # n + 1)
        BY <3>2
      <4>2. f[k] = IF k = 0 THEN <<>> ELSE Fill(l, e, f[k - 1], k)
        BY <2>1, <4>1 DEF Fills
      <4>3. g[k] = f[k] /\ (k # 0 => g[k - 1] = f[k - 1])
        BY <3>2, <4>1
      <4> QED BY <4>2, <4>3
    <3> QED BY <3>1, <3>2
  <2>3. g = h
    BY <2>2
  <2> HIDE DEF g
  <2>4. Fills(l, e, n + 1, g)
    BY <2>3 DEF Fills
  <2>5. n + 1 \in 0..Len(e)
    BY <1>0, <1>2
  <2> QED BY <2>4, <2>5
<1> HIDE DEF T
<1>3. \A n \in 0..Len(e) : n \in T
  BY <1>0, <1>1, <1>2, UpTo
<1> QED BY <1>3 DEF T

\* ... so what is kept of the first n follows from what is kept of n - 1.
LEMMA FilledIs ==
    ASSUME NEW l, NEW e \in Seq(Entry)
    PROVE  \A n \in 0..Len(e) :
              Prompt!Filled(l, e)[n] =
                  IF n = 0 THEN <<>>
                  ELSE Fill(l, e, Prompt!Filled(l, e)[n - 1], n)
<1>1. Prompt!Filled(l, e) = CHOOSE f : Fills(l, e, Len(e), f)
  BY DEF Prompt!Filled, Fills, Fill
<1>2. Len(e) \in 0..Len(e)
  OBVIOUS
<1>3. Fills(l, e, Len(e), Prompt!Filled(l, e))
  BY <1>1, <1>2, FillsExist
<1> QED BY <1>3 DEF Fills

\* What is kept of the first p is the beginning of what is kept of the first n;
\* the others come from between.
Grown(l, e, p, n) ==
    LET f == Prompt!Filled(l, e) IN
    /\ Len(f[p]) <= Len(f[n])
    /\ \A k \in 1..Len(f[p]) : f[n][k] = f[p][k]
    /\ \A k \in Len(f[p]) + 1..Len(f[n]) : \E m \in p + 1..n :
          f[n][k] = Prompt!Order(l, e)[m]

LEMMA Grows ==
    ASSUME NEW l, NEW e \in Seq(Entry), NEW n \in 0..Len(e)
    PROVE  /\ Prompt!Filled(l, e)[n] \in Seq(DOMAIN e)
           /\ \A p \in 0..n : Grown(l, e, p, n)
<1> DEFINE f == Prompt!Filled(l, e)
           o == Prompt!Order(l, e)
           N == Len(e)
           T == {m \in 0..N : /\ f[m] \in Seq(DOMAIN e)
                              /\ \A p \in 0..m : Grown(l, e, p, m)}
<1>0. N \in Nat /\ DOMAIN e = 1..N
  OBVIOUS
<1>1. 0 \in T
  <2>1. f[0] = <<>>
    BY <1>0, FilledIs
  <2>2. Grown(l, e, 0, 0)
    BY <2>1 DEF Grown
  <2>3. f[0] \in Seq(DOMAIN e)
    BY <2>1
  <2> HIDE DEF f
  <2> QED BY <1>0, <2>2, <2>3
<1>2. ASSUME NEW m \in 0..N, m # N, m \in T
      PROVE  m + 1 \in T
  <2>0. m + 1 \in 0..N /\ m + 1 \in DOMAIN e /\ m + 1 # 0 /\ (m + 1) - 1 = m
    <3> HIDE DEF T, N
    <3> QED BY <1>0, <1>2
  <2>1. f[m] \in Seq(DOMAIN e) /\ \A p \in 0..m : Grown(l, e, p, m)
    BY <1>2
  <2>2. f[m + 1] = Fill(l, e, f[m], m + 1)
    BY <2>0, FilledIs
  <2>3. o[m + 1] \in DOMAIN e
    BY <2>0, OrderIs
  <2>4. f[m + 1] = f[m] \/ f[m + 1] = Append(f[m], o[m + 1])
    BY <2>2 DEF Fill
  <2> HIDE DEF f, o, N, T
  <2>5. f[m + 1] \in Seq(DOMAIN e)
    <3> DEFINE D == DOMAIN e
    <3>1. f[m] \in Seq(D) /\ o[m + 1] \in D
      BY <2>1, <2>3
    <3> HIDE DEF D
    <3>2. Append(f[m], o[m + 1]) \in Seq(D)
      BY <3>1
    <3>3. f[m + 1] \in Seq(D)
      BY <2>4, <3>1, <3>2
    <3> QED BY <3>3 DEF D
  <2>6. ASSUME NEW p \in 0..m
        PROVE  /\ Len(f[p]) <= Len(f[m + 1])
               /\ \A k \in 1..Len(f[p]) : f[m + 1][k] = f[p][k]
               /\ \A k \in Len(f[p]) + 1..Len(f[m + 1]) :
                     \E x \in p + 1..(m + 1) : f[m + 1][k] = o[x]
    <3>1. /\ Len(f[p]) <= Len(f[m])
          /\ \A k \in 1..Len(f[p]) : f[m][k] = f[p][k]
          /\ \A k \in Len(f[p]) + 1..Len(f[m]) : \E x \in p + 1..m :
                f[m][k] = o[x]
      BY <2>1 DEF Grown, f, o
    <3>2. CASE f[m + 1] = f[m]
      BY <3>1, <3>2, <1>0
    <3>3. CASE f[m + 1] = Append(f[m], o[m + 1])
      <4>1. /\ Len(f[m]) \in Nat /\ Len(f[m + 1]) = Len(f[m]) + 1
            /\ f[m + 1][Len(f[m]) + 1] = o[m + 1]
            /\ \A k \in 1..Len(f[m]) : f[m + 1][k] = f[m][k]
        BY <2>1, <3>3
      <4>2. Len(f[p]) \in Int /\ p \in Int /\ m \in Int
        BY <2>1
      <4>3. \A k \in 1..Len(f[p]) : f[m + 1][k] = f[p][k]
        BY <3>1, <4>1
      <4>4. ASSUME NEW k \in Len(f[p]) + 1..Len(f[m + 1])
            PROVE  \E x \in p + 1..(m + 1) : f[m + 1][k] = o[x]
        <5>1. CASE k = Len(f[m]) + 1
          <6>1. m + 1 \in p + 1..(m + 1)
            OBVIOUS
          <6> QED BY <4>1, <5>1, <6>1
        <5>2. CASE k # Len(f[m]) + 1
          BY <3>1, <4>1, <5>2
        <5> QED BY <5>1, <5>2
      <4> QED BY <3>1, <4>1, <4>3, <4>4
    <3> QED BY <2>4, <3>2, <3>3
  <2>7. Grown(l, e, m + 1, m + 1)
    <3>1. Len(f[m + 1]) \in Nat
      BY <2>5
    <3> QED BY <3>1 DEF Grown, f
  <2>8. \A p \in 0..(m + 1) : Grown(l, e, p, m + 1)
    <3>1. \A p \in 0..m : Grown(l, e, p, m + 1)
      BY <2>6 DEF Grown, f, o
    <3>2. \A p \in 0..(m + 1) : p \in 0..m \/ p = m + 1
      BY <1>0
    <3> QED BY <2>7, <3>1, <3>2
  <2> QED BY <2>0, <2>5, <2>8 DEF T
<1> HIDE DEF T
<1>3. \A m \in 0..N : m \in T
  BY <1>0, <1>1, <1>2, UpTo
<1> QED BY <1>3 DEF T

LEMMA Beginning ==
    ASSUME NEW S, NEW s \in Seq(S), NEW m \in 0..Len(s)
    PROVE  /\ SubSeq(s, 1, m) \in Seq(S) /\ Len(SubSeq(s, 1, m)) = m
           /\ \A k \in 1..m : SubSeq(s, 1, m)[k] = s[k]
<1>1. m \in Nat /\ m <= Len(s) /\ Len(s) \in Nat
  OBVIOUS
<1>2. \A k \in 1..m : k \in 1..Len(s) /\ s[k] \in S
  BY <1>1
<1>3. /\ Len(SubSeq(s, 1, m)) = m /\ \A k \in 1..m : SubSeq(s, 1, m)[k] = s[k]
  BY <1>1
<1>4. SubSeq(s, 1, m) \in Seq(S)
  BY <1>1, <1>2
<1> QED BY <1>3, <1>4

LEMMA Appended ==
    ASSUME NEW S, NEW s \in Seq(S), NEW x \in S
    PROVE  /\ Append(s, x) \in Seq(S) /\ Len(Append(s, x)) = Len(s) + 1
           /\ Append(s, x)[Len(s) + 1] = x
OBVIOUS

LEMMA SameItems ==
    ASSUME NEW S, NEW s \in Seq(S), NEW t \in Seq(S), Len(s) = Len(t),
           \A k \in 1..Len(s) : s[k] = t[k]
    PROVE  s = t
<1>1. s \in [1..Len(s) -> S] /\ t \in [1..Len(s) -> S]
  OBVIOUS
<1> QED BY <1>1

\* The beginnings of what is fitted keep the ranks.
LEMMA RanksKept ==
    ASSUME NEW l \in Prompt!Lists, NEW e \in Seq(Entry),
           NEW q \in 0..Len(Prompt!Fitted(l, e)), NEW s,
           s = SubSeq(Prompt!Fitted(l, e), 1, q),
           NEW i \in DOMAIN e \ Prompt!ToSet(s), NEW j \in Prompt!ToSet(s),
           Prompt!Before(l, e, i, j)
    PROVE  \E m \in 0..Len(s) :
              /\ \A k \in 1..m : Prompt!Before(l, e, s[k], i)
              /\ \A k \in m + 1..Len(s) : Prompt!Before(l, e, i, s[k])
              /\ Prompt!Length(e, Append(SubSeq(s, 1, m), i)) > Room[l]
<1> DEFINE f == Prompt!Filled(l, e)
           o == Prompt!Order(l, e)
           N == Len(e)
           D == DOMAIN e
<1>0. N \in Nat /\ D = 1..N /\ N \in 0..N
  OBVIOUS
<1>1. \A n \in 0..N : /\ f[n] \in Seq(D) /\ Len(f[n]) \in Nat
                      /\ \A k \in 1..Len(f[n]) : f[n][k] \in D
  <2>1. \A n \in 0..N : f[n] \in Seq(D)
    BY Grows
  <2> HIDE DEF f, N, D
  <2> QED BY <2>1
<1>2. Prompt!Fitted(l, e) = f[N]
  BY DEF Prompt!Fitted
<1>3. \A n \in 0..N : \A p \in 0..n : Grown(l, e, p, n)
  BY Grows
<1>4. \A n \in 1..N : f[n] = Fill(l, e, f[n - 1], n)
  <2>1. \A n \in 1..N : n \in 0..N /\ n # 0
    OBVIOUS
  <2> QED BY <2>1, FilledIs
<1>5. /\ \A n \in D : o[n] \in D
      /\ \A x \in D : \E n \in D : o[n] = x
      /\ \A m, n \in D : m < n => Prompt!Before(l, e, o[m], o[n])
  BY OrderIs
<1>6. /\ \A x \in D : ~Prompt!Before(l, e, x, x)
      /\ \A x, y \in D :
             ~Prompt!Before(l, e, x, y) \/ ~Prompt!Before(l, e, y, x)
  BY BeforeOrders
<1>7. f[0] = <<>>
  BY <1>0, FilledIs
<1> HIDE DEF f, o, N, D
<1>8. \A n \in 0..N : \A k \in 1..Len(f[n]) : \E m \in 1..n : f[n][k] = o[m]
  <2> SUFFICES ASSUME NEW n \in 0..N, NEW k \in 1..Len(f[n])
               PROVE  \E m \in 1..n : f[n][k] = o[m]
    OBVIOUS
  <2>1. Grown(l, e, 0, n) /\ Len(f[0]) = 0
    BY <1>0, <1>3, <1>7
  <2> QED BY <2>1, <1>0 DEF Grown, f, o
<1>9. /\ Len(s) = q /\ \A k \in 1..q : s[k] = f[N][k]
      /\ q \in Nat /\ q <= Len(f[N]) /\ s \in Seq(D)
  <2>1. q \in 0..Len(f[N]) /\ s = SubSeq(f[N], 1, q) /\ f[N] \in Seq(D)
    BY <1>0, <1>1, <1>2
  <2>2. Len(f[N]) \in Nat /\ q \in Nat /\ q <= Len(f[N])
    BY <1>0, <1>1, <2>1
  <2> QED BY <2>1, <2>2, Beginning
<1>10. PICK n \in D : o[n] = i
  BY <1>5 DEF D
<1>11. n \in 1..N /\ n \in 0..N /\ n - 1 \in 0..N /\ n - 1 \in 0..n
           /\ n \in Nat
  BY <1>0, <1>10
<1>12. PICK x \in 1..q : s[x] = j
  BY <1>9 DEF Prompt!ToSet
<1> DEFINE p == Len(f[n - 1])
<1>13. p \in Nat /\ \A k \in 1..p : f[N][k] = f[n - 1][k]
  <2>1. Grown(l, e, n - 1, N)
    BY <1>0, <1>3, <1>11
  <2> QED BY <1>1, <1>11, <2>1 DEF Grown, f
<1>14. \A k \in 1..p : \E m \in 1..(n - 1) :
          f[N][k] = o[m] /\ Prompt!Before(l, e, o[m], i)
  <2> SUFFICES ASSUME NEW k \in 1..p
               PROVE  \E m \in 1..(n - 1) :
                         f[N][k] = o[m] /\ Prompt!Before(l, e, o[m], i)
    OBVIOUS
  <2>1. PICK m \in 1..(n - 1) : f[n - 1][k] = o[m]
    BY <1>8, <1>11
  <2>2. m \in D /\ m < n
    BY <1>0, <1>11
  <2> QED BY <1>5, <1>10, <1>13, <2>1, <2>2
<1> HIDE DEF p
<1>15. p < x
  <2> SUFFICES ASSUME x \in 1..p PROVE FALSE
    BY <1>9, <1>12, <1>13
  <2>1. Prompt!Before(l, e, j, i) /\ j \in D
    BY <1>0, <1>1, <1>9, <1>12, <1>14
  <2> QED BY <1>6, <2>1 DEF D
<1>16. p < q /\ p + 1 \in 1..q
  BY <1>9, <1>12, <1>13, <1>15
<1>17. f[n] = f[n - 1] /\ Prompt!Length(e, Append(f[n - 1], i)) > Room[l]
  <2>1. \/ f[n] = Append(f[n - 1], i)
        \/ f[n] = f[n - 1]
               /\ ~(Prompt!Length(e, Append(f[n - 1], i)) <= Room[l])
    BY <1>4, <1>10, <1>11 DEF Fill, o
  <2>2. f[n] # Append(f[n - 1], i)
    <3> SUFFICES ASSUME f[n] = Append(f[n - 1], i) PROVE FALSE
      OBVIOUS
    <3>1. Len(f[n]) = p + 1 /\ f[n][p + 1] = i
      <4>1. f[n - 1] \in Seq(D) /\ i \in D
        BY <1>1, <1>11 DEF D
      <4> QED BY <4>1, Appended DEF p
    <3>2. Grown(l, e, n, N)
      BY <1>0, <1>3, <1>11
    <3>3. f[N][p + 1] = f[n][p + 1]
      BY <1>13, <3>1, <3>2 DEF Grown, f
    <3>4. s[p + 1] = i
      BY <1>9, <1>16, <3>1, <3>3
    <3> QED BY <1>9, <1>16, <3>4 DEF Prompt!ToSet
  <2>3. Prompt!Length(e, Append(f[n - 1], i)) \in Nat
    <3>1. Append(f[n - 1], i) \in Seq(D)
      <4>1. f[n - 1] \in Seq(D) /\ i \in D
        BY <1>1, <1>11 DEF D
      <4> QED BY <4>1, Appended
    <3> QED BY <3>1, LengthIs DEF D
  <2>4. Room[l] \in Nat
    BY PromptTypes
  <2> QED BY <2>1, <2>2, <2>3, <2>4
<1>18. SubSeq(s, 1, p) = f[n - 1]
  <2>1. p \in 0..Len(s) /\ s \in Seq(D) /\ f[n - 1] \in Seq(D)
    BY <1>1, <1>9, <1>11, <1>13, <1>16
  <2>2. /\ SubSeq(s, 1, p) \in Seq(D) /\ Len(SubSeq(s, 1, p)) = p
        /\ \A k \in 1..p : SubSeq(s, 1, p)[k] = s[k]
    BY <2>1, Beginning
  <2>3. \A k \in 1..p : s[k] = f[n - 1][k]
    BY <1>9, <1>13, <1>16
  <2>4. Len(f[n - 1]) = p
    BY DEF p
  <2> QED BY <2>1, <2>2, <2>3, <2>4, SameItems
<1>19. \A k \in p + 1..q : Prompt!Before(l, e, i, s[k])
  <2> SUFFICES ASSUME NEW k \in p + 1..q PROVE Prompt!Before(l, e, i, s[k])
    OBVIOUS
  <2>1. Grown(l, e, n, N) /\ Len(f[n]) = p
    <3>1. Grown(l, e, n, N)
      BY <1>0, <1>3, <1>11
    <3>2. Len(f[n]) = p
      BY <1>17 DEF p
    <3> QED BY <3>1, <3>2
  <2>2. k \in p + 1..Len(f[N]) /\ k \in 1..q
    BY <1>9, <1>13
  <2>3. PICK m \in n + 1..N : f[N][k] = o[m]
    BY <2>1, <2>2 DEF Grown, f, o
  <2>4. m \in D /\ n < m
    BY <1>0, <1>11
  <2> QED BY <1>5, <1>9, <1>10, <2>2, <2>3, <2>4
<1>20. \A k \in 1..p : Prompt!Before(l, e, s[k], i)
  <2>1. \A k \in 1..p : k \in 1..q
    BY <1>9, <1>13, <1>16
  <2> QED BY <1>9, <1>14, <2>1
<1>21. p \in 0..Len(s)
  BY <1>9, <1>13, <1>16
<1>22. /\ \A k \in p + 1..Len(s) : Prompt!Before(l, e, i, s[k])
       /\ Prompt!Length(e, Append(SubSeq(s, 1, p), i)) > Room[l]
  BY <1>9, <1>17, <1>18, <1>19
<1> QED BY <1>20, <1>21, <1>22

-----------------------------------------------------------------------------
\* Of some numbers with a size there is one of the largest that is the first.
LEMMA LongestIs ==
    ASSUME NEW N \in Nat, NEW P \in SUBSET (1..N), P # {},
           NEW size, \A k \in P : size[k] \in Nat
    PROVE  \E k \in P : \A j \in P :
              size[k] > size[j] \/ (size[k] = size[j] /\ k <= j)
<1> DEFINE Best(n, k) == \A j \in P : j <= n =>
                            size[k] > size[j] \/ (size[k] = size[j] /\ k <= j)
           T == {n \in 0..N : \/ \A j \in P : j > n
                              \/ \E k \in P : k <= n /\ Best(n, k)}
<1>1. 0 \in T
  OBVIOUS
<1>2. ASSUME NEW n \in 0..N, n # N, n \in T
      PROVE  n + 1 \in T
  <2>1. n + 1 \in 0..N /\ \A j \in P :
            j \in Nat /\ (j <= n + 1 => j <= n \/ j = n + 1)
    BY <1>2
  <2>2. CASE n + 1 \notin P
    BY <1>2, <2>1, <2>2
  <2>3. CASE n + 1 \in P /\ \A j \in P : j > n
    <3>1. Best(n + 1, n + 1)
      BY <2>1, <2>3
    <3> QED BY <2>1, <2>3, <3>1
  <2>4. CASE n + 1 \in P /\ \E k \in P : k <= n /\ Best(n, k)
    <3>1. PICK k \in P : k <= n /\ Best(n, k)
      BY <2>4
    <3>2. CASE size[n + 1] > size[k]
      <4>1. Best(n + 1, n + 1)
        BY <2>1, <2>4, <3>1, <3>2
      <4> QED BY <2>1, <2>4, <4>1
    <3>3. CASE ~(size[n + 1] > size[k])
      <4>1. size[k] > size[n + 1] \/ (size[k] = size[n + 1] /\ k <= n + 1)
        BY <2>1, <2>4, <3>1, <3>3
      <4>2. Best(n + 1, k)
        BY <2>1, <3>1, <4>1
      <4>3. k <= n + 1
        BY <2>1, <3>1
      <4> QED BY <2>1, <4>2, <4>3
    <3> QED BY <3>2, <3>3
  <2> QED BY <1>2, <2>2, <2>3, <2>4
<1>3. N \in T
  <2> HIDE DEF T
  <2> QED BY <1>1, <1>2, UpTo
<1>4. \A j \in P : j \in 1..N /\ j <= N /\ ~(j > N)
  OBVIOUS
<1>5. PICK k \in P : k <= N /\ Best(N, k)
  BY <1>3, <1>4
<1> QED BY <1>4, <1>5

-----------------------------------------------------------------------------
LEMMA Joined ==
    ASSUME NEW S, NEW s \in Seq(S), NEW t \in Seq(S)
    PROVE  /\ s \o t \in Seq(S)
           /\ Prompt!ToSet(s \o t) = Prompt!ToSet(s) \cup Prompt!ToSet(t)
<1> DEFINE u == s \o t
<1>1. /\ u \in Seq(S) /\ Len(u) = Len(s) + Len(t)
      /\ Len(s) \in Nat /\ Len(t) \in Nat
  OBVIOUS
<1>2. /\ DOMAIN s = 1..Len(s) /\ DOMAIN t = 1..Len(t)
      /\ DOMAIN u = 1..(Len(s) + Len(t))
  BY <1>1
<1>3. /\ \A k \in 1..Len(s) : u[k] = s[k]
      /\ \A k \in 1..Len(t) : u[Len(s) + k] = t[k]
  <2>1. \A k \in 1..Len(s) : u[k] = s[k]
    BY <1>1
  <2>2. ASSUME NEW k \in 1..Len(t) PROVE u[Len(s) + k] = t[k]
    <3>1. Len(s) + k \in 1..(Len(s) + Len(t)) /\ Len(s) + k > Len(s)
          /\ (Len(s) + k) - Len(s) = k
      BY <1>1
    <3> QED BY <3>1
  <2> QED BY <2>1, <2>2
<1>4. \A k \in 1..(Len(s) + Len(t)) :
         k \in 1..Len(s) \/ \E m \in 1..Len(t) : k = Len(s) + m
  <2> SUFFICES ASSUME NEW k \in 1..(Len(s) + Len(t)), k \notin 1..Len(s)
               PROVE  \E m \in 1..Len(t) : k = Len(s) + m
    OBVIOUS
  <2>1. k - Len(s) \in 1..Len(t) /\ k = Len(s) + (k - Len(s))
    BY <1>1
  <2> QED BY <2>1
<1> HIDE DEF u
<1>5. ASSUME NEW x
      PROVE  (\E k \in DOMAIN u : u[k] = x) <=>
                 \/ \E k \in DOMAIN s : s[k] = x
                 \/ \E k \in DOMAIN t : t[k] = x
  <2>1. /\ \A k \in 1..Len(s) : k \in 1..(Len(s) + Len(t))
        /\ \A k \in 1..Len(t) : Len(s) + k \in 1..(Len(s) + Len(t))
    BY <1>1
  <2>2. ASSUME NEW k \in DOMAIN s PROVE \E m \in DOMAIN u : u[m] = s[k]
    <3>1. k \in DOMAIN u /\ u[k] = s[k]
      BY <1>2, <1>3, <2>1
    <3> QED BY <3>1
  <2>3. ASSUME NEW k \in DOMAIN t PROVE \E m \in DOMAIN u : u[m] = t[k]
    <3>1. Len(s) + k \in DOMAIN u /\ u[Len(s) + k] = t[k]
      BY <1>2, <1>3, <2>1
    <3> QED BY <3>1
  <2>4. ASSUME NEW k \in DOMAIN u
        PROVE  (\E m \in DOMAIN s : s[m] = u[k]) \/ \E m \in DOMAIN t :
                   t[m] = u[k]
    <3>1. CASE k \in 1..Len(s)
      <4>1. u[k] = s[k] /\ k \in DOMAIN s
        BY <1>2, <1>3, <3>1
      <4> QED BY <4>1
    <3>2. CASE k \notin 1..Len(s)
      <4>1. PICK m \in 1..Len(t) : k = Len(s) + m
        BY <1>2, <1>4, <3>2
      <4>2. u[k] = t[m] /\ m \in DOMAIN t
        BY <1>2, <1>3, <4>1
      <4> QED BY <4>2
    <3> QED BY <3>1, <3>2
  <2> QED BY <2>2, <2>3, <2>4
<1>6. Prompt!ToSet(u) = Prompt!ToSet(s) \cup Prompt!ToSet(t)
  BY <1>5 DEF Prompt!ToSet
<1> QED BY <1>1, <1>6 DEF u

\* What has a count.
Keyed == Prompt!Lists \cup Prompt!Bare
FitOf(l) == Prompt!Fitted(l, given[l])
PromptKinds ==
    /\ given \in Contexts /\ rest \in Lengths
    /\ todo \in Seq(Keyed) /\ form \in Prompt!Forms
    /\ shown \in [Prompt!Lists -> Seq(Nat)]
    /\ counts \in [Keyed -> [available : Nat, included : Nat]]

\* A list shows the beginning of what was fitted.
ShownFirst ==
    \A l \in Prompt!Lists : \E q \in 0..Len(FitOf(l)) :
        shown[l] = SubSeq(FitOf(l), 1, q)

\* What has been built is counted as it is shown.
Counted ==
    \A k \in Keyed \ Prompt!ToSet(todo) :
        /\ counts[k].available = Len(given[k])
        /\ counts[k].included = IF k \in Prompt!Bare THEN 0 ELSE Len(shown[k])

\* The shorter forms come when nothing is shown any more.
Emptied ==
    form # "full" => todo = <<>> /\ \A l \in Prompt!Lists : shown[l] = <<>>
SavedTrue == summary.saved => todo = <<>> /\ Prompt!Honest
PromptInv == PromptKinds /\ ShownFirst /\ Counted /\ Emptied /\ SavedTrue

\* The lists of a context, what is fitted of them and what is shown.
LEMMA ListsKnown ==
    ASSUME given \in Contexts
    PROVE  /\ \A k \in Keyed : given[k] \in Seq(Entry) /\ Len(given[k]) \in Nat
           /\ \A l \in Prompt!Lists :
                 FitOf(l) \in Seq(DOMAIN given[l]) /\ Len(FitOf(l)) \in Nat
<1>1. \A k \in Keyed : given[k] \in Seq(Entry)
  BY PromptTypes DEF Keyed, Entry
<1>2. ASSUME NEW l \in Prompt!Lists PROVE FitOf(l) \in Seq(DOMAIN given[l])
  <2>1. given[l] \in Seq(Entry) /\ Len(given[l]) \in 0..Len(given[l])
    BY <1>1 DEF Keyed
  <2> QED BY <2>1, Grows DEF FitOf, Prompt!Fitted
<1> QED BY <1>1, <1>2

LEMMA ShownKnown ==
    ASSUME PromptKinds, ShownFirst, NEW l \in Prompt!Lists
    PROVE  shown[l] \in Seq(DOMAIN given[l]) /\ Len(shown[l]) \in Nat
<1>1. FitOf(l) \in Seq(DOMAIN given[l])
  BY ListsKnown DEF PromptKinds
<1>2. PICK q \in 0..Len(FitOf(l)) : shown[l] = SubSeq(FitOf(l), 1, q)
  BY DEF ShownFirst
<1>3. shown[l] \in Seq(DOMAIN given[l])
  BY <1>1, <1>2, Beginning
<1> QED BY <1>3

\* Where nothing is shown the lists have no length.
LEMMA NothingHeld ==
    ASSUME PromptKinds, \A l \in Prompt!Lists : shown[l] = <<>>
    PROVE  Prompt!Held = 0
<1> DEFINE P == Prompt!Placed
           q == [k \in DOMAIN P |-> Prompt!Length(given[P[k]], shown[P[k]])]
<1>1. P \in Seq(STRING) /\ \A k \in DOMAIN P : P[k] \in Prompt!Lists
  <2>1. P \in Seq(STRING) /\ Prompt!ToSet(P) = Prompt!Lists
    BY PromptTypes, Joined DEF Prompt!Placed, Prompt!Lists, Prompt!Cut
  <2> HIDE DEF P
  <2> QED BY <2>1 DEF Prompt!ToSet
<1> HIDE DEF P
<1>2. DOMAIN P = 1..Len(P) /\ Len(P) \in Nat
  BY <1>1
<1>3. \A k \in DOMAIN P : Prompt!Length(given[P[k]], shown[P[k]]) = 0
  <2> SUFFICES ASSUME NEW k \in DOMAIN P
               PROVE  Prompt!Length(given[P[k]], shown[P[k]]) = 0
    OBVIOUS
  <2>1. given[P[k]] \in Seq(Entry) /\ shown[P[k]] = <<>>
    BY <1>1, ListsKnown DEF PromptKinds, Keyed
  <2>2. <<>> \in Seq(DOMAIN given[P[k]])
    OBVIOUS
  <2> QED BY <2>1, <2>2, LengthIs
<1>4. q \in Seq(Nat) /\ Len(q) = Len(P) /\ \A k \in 1..Len(q) : q[k] = 0
  BY <1>2, <1>3
<1>5. Prompt!Held = Prompt!Total(q)
  BY DEF Prompt!Held, P
<1> HIDE DEF q
<1> QED BY <1>4, <1>5, TotalIs

LEMMA PromptInit == Prompt!Init => PromptInv
<1> SUFFICES ASSUME Prompt!Init PROVE PromptInv
  OBVIOUS
<1>1. todo \in Seq(Keyed) /\ Prompt!ToSet(todo) = Keyed
  <2> DEFINE P == Trimmed \o Untrimmed
  <2>1. P \in Seq(STRING) /\ Prompt!ToSet(P) = Prompt!Lists
    BY PromptTypes, Joined DEF Prompt!Lists, Prompt!Cut
  <2>2. todo = P \o Raw
    BY DEF Prompt!Init
  <2> HIDE DEF P
  <2>3. todo \in Seq(STRING) /\ Prompt!ToSet(todo) = Keyed
    BY PromptTypes, Joined, <2>1, <2>2 DEF Keyed, Prompt!Bare
  <2>4. DOMAIN todo = 1..Len(todo) /\ Len(todo) \in Nat
        /\ todo \in [1..Len(todo) -> STRING]
    BY <2>3
  <2>5. \A k \in DOMAIN todo : todo[k] \in Keyed
    BY <2>3 DEF Prompt!ToSet
  <2> QED BY <2>3, <2>4, <2>5
<1>2. PromptKinds
  <2>1. counts \in [Keyed -> [available : Nat, included : Nat]]
    BY DEF Prompt!Init, Prompt!Uncounted, Keyed
  <2>2. shown \in [Prompt!Lists -> Seq(Nat)]
    BY DEF Prompt!Init
  <2> QED BY <1>1, <2>1, <2>2 DEF PromptKinds, Prompt!Init, Prompt!Forms
<1>3. ShownFirst
  <2> SUFFICES ASSUME NEW l \in Prompt!Lists
               PROVE  \E q \in 0..Len(FitOf(l)) :
                          shown[l] = SubSeq(FitOf(l), 1, q)
    BY DEF ShownFirst
  <2>1. FitOf(l) \in Seq(DOMAIN given[l]) /\ 0 \in 0..Len(FitOf(l))
    BY <1>2, ListsKnown DEF PromptKinds
  <2>2. SubSeq(FitOf(l), 1, 0) = <<>>
    BY <2>1
  <2> QED BY <2>1, <2>2 DEF Prompt!Init
<1>4. Counted
  BY <1>1 DEF Counted
<1> QED BY <1>2, <1>3, <1>4 DEF PromptInv, Emptied, SavedTrue, Prompt!Init,
           Prompt!Unsaved

\* A section is built: its list is fitted and counted.
LEMMA SectionKeeps ==
    ASSUME PromptInv, Prompt!BuildSection
    PROVE  PromptInv'
<1> DEFINE l == Head(todo)
<1>0. PromptKinds /\ ShownFirst /\ Counted /\ Emptied /\ SavedTrue
  BY DEF PromptInv
<1>1. /\ todo # <<>> /\ todo' = Tail(todo) /\ form = "full" /\ form' = form
      /\ given' = given /\ rest' = rest /\ summary' = summary
      /\ todo \in Seq(Keyed) /\ given \in Contexts
  BY <1>0 DEF Prompt!BuildSection, PromptKinds, Emptied
<1>2. l \in Keyed /\ todo' \in Seq(Keyed)
  BY <1>1
<1>3. \A k \in Keyed \ Prompt!ToSet(todo') : k # l =>
          k \in Keyed \ Prompt!ToSet(todo)
  <2>1. /\ DOMAIN todo = 1..Len(todo) /\ Len(todo) \in Nat /\ Len(todo) # 0
        /\ DOMAIN Tail(todo) = 1..(Len(todo) - 1)
        /\ \A m \in 1..(Len(todo) - 1) : Tail(todo)[m] = todo[m + 1]
        /\ l = todo[1]
    BY <1>1
  <2>2. \A m \in DOMAIN todo : m # 1 =>
           m - 1 \in DOMAIN Tail(todo) /\ Tail(todo)[m - 1] = todo[m]
    BY <2>1
  <2> HIDE DEF l
  <2>3. ASSUME NEW k \in Prompt!ToSet(todo), k # l
        PROVE  k \in Prompt!ToSet(todo')
    <3>1. PICK m \in DOMAIN todo : todo[m] = k
      BY DEF Prompt!ToSet
    <3>2. m # 1
      BY <2>1, <2>3, <3>1
    <3>3. m - 1 \in DOMAIN todo' /\ todo'[m - 1] = k
      BY <1>1, <2>2, <3>1, <3>2
    <3> QED BY <3>3 DEF Prompt!ToSet
  <2> QED BY <2>3
<1>4. SavedTrue'
  BY <1>0, <1>1 DEF SavedTrue
<1>5. Emptied'
  BY <1>1 DEF Emptied
<1>6. counts \in [Keyed -> [available : Nat, included : Nat]]
      /\ shown \in [Prompt!Lists -> Seq(Nat)]
  BY <1>0 DEF PromptKinds
<1>7. Len(given[l]) \in Nat /\ (l \in Prompt!Lists =>
         FitOf(l) \in Seq(Nat) /\ Len(FitOf(l)) \in Nat)
  <2> HIDE DEF l
  <2>1. /\ given[l] \in Seq(Entry) /\ Len(given[l]) \in Nat
        /\ l \in Prompt!Lists =>
              FitOf(l) \in Seq(DOMAIN given[l]) /\ Len(FitOf(l)) \in Nat
    BY <1>1, <1>2, ListsKnown
  <2>2. DOMAIN given[l] \subseteq Nat
    BY <2>1
  <2>3. l \in Prompt!Lists => FitOf(l) \in Seq(Nat)
    BY <2>1, <2>2
  <2> QED BY <2>1, <2>3
<1>8. \A k : FitOf(k)' = FitOf(k)
  BY <1>1 DEF FitOf
<1> HIDE DEF l
<1>9. CASE l \in Prompt!Bare
  <2>1. counts' =
            [counts EXCEPT ![l] =
                [available |-> Len(given[l]), included |-> 0]]
        /\ shown' = shown
    BY <1>9 DEF Prompt!BuildSection, Prompt!Record, l
  <2>2. PromptKinds'
    <3>1. counts' \in [Keyed -> [available : Nat, included : Nat]]
      BY <1>6, <1>7, <2>1
    <3> QED BY <1>0, <1>1, <1>2, <2>1, <3>1 DEF PromptKinds
  <2>3. Counted'
    BY <1>0, <1>1, <1>2, <1>3, <1>6, <1>9, <2>1 DEF Counted
  <2>4. ShownFirst'
    BY <1>0, <1>8, <2>1 DEF ShownFirst
  <2> QED BY <1>4, <1>5, <2>2, <2>3, <2>4 DEF PromptInv
<1>10. CASE l \notin Prompt!Bare
  <2>0. l \in Prompt!Lists
    BY <1>2, <1>10 DEF Keyed
  <2>1. /\ counts' = [counts EXCEPT ![l] = [available |-> Len(given[l]),
                                           included |-> Len(FitOf(l))]]
        /\ shown' = [shown EXCEPT ![l] = FitOf(l)]
    BY <1>10 DEF Prompt!BuildSection, Prompt!Record, l, FitOf
  <2>2. PromptKinds'
    <3>1. counts' \in [Keyed -> [available : Nat, included : Nat]]
      BY <1>6, <1>7, <2>0, <2>1
    <3>2. shown' \in [Prompt!Lists -> Seq(Nat)]
      BY <1>6, <1>7, <2>0, <2>1
    <3> QED BY <1>0, <1>1, <1>2, <3>1, <3>2 DEF PromptKinds
  <2>3. Counted'
    <3> SUFFICES ASSUME NEW k \in Keyed \ Prompt!ToSet(todo')
                 PROVE  /\ counts'[k].available = Len(given[k])
                        /\ counts'[k].included =
                              IF k \in Prompt!Bare THEN 0 ELSE Len(shown'[k])
      BY <1>1 DEF Counted
    <3>1. CASE k = l
      BY <1>2, <1>6, <1>10, <2>0, <2>1, <3>1
    <3>2. CASE k # l
      <4>1. k \in Keyed \ Prompt!ToSet(todo)
        BY <1>3, <3>2
      <4>2. counts'[k] = counts[k]
            /\ (k \notin Prompt!Bare => shown'[k] = shown[k])
        BY <1>6, <2>1, <3>2 DEF Keyed
      <4> QED BY <1>0, <4>1, <4>2 DEF Counted
    <3> QED BY <3>1, <3>2
  <2>4. ShownFirst'
    <3> SUFFICES ASSUME NEW k \in Prompt!Lists
                 PROVE  \E q \in 0..Len(FitOf(k)) :
                            shown'[k] = SubSeq(FitOf(k), 1, q)
      BY <1>8 DEF ShownFirst
    <3>1. CASE k = l
      <4>1. shown'[k] = FitOf(l) /\ Len(FitOf(l)) \in 0..Len(FitOf(l))
        BY <1>6, <1>7, <2>0, <2>1, <3>1
      <4>2. SubSeq(FitOf(l), 1, Len(FitOf(l))) = FitOf(l)
        BY <1>7, <2>0, <4>1, Beginning, SameItems
      <4> QED BY <3>1, <4>1, <4>2
    <3>2. CASE k # l
      BY <1>0, <1>6, <2>1, <3>2 DEF ShownFirst
    <3> QED BY <3>1, <3>2
  <2> QED BY <1>4, <1>5, <2>2, <2>3, <2>4 DEF PromptInv
<1> QED BY <1>9, <1>10

\* The last item of a list is dropped and no longer counted.
LEMMA DropKeeps ==
    ASSUME PromptInv, Prompt!Drop
    PROVE  PromptInv'
<1>0. PromptKinds /\ ShownFirst /\ Counted /\ Emptied /\ SavedTrue
  BY DEF PromptInv
<1>1. /\ todo = <<>> /\ todo' = todo /\ form = "full" /\ form' = form
      /\ given' = given /\ rest' = rest /\ summary' = summary
      /\ ~summary.saved /\ Prompt!Populated # {}
  BY DEF Prompt!Drop, Prompt!TooLong
<1> DEFINE l == Trimmed[Prompt!Longest]
<1>2. Prompt!Longest \in Prompt!Populated
  <2> DEFINE P == Prompt!Populated
             size == [k \in P |-> Prompt!LastLength(Trimmed[k])]
  <2>1. Len(Trimmed) \in Nat /\ P \in SUBSET (1..Len(Trimmed)) /\ P # {}
    BY PromptTypes, <1>1 DEF Prompt!Populated
  <2>2. \A k \in P : size[k] \in Nat
    <3> SUFFICES ASSUME NEW k \in P PROVE Prompt!LastLength(Trimmed[k]) \in Nat
      OBVIOUS
    <3>1. Trimmed[k] \in Prompt!Lists /\ shown[Trimmed[k]] # <<>>
      BY DEF Prompt!Populated, Prompt!Lists, Prompt!Cut, Prompt!ToSet
    <3> DEFINE s == shown[Trimmed[k]]
               e == given[Trimmed[k]]
    <3>2. s \in Seq(DOMAIN e) /\ s # <<>> /\ e \in Seq(Entry)
      BY <1>0, <3>1, ShownKnown, ListsKnown DEF Keyed, PromptKinds
    <3>3. Prompt!LastLength(Trimmed[k]) = e[s[Len(s)]].length
      BY DEF Prompt!LastLength, Prompt!Last
    <3> HIDE DEF s, e
    <3>4. s[Len(s)] \in DOMAIN e
      BY <3>2
    <3>5. e[s[Len(s)]] \in Entry
      BY <3>2, <3>4
    <3> QED BY <3>3, <3>5 DEF Entry
  <2>3. \E k \in P : \A j \in P :
           size[k] > size[j] \/ (size[k] = size[j] /\ k <= j)
    <3> HIDE DEF P, size
    <3> QED BY <2>1, <2>2, LongestIs
  <2> HIDE DEF P
  <2>4. \E k \in P : \A j \in P :
           \/ Prompt!LastLength(Trimmed[k]) > Prompt!LastLength(Trimmed[j])
           \/ /\ Prompt!LastLength(Trimmed[k]) = Prompt!LastLength(Trimmed[j])
              /\ k <= j
    BY <2>3
  <2> QED BY <2>4 DEF Prompt!Longest, P
<1>3. l \in Prompt!Lists /\ shown[l] # <<>>
  BY <1>2 DEF Prompt!Populated, Prompt!Lists, Prompt!Cut, Prompt!ToSet
<1>4. /\ shown' = [shown EXCEPT ![l] = Prompt!Front(shown[l])]
      /\ counts' =
             [counts EXCEPT ![l].included = Prompt!Less(counts[l].included)]
  BY DEF Prompt!Drop
<1> HIDE DEF l
<1>5. /\ counts \in [Keyed -> [available : Nat, included : Nat]]
      /\ shown \in [Prompt!Lists -> Seq(Nat)]
      /\ l \in Keyed /\ l \notin Prompt!Bare
  BY <1>0, <1>3, PromptTypes DEF PromptKinds, Keyed
<1>6. PICK q \in 0..Len(FitOf(l)) : shown[l] = SubSeq(FitOf(l), 1, q)
  BY <1>0, <1>3 DEF ShownFirst
<1>7. /\ FitOf(l) \in Seq(DOMAIN given[l]) /\ Len(FitOf(l)) \in Nat
      /\ q \in Nat /\ Len(shown[l]) = q /\ shown[l] \in Seq(DOMAIN given[l])
  <2>1. FitOf(l) \in Seq(DOMAIN given[l]) /\ Len(FitOf(l)) \in Nat
    BY <1>0, <1>3, ListsKnown DEF PromptKinds
  <2>2. q \in Nat
    BY <1>6, <2>1
  <2>3. Len(shown[l]) = q /\ shown[l] \in Seq(DOMAIN given[l])
    BY <1>6, <2>1, Beginning
  <2> QED BY <2>1, <2>2, <2>3
<1>8. q > 0 /\ q - 1 \in 0..Len(FitOf(l)) /\ q - 1 \in 0..q /\ q - 1 \in Nat
  <2>1. q # 0
    BY <1>3, <1>7
  <2> QED BY <1>6, <1>7, <2>1
<1>9. /\ Prompt!Front(shown[l]) = SubSeq(FitOf(l), 1, q - 1)
      /\ Prompt!Front(shown[l]) \in Seq(Nat)
      /\ Len(Prompt!Front(shown[l])) = q - 1
  <2> DEFINE a == SubSeq(shown[l], 1, q - 1)
             b == SubSeq(FitOf(l), 1, q - 1)
  <2>1. Prompt!Front(shown[l]) = a
    BY <1>7 DEF Prompt!Front
  <2>2. /\ a \in Seq(DOMAIN given[l]) /\ Len(a) = q - 1
        /\ \A k \in 1..q - 1 : a[k] = shown[l][k]
    BY <1>7, <1>8, Beginning
  <2>3. /\ b \in Seq(DOMAIN given[l]) /\ Len(b) = q - 1
        /\ \A k \in 1..q - 1 : b[k] = FitOf(l)[k]
    BY <1>7, <1>8, Beginning
  <2>4. \A k \in 1..q : shown[l][k] = FitOf(l)[k]
    BY <1>6, <1>7, Beginning
  <2> HIDE DEF a, b
  <2>5. a = b
    <3>1. \A k \in 1..q - 1 : a[k] = b[k]
      BY <1>8, <2>2, <2>3, <2>4
    <3> QED BY <2>2, <2>3, <3>1, SameItems
  <2>6. a \in Seq(Nat)
    <3>1. given[l] \in Seq(Entry)
      BY <1>0, <1>5, ListsKnown DEF PromptKinds
    <3>2. DOMAIN given[l] \subseteq Nat
      BY <3>1
    <3> QED BY <2>2, <3>2
  <2> QED BY <2>1, <2>2, <2>5, <2>6 DEF b
<1>10. counts[l].included = q
  BY <1>0, <1>1, <1>5, <1>7 DEF Counted, Prompt!ToSet
<1>11. /\ counts'[l].available = counts[l].available
       /\ counts'[l].included = q - 1
       /\ counts' \in [Keyed -> [available : Nat, included : Nat]]
       /\ \A k \in Keyed : k # l => counts'[k] = counts[k]
  <2>1. Prompt!Less(counts[l].included) = q - 1
    BY <1>8, <1>10 DEF Prompt!Less
  <2>2. counts' = [counts EXCEPT ![l].included = q - 1]
    BY <1>4, <2>1
  <2> QED BY <1>5, <1>8, <2>2
<1>12. /\ shown' \in [Prompt!Lists -> Seq(Nat)]
       /\ shown'[l] = SubSeq(FitOf(l), 1, q - 1) /\ Len(shown'[l]) = q - 1
       /\ \A k \in Prompt!Lists : k # l => shown'[k] = shown[k]
  BY <1>3, <1>4, <1>5, <1>9
<1>13. PromptKinds'
  BY <1>0, <1>1, <1>11, <1>12 DEF PromptKinds
<1>14. ShownFirst'
  <2>1. \A k : FitOf(k)' = FitOf(k)
    BY <1>1 DEF FitOf
  <2> QED BY <1>0, <1>8, <1>12, <2>1 DEF ShownFirst
<1>15. Counted'
  <2> SUFFICES ASSUME NEW k \in Keyed \ Prompt!ToSet(todo)
               PROVE  /\ counts'[k].available = Len(given[k])
                      /\ counts'[k].included =
                            IF k \in Prompt!Bare THEN 0 ELSE Len(shown'[k])
    BY <1>1 DEF Counted
  <2>1. CASE k = l
    BY <1>0, <1>5, <1>11, <1>12, <2>1 DEF Counted
  <2>2. CASE k # l
    BY <1>0, <1>11, <1>12, <2>2 DEF Counted, Keyed
  <2> QED BY <2>1, <2>2
<1>16. Emptied' /\ SavedTrue'
  BY <1>1 DEF Emptied, SavedTrue
<1> QED BY <1>13, <1>14, <1>15, <1>16 DEF PromptInv

\* When nothing is left to drop, the rest gets shorter.
LEMMA ReduceKeeps ==
    ASSUME PromptInv, Prompt!Reduce
    PROVE  PromptInv'
<1>0. PromptKinds /\ ShownFirst /\ Counted
  BY DEF PromptInv
<1>1. /\ todo = <<>> /\ todo' = todo /\ form' = "minimal"
      /\ given' = given /\ rest' = rest /\ summary' = summary /\ ~summary.saved
      /\ shown' = [l \in Prompt!Lists |-> <<>>]
      /\ counts' = [l \in DOMAIN counts |-> [counts[l] EXCEPT !.included = 0]]
  BY DEF Prompt!Reduce, Prompt!TooLong
<1>2. /\ counts' \in [Keyed -> [available : Nat, included : Nat]]
      /\ \A k \in Keyed : /\ counts'[k].available = counts[k].available
                          /\ counts'[k].included = 0
  BY <1>0, <1>1 DEF PromptKinds
<1>3. shown' \in [Prompt!Lists -> Seq(Nat)] /\ \A l \in Prompt!Lists :
          shown'[l] = <<>>
  BY <1>1
<1>4. PromptKinds'
  BY <1>0, <1>1, <1>2, <1>3 DEF PromptKinds, Prompt!Forms
<1>5. ShownFirst'
  <2> SUFFICES ASSUME NEW l \in Prompt!Lists
               PROVE  \E q \in 0..Len(FitOf(l)) :
                          shown'[l] = SubSeq(FitOf(l), 1, q)
    BY <1>1 DEF ShownFirst, FitOf
  <2>1. FitOf(l) \in Seq(DOMAIN given[l]) /\ 0 \in 0..Len(FitOf(l))
    BY <1>0, ListsKnown DEF PromptKinds
  <2>2. SubSeq(FitOf(l), 1, 0) = <<>>
    BY <2>1
  <2> QED BY <1>3, <2>1, <2>2
<1>6. Counted'
  <2> SUFFICES ASSUME NEW k \in Keyed \ Prompt!ToSet(todo)
               PROVE  /\ counts'[k].available = Len(given[k])
                      /\ counts'[k].included =
                            IF k \in Prompt!Bare THEN 0 ELSE Len(shown'[k])
    BY <1>1 DEF Counted
  <2>1. counts[k].available = Len(given[k])
    BY <1>0 DEF Counted
  <2>2. k \notin Prompt!Bare => Len(shown'[k]) = 0
    BY <1>3 DEF Keyed
  <2> QED BY <1>2, <2>1, <2>2
<1>7. Emptied' /\ SavedTrue'
  BY <1>1, <1>3 DEF Emptied, SavedTrue
<1> QED BY <1>4, <1>5, <1>6, <1>7 DEF PromptInv

LEMMA ShortenKeeps ==
    ASSUME PromptInv, Prompt!Shorten
    PROVE  PromptInv'
<1>1. /\ todo' = todo /\ form # "full" /\ form' \in Prompt!Forms
      /\ given' = given /\ rest' = rest /\ summary' = summary
      /\ shown' = shown /\ counts' = counts /\ ~summary.saved
  BY DEF Prompt!Shorten, Prompt!TooLong, Prompt!Forms
<1>2. PromptKinds' /\ ShownFirst' /\ Counted'
  BY <1>1 DEF PromptInv, PromptKinds, ShownFirst, FitOf, Counted
<1>3. Emptied' /\ SavedTrue'
  BY <1>1 DEF PromptInv, Emptied, SavedTrue
<1> QED BY <1>2, <1>3 DEF PromptInv

\* What is saved is true of what is shown.
LEMMA SummariseKeeps ==
    ASSUME PromptInv, Prompt!Summarise
    PROVE  PromptInv'
<1>0. PromptKinds /\ ShownFirst /\ Counted /\ Emptied
  BY DEF PromptInv
<1>1. /\ todo = <<>> /\ todo' = todo /\ form' = form /\ given' = given
      /\ rest' = rest /\ shown' = shown /\ counts' = counts
      /\ Prompt!Size <= MaxChars \/ form = "identifiers"
      /\ summary' = [saved |-> TRUE, final |-> Prompt!Size,
                     truncated |-> \E l \in DOMAIN counts :
                                     counts[l].available > counts[l].included]
  BY DEF Prompt!Summarise
<1>2. PromptKinds' /\ ShownFirst' /\ Counted' /\ Emptied'
  BY <1>0, <1>1 DEF PromptKinds, ShownFirst, FitOf, Counted, Emptied
<1>3. Prompt!Size <= MaxChars \/ rest["identifiers"] > MaxChars
  <2>1. CASE form = "identifiers"
    <3>1. Prompt!Held = 0
      BY <1>0, <2>1, NothingHeld DEF Emptied
    <3>2. rest["identifiers"] \in Nat /\ MaxChars \in Nat
      BY <1>0, PromptTypes DEF PromptKinds, Prompt!Forms
    <3> QED BY <2>1, <3>1, <3>2 DEF Prompt!Size
  <2> QED BY <1>1, <2>1
<1>4. \A k \in Keyed : /\ counts[k].available = Len(given[k])
                       /\ counts[k].included =
                             IF k \in Prompt!Bare THEN 0 ELSE Len(shown[k])
  BY <1>0, <1>1 DEF Counted, Prompt!ToSet
<1>5. \A l \in Prompt!Lists : l \in Keyed /\ l \notin Prompt!Bare
  BY PromptTypes DEF Keyed
<1>6. \A k \in Prompt!Bare : /\ k \in Keyed
                             /\ Len(given[k]) > 0 <=> given[k] # <<>>
  <2>1. \A k \in Prompt!Bare : k \in Keyed /\ given[k] \in Seq(Entry)
    BY <1>0, ListsKnown DEF Keyed, PromptKinds
  <2>2. \A k \in Prompt!Bare : Len(given[k]) > 0 <=> given[k] # <<>>
    <3> SUFFICES ASSUME NEW k \in Prompt!Bare
                 PROVE  Len(given[k]) > 0 <=> given[k] # <<>>
      OBVIOUS
    <3> DEFINE e == given[k]
    <3>1. e \in Seq(Entry)
      BY <2>1
    <3> HIDE DEF e
    <3>2. Len(e) > 0 <=> e # <<>>
      BY <3>1
    <3> QED BY <3>2 DEF e
  <2> QED BY <2>1, <2>2
<1>7. (\E k \in DOMAIN counts : counts[k].available > counts[k].included) <=>
         \/ \E l \in Prompt!Lists : Len(shown[l]) < Len(given[l])
         \/ \E k \in Prompt!Bare : given[k] # <<>>
  <2>1. DOMAIN counts = Keyed
    BY <1>0 DEF PromptKinds
  <2>2. \A l \in Prompt!Lists :
           counts[l].available > counts[l].included <=>
               Len(shown[l]) < Len(given[l])
    <3>1. \A l \in Prompt!Lists :
              Len(shown[l]) \in Nat /\ Len(given[l]) \in Nat
      BY <1>0, <1>5, ShownKnown, ListsKnown DEF PromptKinds
    <3> QED BY <1>4, <1>5, <3>1
  <2>3. \A k \in Prompt!Bare :
           counts[k].available > counts[k].included <=> given[k] # <<>>
    <3> SUFFICES ASSUME NEW k \in Prompt!Bare
                 PROVE  counts[k].available > counts[k].included <=>
                            given[k] # <<>>
      OBVIOUS
    <3>1. counts[k].available = Len(given[k]) /\ counts[k].included = 0
      BY <1>4, <1>6
    <3>2. Len(given[k]) > 0 <=> given[k] # <<>>
      BY <1>6
    <3> QED BY <3>1, <3>2
  <2> QED BY <2>1, <2>2, <2>3 DEF Keyed
<1>8. Prompt!Honest'
  <2>1. /\ summary'.final = Prompt!Size
        /\ summary'.truncated = (\E l \in DOMAIN counts :
                                     counts[l].available > counts[l].included)
    BY <1>1
  <2>2. summary'.final <= MaxChars \/ rest'["identifiers"] > MaxChars
    BY <1>1, <1>3, <2>1
  <2>3. \A l \in Prompt!Lists : counts'[l].included = Len(shown'[l])
    BY <1>1, <1>4, <1>5
  <2>4. summary'.truncated <=>
           \/ \E l \in Prompt!Lists : Len(shown'[l]) < Len(given'[l])
           \/ \E l \in Prompt!Bare : given'[l] # <<>>
    BY <1>1, <1>7, <2>1
  <2> QED BY <2>2, <2>3, <2>4 DEF Prompt!Honest
<1> QED BY <1>1, <1>2, <1>8 DEF PromptInv, SavedTrue

LEMMA PromptStep == ASSUME PromptInv, [Prompt!Next]_promptVars PROVE PromptInv'
<1>1. CASE UNCHANGED promptVars
  BY <1>1 DEF promptVars, PromptInv, PromptKinds, ShownFirst, FitOf, Counted,
     Emptied, SavedTrue, Prompt!Honest
<1> QED BY <1>1, SectionKeeps, DropKeeps, ReduceKeeps, ShortenKeeps,
           SummariseKeeps DEF Prompt!Next

LEMMA PromptFollows == PromptInv => Prompt!PromptSound
<1> SUFFICES ASSUME PromptInv PROVE Prompt!Honest /\ Prompt!RankKept
  BY DEF Prompt!PromptSound
<1>0. PromptKinds /\ ShownFirst
  BY DEF PromptInv
<1>1. Prompt!Honest
  BY DEF PromptInv, SavedTrue, Prompt!Honest
<1>2. ASSUME NEW l \in Prompt!Lists,
             NEW i \in DOMAIN given[l] \ Prompt!ToSet(shown[l]),
             NEW j \in Prompt!ToSet(shown[l]), Prompt!Before(l, given[l], i, j)
      PROVE  \E m \in 0..Len(shown[l]) :
                /\ Prompt!Between(l, i, m)
                /\ Prompt!Length(given[l],
                       Append(SubSeq(shown[l], 1, m), i)) > Room[l]
  <2>1. PICK q \in 0..Len(FitOf(l)) : shown[l] = SubSeq(FitOf(l), 1, q)
    BY <1>0 DEF ShownFirst
  <2>2. given[l] \in Seq(Entry)
    BY <1>0, ListsKnown DEF PromptKinds, Keyed
  <2> DEFINE e == given[l]
             s == shown[l]
  <2>3. \E m \in 0..Len(s) :
           /\ \A k \in 1..m : Prompt!Before(l, e, s[k], i)
           /\ \A k \in m + 1..Len(s) : Prompt!Before(l, e, i, s[k])
           /\ Prompt!Length(e, Append(SubSeq(s, 1, m), i)) > Room[l]
    <3>1. /\ e \in Seq(Entry) /\ q \in 0..Len(Prompt!Fitted(l, e))
          /\ s = SubSeq(Prompt!Fitted(l, e), 1, q)
          /\ i \in DOMAIN e \ Prompt!ToSet(s) /\ j \in Prompt!ToSet(s)
          /\ Prompt!Before(l, e, i, j)
      BY <1>2, <2>1, <2>2 DEF FitOf
    <3> HIDE DEF e, s
    <3> QED BY <3>1, RanksKept
  <2> QED BY <2>3 DEF Prompt!Between
<1> QED BY <1>1, <1>2 DEF Prompt!RankKept

LEMMA ContextSteps ==
    ASSUME part = "context", [Next]_vars
    PROVE  [Context!Next]_contextVars
BY DEF Next, vars, contextVars

LEMMA PromptSteps ==
    ASSUME part = "prompt", [Next]_vars
    PROVE  [Prompt!Next]_promptVars
BY DEF Next, vars, promptVars

\* A saved diagnosis has in its index all that its sources and collectors
\* gave, whatever failed and however often it was tried; a reference leads to
\* one item; the prompt keeps to its budget, its counts are those of what it
\* shows, and an item gives way only to items above it or to the budget, for
\* any sources, lists, scores and lengths.
\* Code: run_timepoint_diagnosis, DiagnosisEvidenceBuilder,
\* DiagnosisPromptContextBuilder.
ContextHeld == part = "context" => ContextInv
PromptHeld == part = "prompt" => PromptInv
THEOREM EvidenceHolds == Spec => []EvidenceSound
<1>1. Init => ContextHeld /\ PromptHeld
  BY ContextInit, PromptInit DEF Init, ContextHeld, PromptHeld
<1>2. ContextHeld /\ [Next]_vars => ContextHeld'
  BY PartStays, ContextSteps, ContextStep DEF ContextHeld
<1>3. PromptHeld /\ [Next]_vars => PromptHeld'
  BY PartStays, PromptSteps, PromptStep DEF PromptHeld
<1>4. ContextHeld /\ PromptHeld => EvidenceSound
  BY ContextFollows, PromptFollows DEF ContextHeld, PromptHeld, EvidenceSound
<1> QED BY <1>1, <1>2, <1>3, <1>4, PTL DEF Spec

=============================================================================
