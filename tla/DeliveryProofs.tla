--------------------------- MODULE DeliveryProofs ---------------------------
(***************************************************************************)
(* Proofs about the schedules, the task monitor, the webhooks and the work *)
(* of nodes of DeliverySystem, for every number of handlers, tasks,        *)
(* deliveries and runs.                                                    *)
(* What holds of a component while it is the one that moves holds of the   *)
(* system: part never changes.                                             *)
(***************************************************************************)
EXTENDS DeliverySystem, SequenceTheorems, FiniteSetTheorems, TLAPS

\* A behaviour stays with its component.
LEMMA PartStays == [Next]_vars => part' = part
BY DEF Next, vars

\* What a view knows while it is the only one at work.
ViewKnows(v) ==
    LET copy == view[v].copy
    IN  /\ view[v].pc \in {"update", "toggle"} =>
              /\ copy = sched /\ sched.exists /\ sched.entry = beat
              /\ (beat # Schedule!NoEntry) <=> sched.enabled
        /\ view[v].pc \in {"sync", "destroy"} =>
              sched.exists /\ copy.entry = sched.entry /\ sched.entry = beat
        /\ view[v].pc = "sync" => copy.enabled = sched.enabled
        /\ view[v].pc = "destroy" => ~copy.enabled
        /\ view[v].pc = "link" =>
              /\ sched.exists /\ sched.enabled
              /\ copy.entry = beat /\ beat # Schedule!NoEntry
        /\ view[v].pc = "delete" => beat = Schedule!NoEntry

ViewsAlone ==
    ~crossed => /\ \A v, w \in View : \/ v = w \/ view[v].pc = "idle"
                                      \/ view[w].pc = "idle"
                /\ \A v \in View : ViewKnows(v)
ScheduleInv == Schedule!ScheduleTypeOK /\ ViewsAlone /\ Schedule!BeatFollows

BeatSettled ==
    /\ (beat # Schedule!NoEntry) <=> (sched.exists /\ sched.enabled)
    /\ sched.entry = beat

-----------------------------------------------------------------------------
\* A view that reads the row enters its next step with the copy.
LEMMA ViewBegins ==
    ASSUME Schedule!ScheduleTypeOK, NEW v \in View, NEW pc,
           NEW copy, Schedule!Begin(v, pc, copy)
    PROVE  /\ view' = [view EXCEPT ![v] = [pc |-> pc, copy |-> copy]]
           /\ view'[v].pc = pc /\ view'[v].copy = copy
           /\ ~crossed' => ~crossed /\ \A w \in View : view[w].pc = "idle"
           /\ \A w \in View \ {v} : view'[w] = view[w]
           /\ crossed' \in BOOLEAN
BY DEF Schedule!Begin, Schedule!ScheduleTypeOK

\* What holds of the one view at work and of the rows holds of the invariant.
LEMMA OneViewAtWork ==
    ASSUME NEW v \in View, \A w \in View \ {v} : view'[w].pc = "idle",
           ViewKnows(v)', view'[v].pc = "idle" => BeatSettled'
    PROVE  ViewsAlone' /\ Schedule!BeatFollows'
<1>1. \A w \in View \ {v} : ViewKnows(w)'
  BY DEF ViewKnows
<1>2. ViewsAlone'
  BY <1>1 DEF ViewsAlone
<1>3. Schedule!BeatFollows'
  BY DEF Schedule!BeatFollows, BeatSettled
<1> QED BY <1>2, <1>3

\* A view that goes on is the only one at work, or some have overlapped.
LEMMA ViewsRest ==
    ASSUME ViewsAlone, ~crossed, NEW v \in View, view[v].pc # "idle"
    PROVE  ViewKnows(v) /\ \A w \in View \ {v} : view[w].pc = "idle"
BY DEF ViewsAlone

\* The types are kept by every step.
LEMMA ScheduleTypeStep ==
    Schedule!ScheduleTypeOK /\ [Schedule!Next]_scheduleVars =>
        Schedule!ScheduleTypeOK'
<1> SUFFICES ASSUME Schedule!ScheduleTypeOK, [Schedule!Next]_scheduleVars
    PROVE Schedule!ScheduleTypeOK'
  OBVIOUS
<1> DEFINE View_ == [pc : {"idle", "sync", "update", "toggle", "destroy",
                           "link", "delete"}, copy : Schedule!Sched]
<1>0. /\ sched \in Schedule!Sched /\ Schedule!NoSched \in Schedule!Sched
             /\ Schedule!AtRest \in View_
      /\ view \in [View -> View_]
  BY DEF Schedule!ScheduleTypeOK, Schedule!NoSched, Schedule!AtRest,
     Schedule!Sched
<1>1. ASSUME NEW v \in View,
             NEW enabled \in BOOLEAN, Schedule!Create(v, enabled)
      PROVE  Schedule!ScheduleTypeOK'
  BY <1>1 DEF Schedule!Create, Schedule!Begin, Schedule!ScheduleTypeOK,
     Schedule!Sched, Schedule!NoEntry
<1>2. ASSUME NEW v \in View, Schedule!UpdateRead(v)
      PROVE Schedule!ScheduleTypeOK'
  BY <1>2 DEF Schedule!UpdateRead, Schedule!Begin, Schedule!ScheduleTypeOK
<1>3. ASSUME NEW v \in View,
             NEW enabled \in BOOLEAN, Schedule!UpdateSave(v, enabled)
      PROVE  Schedule!ScheduleTypeOK'
  <2>1. [view[v].copy EXCEPT !.enabled = enabled] \in Schedule!Sched
    BY DEF Schedule!ScheduleTypeOK, Schedule!Sched
  <2> QED BY <1>3, <2>1 DEF Schedule!UpdateSave, Schedule!ScheduleTypeOK
<1>4. ASSUME NEW v \in View, Schedule!ToggleRead(v)
      PROVE Schedule!ScheduleTypeOK'
  BY <1>4 DEF Schedule!ToggleRead, Schedule!Begin, Schedule!ScheduleTypeOK
<1>5. ASSUME NEW v \in View, Schedule!ToggleSave(v)
      PROVE Schedule!ScheduleTypeOK'
  <2>1. /\ [view[v].copy EXCEPT !.enabled = ~@] \in Schedule!Sched
        /\ [view[v].copy EXCEPT !.enabled = ~@].enabled \in BOOLEAN
    BY DEF Schedule!ScheduleTypeOK, Schedule!Sched
  <2>2. sched' \in Schedule!Sched
    BY <1>5, <2>1, <1>0 DEF Schedule!ToggleSave, Schedule!Sched
  <2>3. view' \in [View -> View_]
    BY <1>5, <2>1, <1>0 DEF Schedule!ToggleSave
  <2> QED BY <1>5, <2>2, <2>3 DEF Schedule!ToggleSave, Schedule!ScheduleTypeOK
<1>6. ASSUME NEW v \in View, Schedule!Destroy(v) PROVE Schedule!ScheduleTypeOK'
  <2>1. [sched EXCEPT !.enabled = FALSE] \in Schedule!Sched
    BY <1>0 DEF Schedule!Sched
  <2> QED BY <1>6, <2>1 DEF Schedule!Destroy, Schedule!Begin,
             Schedule!ScheduleTypeOK
<1>7. ASSUME NEW v \in View, Schedule!SyncOff(v) PROVE Schedule!ScheduleTypeOK'
  <2>1. sched' \in Schedule!Sched
    BY <1>7, <1>0 DEF Schedule!SyncOff, Schedule!Sched
  <2>2. view' \in [View -> View_]
    BY <1>7, <1>0 DEF Schedule!SyncOff
  <2> QED BY <1>7, <2>1, <2>2 DEF Schedule!SyncOff, Schedule!ScheduleTypeOK
<1>8. ASSUME NEW v \in View, Schedule!SyncOn(v) PROVE Schedule!ScheduleTypeOK'
  <2>1. view' \in [View -> View_]
    BY <1>8, <1>0 DEF Schedule!SyncOn, Schedule!Sched
  <2>2. beat' \in BeatEntry \cup {Schedule!NoEntry}
            /\ used' \subseteq BeatEntry
    BY <1>8, <1>0 DEF Schedule!SyncOn, Schedule!ScheduleTypeOK, Schedule!Sched
  <2> QED BY <1>8, <2>1, <2>2 DEF Schedule!SyncOn, Schedule!ScheduleTypeOK
<1>9. ASSUME NEW v \in View, Schedule!Link(v) PROVE Schedule!ScheduleTypeOK'
  <2>1. sched' \in Schedule!Sched
    BY <1>9, <1>0 DEF Schedule!Link, Schedule!Sched
  <2>2. view' \in [View -> View_]
    BY <1>9, <1>0 DEF Schedule!Link
  <2> QED BY <1>9, <2>1, <2>2 DEF Schedule!Link, Schedule!ScheduleTypeOK
<1>10. ASSUME NEW v \in View, Schedule!DestroyFinish(v)
       PROVE Schedule!ScheduleTypeOK'
  BY <1>10, <1>0 DEF Schedule!DestroyFinish, Schedule!ScheduleTypeOK
<1>11. ASSUME UNCHANGED scheduleVars PROVE Schedule!ScheduleTypeOK'
  BY <1>11 DEF scheduleVars, Schedule!ScheduleTypeOK
<1> QED BY <1>1, <1>2, <1>3, <1>4, <1>5, <1>6, <1>7, <1>8, <1>9, <1>10, <1>11
           DEF Schedule!Next

\* A view alone at work keeps the rows and beat in step.
LEMMA ViewsAloneStep ==
    ASSUME ScheduleInv, [Schedule!Next]_scheduleVars
    PROVE  ViewsAlone' /\ Schedule!BeatFollows'
<1> SUFFICES ASSUME ~crossed' PROVE ViewsAlone' /\ Schedule!BeatFollows'
  BY DEF ViewsAlone, Schedule!BeatFollows
<1> USE DEF ScheduleInv
<1>0. ASSUME ~crossed, \A w \in View : view[w].pc = "idle"
      PROVE  BeatSettled
  BY <1>0 DEF Schedule!BeatFollows, BeatSettled
<1>1. ASSUME NEW v \in View,
             NEW enabled \in BOOLEAN, Schedule!Create(v, enabled)
      PROVE  ViewsAlone' /\ Schedule!BeatFollows'
  <2>1. BeatSettled /\ \A w \in View \ {v} : view'[w].pc = "idle"
    BY <1>1, <1>0, ViewBegins DEF Schedule!Create
  <2>2. view'[v] = [pc |-> "sync", copy |-> sched'] /\ beat' = Schedule!NoEntry
    BY <1>1, <2>1, ViewBegins DEF Schedule!Create, Schedule!Begin, BeatSettled,
       Schedule!ScheduleTypeOK
  <2>3. sched'.exists /\ sched'.entry = Schedule!NoEntry
    BY <1>1 DEF Schedule!Create
  <2> QED BY <2>1, <2>2, <2>3, OneViewAtWork DEF ViewKnows
<1>2. ASSUME NEW v \in View, Schedule!UpdateRead(v) \/ Schedule!ToggleRead(v)
      PROVE  ViewsAlone' /\ Schedule!BeatFollows'
  <2>1. BeatSettled /\ \A w \in View \ {v} : view'[w].pc = "idle"
    BY <1>2, <1>0, ViewBegins DEF Schedule!UpdateRead, Schedule!ToggleRead
  <2>2. view'[v].pc \in {"update", "toggle"} /\ view'[v].copy = sched
    BY <1>2, ViewBegins DEF Schedule!UpdateRead, Schedule!ToggleRead
  <2>3. sched' = sched /\ beat' = beat /\ sched.exists
    BY <1>2 DEF Schedule!UpdateRead, Schedule!ToggleRead
  <2> QED BY <2>1, <2>2, <2>3, OneViewAtWork DEF ViewKnows, BeatSettled
<1>3. ASSUME NEW v \in View,
             NEW enabled \in BOOLEAN, Schedule!UpdateSave(v, enabled)
      PROVE  ViewsAlone' /\ Schedule!BeatFollows'
  <2>1. ViewKnows(v) /\ \A w \in View \ {v} : view'[w].pc = "idle"
    BY <1>3, ViewsRest DEF Schedule!UpdateSave, Schedule!ScheduleTypeOK
  <2>2. view'[v].pc = "sync" /\ view'[v].copy = sched' /\ beat' = beat
    BY <1>3 DEF Schedule!UpdateSave, Schedule!ScheduleTypeOK
  <2>3. sched'.exists /\ sched'.entry = beat
    BY <1>3, <2>1 DEF Schedule!UpdateSave, ViewKnows, Schedule!ScheduleTypeOK,
       Schedule!Sched
  <2> QED BY <2>1, <2>2, <2>3, OneViewAtWork DEF ViewKnows
<1>4. ASSUME NEW v \in View, Schedule!ToggleSave(v)
      PROVE  ViewsAlone' /\ Schedule!BeatFollows'
  <2>1. ViewKnows(v) /\ \A w \in View \ {v} : view'[w].pc = "idle"
    BY <1>4, ViewsRest DEF Schedule!ToggleSave, Schedule!ScheduleTypeOK
  <2>2. /\ view[v].copy = sched /\ sched.exists /\ sched.entry = beat
        /\ beat' = beat
    BY <1>4, <2>1 DEF Schedule!ToggleSave, ViewKnows
  <2>3. sched' = [sched EXCEPT !.enabled = ~@] /\ view'[v].pc = "sync"
        /\ view'[v].copy = sched'
    BY <1>4, <2>2 DEF Schedule!ToggleSave, Schedule!ScheduleTypeOK,
       Schedule!Sched
  <2>4. sched'.exists /\ sched'.entry = sched.entry
    BY <2>2, <2>3 DEF Schedule!ScheduleTypeOK, Schedule!Sched
  <2> QED BY <2>1, <2>2, <2>3, <2>4, OneViewAtWork DEF ViewKnows
<1>5. ASSUME NEW v \in View, Schedule!Destroy(v)
      PROVE ViewsAlone' /\ Schedule!BeatFollows'
  <2>1. BeatSettled /\ \A w \in View \ {v} : view'[w].pc = "idle"
    BY <1>5, <1>0, ViewBegins DEF Schedule!Destroy
  <2>2. /\ view'[v].pc = "destroy"
        /\ view'[v].copy = [sched EXCEPT !.enabled = FALSE]
    BY <1>5, ViewBegins DEF Schedule!Destroy
  <2>3. sched' = sched /\ beat' = beat /\ sched.exists
    BY <1>5 DEF Schedule!Destroy
  <2>4. view'[v].copy.entry = sched.entry /\ ~view'[v].copy.enabled
    BY <2>2 DEF Schedule!ScheduleTypeOK, Schedule!Sched
  <2> QED BY <2>1, <2>2, <2>3, <2>4, OneViewAtWork DEF ViewKnows, BeatSettled
<1>6. ASSUME NEW v \in View, Schedule!SyncOff(v)
      PROVE ViewsAlone' /\ Schedule!BeatFollows'
  <2>1. ViewKnows(v) /\ \A w \in View \ {v} : view'[w].pc = "idle"
    BY <1>6, ViewsRest DEF Schedule!SyncOff, Schedule!ScheduleTypeOK
  <2>2. /\ sched.exists /\ view[v].copy.entry = sched.entry
        /\ sched.entry = beat
        /\ view[v].pc = "sync" => ~sched.enabled
    BY <1>6, <2>1 DEF Schedule!SyncOff, ViewKnows
  <2>3. beat' = Schedule!NoEntry
    BY <1>6, <2>2 DEF Schedule!SyncOff
  <2>4. sched' = [sched EXCEPT !.entry = Schedule!NoEntry]
    BY <1>6, <2>2 DEF Schedule!SyncOff, Schedule!ScheduleTypeOK, Schedule!Sched
  <2>5. sched'.entry = Schedule!NoEntry /\ sched'.enabled = sched.enabled
    BY <2>4 DEF Schedule!ScheduleTypeOK, Schedule!Sched
  <2>6. CASE view[v].pc = "sync"
    <3>1. view'[v].pc = "idle"
      BY <1>6, <2>6 DEF Schedule!SyncOff, Schedule!ScheduleTypeOK,
         Schedule!AtRest
    <3> QED BY <2>1, <2>2, <2>3, <2>5, <2>6, <3>1, OneViewAtWork DEF ViewKnows,
               BeatSettled
  <2>7. CASE view[v].pc = "destroy"
    <3>1. view'[v].pc = "delete"
      BY <1>6, <2>7 DEF Schedule!SyncOff, Schedule!ScheduleTypeOK
    <3> QED BY <2>1, <2>3, <3>1, OneViewAtWork DEF ViewKnows
  <2> QED BY <1>6, <2>6, <2>7 DEF Schedule!SyncOff
<1>7. ASSUME NEW v \in View, Schedule!SyncOn(v)
      PROVE ViewsAlone' /\ Schedule!BeatFollows'
  <2>1. ViewKnows(v) /\ \A w \in View \ {v} : view'[w].pc = "idle"
    BY <1>7, ViewsRest DEF Schedule!SyncOn, Schedule!ScheduleTypeOK
  <2>2. /\ sched.exists /\ sched.enabled /\ view[v].copy.entry = sched.entry
        /\ sched.entry = beat /\ sched' = sched
    BY <1>7, <2>1 DEF Schedule!SyncOn, ViewKnows
  <2>3. CASE beat # Schedule!NoEntry
    <3>1. beat' = beat /\ view' = [view EXCEPT ![v].pc = "link"]
      BY <1>7, <2>2, <2>3 DEF Schedule!SyncOn
    <3>2. view'[v].pc = "link" /\ view'[v].copy = view[v].copy
      BY <3>1 DEF Schedule!ScheduleTypeOK
    <3> QED BY <2>1, <2>2, <2>3, <3>1, <3>2, OneViewAtWork DEF ViewKnows
  <2>4. CASE beat = Schedule!NoEntry
    <3>1. PICK id \in BeatEntry :
             beat' = id /\ view' = [view EXCEPT ![v].pc = "link",
                                                ![v].copy.entry = id]
      BY <1>7, <2>2, <2>4 DEF Schedule!SyncOn
    <3>2. view'[v].pc = "link" /\ view'[v].copy.entry = id
      BY <3>1 DEF Schedule!ScheduleTypeOK, Schedule!Sched
    <3> QED BY <2>1, <2>2, <3>1, <3>2, OneViewAtWork, EntryNames DEF ViewKnows
  <2> QED BY <2>3, <2>4
<1>8. ASSUME NEW v \in View, Schedule!Link(v)
      PROVE ViewsAlone' /\ Schedule!BeatFollows'
  <2>1. ViewKnows(v) /\ \A w \in View \ {v} : view'[w].pc = "idle"
    BY <1>8, ViewsRest DEF Schedule!Link, Schedule!ScheduleTypeOK
  <2>2. /\ sched.exists /\ sched.enabled
        /\ view[v].copy.entry = beat /\ beat # Schedule!NoEntry
    BY <1>8, <2>1 DEF Schedule!Link, ViewKnows
  <2>3. sched' = [sched EXCEPT !.entry = beat] /\ beat' = beat
    BY <1>8, <2>2 DEF Schedule!Link
  <2>4. sched'.exists /\ sched'.enabled /\ sched'.entry = beat
    BY <2>2, <2>3 DEF Schedule!ScheduleTypeOK, Schedule!Sched
  <2>5. view'[v].pc = "idle"
    BY <1>8 DEF Schedule!Link, Schedule!ScheduleTypeOK, Schedule!AtRest
  <2> QED BY <2>1, <2>2, <2>3, <2>4, <2>5, OneViewAtWork DEF ViewKnows,
             BeatSettled
<1>9. ASSUME NEW v \in View, Schedule!DestroyFinish(v)
      PROVE ViewsAlone' /\ Schedule!BeatFollows'
  <2>1. ViewKnows(v) /\ \A w \in View \ {v} : view'[w].pc = "idle"
    BY <1>9, ViewsRest DEF Schedule!DestroyFinish, Schedule!ScheduleTypeOK
  <2>2. beat' = Schedule!NoEntry /\ sched' = Schedule!NoSched
            /\ view'[v].pc = "idle"
    BY <1>9, <2>1 DEF Schedule!DestroyFinish, ViewKnows,
       Schedule!ScheduleTypeOK, Schedule!AtRest
  <2> QED BY <2>1, <2>2, OneViewAtWork DEF ViewKnows, BeatSettled,
             Schedule!NoSched
<1>10. ASSUME UNCHANGED scheduleVars PROVE ViewsAlone' /\ Schedule!BeatFollows'
  BY <1>10 DEF scheduleVars, ViewsAlone, ViewKnows, Schedule!BeatFollows
<1> QED BY <1>1, <1>2, <1>3, <1>4, <1>5, <1>6, <1>7, <1>8, <1>9, <1>10
           DEF Schedule!Next

\* No schedule, no entry and no view at work.
LEMMA ScheduleInit == Schedule!Init => ScheduleInv
<1> SUFFICES ASSUME Schedule!Init PROVE ScheduleInv
  OBVIOUS
<1>1. \A v \in View : view[v] = Schedule!AtRest /\ view[v].pc = "idle"
  BY DEF Schedule!Init, Schedule!AtRest
<1>2. sched = Schedule!NoSched /\ beat = Schedule!NoEntry /\ ~sched.exists
      /\ sched.entry = Schedule!NoEntry
  BY DEF Schedule!Init, Schedule!NoSched
<1>3. Schedule!ScheduleTypeOK
  BY DEF Schedule!Init, Schedule!ScheduleTypeOK, Schedule!Sched,
     Schedule!NoSched, Schedule!AtRest
<1>4. ViewsAlone
  BY <1>1 DEF ViewsAlone, ViewKnows
<1>5. Schedule!BeatFollows
  BY <1>2 DEF Schedule!BeatFollows
<1> QED BY <1>3, <1>4, <1>5 DEF ScheduleInv

\* Every step of the views keeps the invariant.
LEMMA ScheduleStep ==
    ScheduleInv /\ [Schedule!Next]_scheduleVars => ScheduleInv'
BY ScheduleTypeStep, ViewsAloneStep DEF ScheduleInv

\* A step of the system is one of the schedules.
LEMMA ScheduleSteps ==
    ASSUME part = "schedule", [Next]_vars
    PROVE  [Schedule!Next]_scheduleVars
BY DEF Next, vars, scheduleVars

\* Beat runs a schedule exactly when it is enabled, once no view is at work
\* and none has overlapped another.  Code: AnsibleScheduleViewSet,
\* sync_ansible_schedule_to_beat.
ScheduleHeld == part = "schedule" => ScheduleInv
THEOREM BeatInStep == Spec => []BeatFollows
<1>1. Init => ScheduleHeld
  BY ScheduleInit DEF Init, ScheduleHeld
<1>2. ScheduleHeld /\ [Next]_vars => ScheduleHeld'
  BY PartStays, ScheduleSteps, ScheduleStep DEF ScheduleHeld
<1>3. ScheduleHeld => BeatFollows
  BY DEF ScheduleHeld, ScheduleInv, BeatFollows
<1> QED BY <1>1, <1>2, <1>3, PTL DEF Spec

-----------------------------------------------------------------------------
\* Nothing follows the event 'revoked', so whatever of it is still on the
\* wire is true of the task.
WireTrue ==
    \A p \in Celery : \A i \in 1..Len(wire[p]) :
        wire[p][i] = "revoked" => real[p] = "revoked"
TaskTypes ==
    /\ track \in [Celery -> [state : Pulse!Shown, ended : BOOLEAN]]
    /\ wire \in [Celery -> Seq(Pulse!Events)]
    /\ real \in [Celery -> Pulse!Events \cup {"none"}]
    /\ told \subseteq Celery /\ unheard \subseteq Celery
PulseInv == TaskTypes /\ WireTrue /\ Pulse!RevokedIsOver

-----------------------------------------------------------------------------
\* What the monitor shows of an event.
LEMMA ShownOf ==
    ASSUME NEW event \in Pulse!Events
    PROVE  /\ Pulse!StateOf(event) \in Pulse!Shown
           /\ Pulse!StateOf(event) = "REVOKED" => event = "revoked"
BY DEF Pulse!Events, Pulse!StateOf, Pulse!Shown

\* What Celery may send next.
LEMMA FollowOf ==
    ASSUME NEW event \in Pulse!Events \cup {"none"}
    PROVE  /\ Pulse!Follow(event) \subseteq Pulse!Events
           /\ Pulse!Follow("revoked") = {}
BY DEF Pulse!Events, Pulse!Follow

\* The first event is handled or missed.
LEMMA TailOf ==
    ASSUME NEW s \in Seq(Pulse!Events), s # <<>>
    PROVE  /\ Head(s) \in Pulse!Events /\ Head(s) = s[1] /\ 1 \in 1..Len(s)
           /\ Tail(s) \in Seq(Pulse!Events)
           /\ \A i \in 1..Len(Tail(s)) :
                 i + 1 \in 1..Len(s) /\ Tail(s)[i] = s[i + 1]
OBVIOUS

\* An event is sent.
LEMMA AppendOf ==
    ASSUME NEW s \in Seq(Pulse!Events), NEW event \in Pulse!Events
    PROVE  /\ Append(s, event) \in Seq(Pulse!Events)
           /\ \A i \in 1..Len(Append(s, event)) :
                 \/ i \in 1..Len(s) /\ Append(s, event)[i] = s[i]
                 \/ Append(s, event)[i] = event
OBVIOUS

-----------------------------------------------------------------------------
\* PulseInv is kept by every step.
LEMMA PulseStep == PulseInv /\ [Pulse!Next]_pulseVars => PulseInv'
<1> SUFFICES ASSUME PulseInv, [Pulse!Next]_pulseVars PROVE PulseInv'
  OBVIOUS
<1> USE DEF PulseInv
<1>0. ASSUME UNCHANGED <<track, wire, real, told, unheard>> PROVE PulseInv'
  BY <1>0 DEF TaskTypes, WireTrue, Pulse!RevokedIsOver
<1>1. ASSUME NEW p \in Celery, NEW event \in Pulse!Events, Pulse!Send(p, event)
      PROVE  PulseInv'
  <2>1. /\ real[p] # "revoked" /\ Pulse!Follow(real[p]) # {}
    BY <1>1, FollowOf DEF Pulse!Send
  <2>2. TaskTypes'
    BY <1>1, AppendOf DEF Pulse!Send, TaskTypes
  <2>3. /\ wire'[p] = Append(wire[p], event) /\ real'[p] = event
        /\ \A q \in Celery \ {p} : wire'[q] = wire[q] /\ real'[q] = real[q]
    BY <1>1 DEF Pulse!Send, TaskTypes
  <2>4. \A i \in 1..Len(wire'[p]) :
           wire'[p][i] = "revoked" => real'[p] = "revoked"
    BY <2>1, <2>3, AppendOf DEF TaskTypes, WireTrue
  <2>5. WireTrue'
    BY <2>3, <2>4 DEF WireTrue
  <2>6. Pulse!RevokedIsOver'
    BY <1>1, <2>1, <2>3 DEF Pulse!Send, Pulse!RevokedIsOver
  <2> QED BY <2>2, <2>5, <2>6
<1>2. ASSUME NEW p \in Celery, NEW n \in Node, Pulse!OnTaskEvent(p, n)
      PROVE  PulseInv'
  <2> DEFINE event == Head(wire[p])
  <2>1. /\ wire[p] \in Seq(Pulse!Events) /\ wire[p] # <<>>
    BY <1>2 DEF Pulse!OnTaskEvent, TaskTypes
  <2>2. event \in Pulse!Events /\ Pulse!StateOf(event) \in Pulse!Shown
    BY <2>1, TailOf, ShownOf
  <2>3. TaskTypes'
    BY <1>2, <2>1, <2>2, TailOf DEF Pulse!OnTaskEvent, TaskTypes
  <2>4. /\ wire' = [wire EXCEPT ![p] = Tail(@)]
        /\ UNCHANGED <<real, told, unheard>>
    BY <1>2 DEF Pulse!OnTaskEvent
  <2>5. WireTrue'
    BY <2>1, <2>4, TailOf DEF TaskTypes, WireTrue
  <2>6. event = "revoked" => real[p] = "revoked"
    BY <2>1, TailOf DEF WireTrue
  <2>7. /\ track'[p].state = Pulse!StateOf(event)
        /\ \A q \in Celery \ {p} : track'[q] = track[q]
    BY <1>2 DEF Pulse!OnTaskEvent, TaskTypes
  <2>8. Pulse!RevokedIsOver'
    BY <2>2, <2>4, <2>6, <2>7, ShownOf, FollowOf DEF Pulse!RevokedIsOver
  <2> QED BY <2>3, <2>5, <2>8
<1>3. ASSUME NEW p \in Celery, Pulse!MissEvent(p) PROVE PulseInv'
  <2>1. /\ wire[p] \in Seq(Pulse!Events) /\ wire[p] # <<>>
        /\ wire' = [wire EXCEPT ![p] = Tail(@)]
        /\ UNCHANGED <<track, real, told, unheard>>
    BY <1>3 DEF Pulse!MissEvent, TaskTypes
  <2>2. TaskTypes'
    BY <2>1, TailOf DEF TaskTypes
  <2>3. WireTrue'
    BY <2>1, TailOf DEF TaskTypes, WireTrue
  <2>4. Pulse!RevokedIsOver'
    BY <2>1 DEF Pulse!RevokedIsOver
  <2> QED BY <2>2, <2>3, <2>4
<1>4. ASSUME NEW p \in Celery, Pulse!Revoke(p) PROVE PulseInv'
  <2>1. TaskTypes'
    BY <1>4 DEF Pulse!Revoke, TaskTypes, Pulse!Shown
  <2>2. WireTrue'
    BY <1>4 DEF Pulse!Revoke, WireTrue
  <2>3. Pulse!RevokedIsOver'
    BY <1>4 DEF Pulse!Revoke, TaskTypes, Pulse!RevokedIsOver
  <2> QED BY <2>1, <2>2, <2>3
<1>5. ASSUME NEW p \in Celery, Pulse!Obey(p) PROVE PulseInv'
  <2>1. CASE Pulse!Follow(real[p]) = {}
    <3>1. UNCHANGED <<track, wire, real, unheard>> /\ told' = told \ {p}
      BY <1>5, <2>1 DEF Pulse!Obey
    <3> QED BY <2>1, <3>1 DEF TaskTypes, WireTrue, Pulse!RevokedIsOver
  <2>2. CASE Pulse!Follow(real[p]) # {}
    <3>1. /\ real' = [real EXCEPT ![p] = "revoked"]
          /\ wire' = [wire EXCEPT ![p] = Append(@, "revoked")]
          /\ UNCHANGED <<track, unheard>> /\ told' = told \ {p}
      BY <1>5, <2>2 DEF Pulse!Obey
    <3>2. TaskTypes'
      BY <3>1, AppendOf DEF TaskTypes, Pulse!Events
    <3>3. /\ real'[p] = "revoked"
          /\ \A q \in Celery \ {p} : wire'[q] = wire[q] /\ real'[q] = real[q]
      BY <3>1 DEF TaskTypes
    <3>4. WireTrue'
      BY <3>3 DEF WireTrue
    <3>5. Pulse!RevokedIsOver'
      BY <3>1, <3>3, FollowOf DEF Pulse!RevokedIsOver
    <3> QED BY <3>2, <3>4, <3>5
  <2> QED BY <2>1, <2>2
<1>6. ASSUME NEW p \in Celery, Pulse!PruneTracks(p) PROVE PulseInv'
  <2>1. TaskTypes'
    BY <1>6 DEF Pulse!PruneTracks, TaskTypes, Pulse!Untracked, Pulse!Shown
  <2>2. WireTrue'
    BY <1>6 DEF Pulse!PruneTracks, WireTrue
  <2>3. Pulse!RevokedIsOver'
    BY <1>6 DEF Pulse!PruneTracks, TaskTypes, Pulse!Untracked,
       Pulse!RevokedIsOver
  <2> QED BY <2>1, <2>2, <2>3
<1>7. ASSUME NEW n \in Node,
             \/ Pulse!OnWorkerOnline(n) \/ Pulse!OnWorkerOffline(n)
                    \/ Pulse!OnWorkerHeartbeat(n)
             \/ Pulse!Age(n) \/ Pulse!DestroyNode(n)
      PROVE  PulseInv'
  BY <1>0, <1>7 DEF Pulse!OnWorkerOnline, Pulse!OnWorkerOffline,
     Pulse!OnWorkerHeartbeat, Pulse!Age, Pulse!DestroyNode
<1>8. CASE Pulse!RefreshWorkerLifecycle
  BY <1>0, <1>8 DEF Pulse!RefreshWorkerLifecycle
<1>9. CASE UNCHANGED pulseVars
  BY <1>0, <1>9 DEF pulseVars
<1> QED BY <1>1, <1>2, <1>3, <1>4, <1>5, <1>6, <1>7, <1>8, <1>9 DEF Pulse!Next

\* Nothing is known of any task.
LEMMA PulseInit == Pulse!Init => PulseInv
<1> SUFFICES ASSUME Pulse!Init PROVE PulseInv
  OBVIOUS
<1>1. TaskTypes
  BY DEF Pulse!Init, TaskTypes, Pulse!Untracked, Pulse!Shown
<1>2. WireTrue
  BY DEF Pulse!Init, WireTrue
<1>3. Pulse!RevokedIsOver
  BY DEF Pulse!Init, Pulse!RevokedIsOver, Pulse!Untracked
<1> QED BY <1>1, <1>2, <1>3 DEF PulseInv

\* A step of the system is one of the task monitor.
LEMMA PulseSteps ==
    ASSUME part = "pulse", [Next]_vars
    PROVE  [Pulse!Next]_pulseVars
BY DEF Next, vars, pulseVars

\* A task shown as REVOKED does nothing more once the workers have obeyed,
\* whatever the order of events, revocations and prunings.
\* Code: TaskPulseViewSet.revoke, PulseMonitor.on_task_event.
PulseHeld == part = "pulse" => PulseInv
THEOREM RevokedStaysOver == Spec => []RevokedIsOver
<1>1. Init => PulseHeld
  BY PulseInit DEF Init, PulseHeld
<1>2. PulseHeld /\ [Next]_vars => PulseHeld'
  BY PartStays, PulseSteps, PulseStep DEF PulseHeld
<1>3. PulseHeld => RevokedIsOver
  BY DEF PulseHeld, PulseInv, RevokedIsOver
<1> QED BY <1>1, <1>2, <1>3, PTL DEF Spec

-----------------------------------------------------------------------------
HookRow == [active : BOOLEAN, filtered : BOOLEAN, count : Nat]
HookTypes ==
    /\ hook \in HookRow
    /\ delivery \in [Delivery -> [pc : {"idle", "create", "save", "queue",
                                        "ended"}, copy : HookRow]]
    /\ hookEdit \in [Editor -> [pc : {"idle", "save"}, copy : HookRow]]
    /\ triggered \in [Delivery -> {"none", "pending", "queued"}]

\* What a delivery has created is pending until its task is queued.
RunsPending ==
    \A d \in Delivery :
        /\ delivery[d].pc \in {"idle", "create"} => triggered[d] = "none"
        /\ delivery[d].pc \in {"save", "queue"} => triggered[d] = "pending"

\* No row in a handler's hands counts more than the deliveries that are past
\* their save, ...
PastSave == {d \in Delivery : /\ triggered[d] # "none"
                              /\ delivery[d].pc \notin {"create", "save"}}
CountedPast ==
    /\ hook.count <= Cardinality(PastSave)
    /\ \A d \in Delivery : delivery[d].pc \in {"create", "save"} =>
          delivery[d].copy.count <= Cardinality(PastSave)
    /\ \A e \in Editor : hookEdit[e].pc = "save" =>
          hookEdit[e].copy.count <= Cardinality(PastSave)
\* ... and while nothing has crossed, every handler holds the row as it is.
CopiesFresh ==
    /\ \A d \in Delivery : delivery[d].pc \in {"create", "save"} =>
          delivery[d].copy = hook
    /\ \A e \in Editor : hookEdit[e].pc = "save" => hookEdit[e].copy = hook
Uncrossed ==
    hookCrossed = {} => /\ CopiesFresh
                        /\ hook.count >= Cardinality(Hooks!Counted)
                        /\ off = ~hook.active
HookInv == HookTypes /\ RunsPending /\ CountedPast /\ Uncrossed

\* A delivery moved on, with its run as it was or created.
LEMMA PastGrows ==
    ASSUME HookTypes, RunsPending, HookTypes', RunsPending',
           [Hooks!Next]_hookVars
    PROVE  /\ IsFiniteSet(PastSave) /\ IsFiniteSet(PastSave')
           /\ Cardinality(PastSave) \in Nat /\ Cardinality(PastSave') \in Nat
           /\ Cardinality(PastSave) <= Cardinality(PastSave')
<1>1. PastSave \subseteq Delivery /\ PastSave' \subseteq Delivery
  BY DEF PastSave
<1>2. PastSave \subseteq PastSave'
  <2> USE DEF HookTypes, RunsPending, PastSave
  <2>1. ASSUME NEW d \in Delivery, Hooks!Receive(d)
        PROVE  PastSave \subseteq PastSave'
    BY <2>1 DEF Hooks!Receive, Hooks!Answer
  <2>2. ASSUME NEW d \in Delivery, Hooks!CreateRun(d)
        PROVE  PastSave \subseteq PastSave'
    BY <2>2 DEF Hooks!CreateRun, Hooks!Answer
  <2>3. ASSUME NEW d \in Delivery, Hooks!SaveHook(d)
        PROVE  PastSave \subseteq PastSave'
    BY <2>3 DEF Hooks!SaveHook, Hooks!Answer
  <2>4. ASSUME NEW d \in Delivery, Hooks!QueueEngine(d)
        PROVE  PastSave \subseteq PastSave'
    BY <2>4 DEF Hooks!QueueEngine, Hooks!Answer
  <2>5. ASSUME NEW d \in Delivery, Hooks!DeliveryDies(d)
        PROVE  PastSave \subseteq PastSave'
    BY <2>5 DEF Hooks!DeliveryDies, Hooks!Answer
  <2>6. ASSUME NEW e \in Editor, Hooks!EditRead(e) \/ Hooks!EditSave(e)
        PROVE  PastSave \subseteq PastSave'
    BY <2>6 DEF Hooks!EditRead, Hooks!EditSave
  <2>7. ASSUME UNCHANGED hookVars PROVE PastSave \subseteq PastSave'
    BY <2>7 DEF hookVars
  <2> QED BY <2>1, <2>2, <2>3, <2>4, <2>5, <2>6, <2>7 DEF Hooks!Next
<1> QED BY <1>1, <1>2, DeliveriesFinite, FS_Subset, FS_CardinalityType

\* Every step keeps the types, and a run is pending while its delivery goes on.
LEMMA HookShapes ==
    ASSUME HookTypes, RunsPending, [Hooks!Next]_hookVars
    PROVE  HookTypes' /\ RunsPending'
<1> USE DEF HookTypes, RunsPending, HookRow
<1>1. ASSUME NEW d \in Delivery, Hooks!Receive(d)
      PROVE  HookTypes' /\ RunsPending'
  <2>1. /\ UNCHANGED <<hook, hookEdit, triggered>> /\ delivery[d].pc = "idle"
        /\ \/ delivery' = [delivery EXCEPT ![d] =
                              [pc |-> "create", copy |-> hook]]
           \/ delivery' = [delivery EXCEPT ![d].pc = "ended"]
    BY <1>1 DEF Hooks!Receive, Hooks!Answer
  <2>2. triggered[d] = "none"
    BY <2>1
  <2>3. CASE delivery' =
                 [delivery EXCEPT ![d] = [pc |-> "create", copy |-> hook]]
    BY <2>1, <2>2, <2>3
  <2>4. CASE delivery' = [delivery EXCEPT ![d].pc = "ended"]
    BY <2>1, <2>4
  <2> QED BY <2>1, <2>3, <2>4
<1>2. ASSUME NEW d \in Delivery, Hooks!CreateRun(d)
      PROVE  HookTypes' /\ RunsPending'
  BY <1>2 DEF Hooks!CreateRun, Hooks!Answer
<1>3. ASSUME NEW d \in Delivery, Hooks!SaveHook(d)
      PROVE  HookTypes' /\ RunsPending'
  BY <1>3 DEF Hooks!SaveHook, Hooks!SaveRow, Hooks!Answer
<1>4. ASSUME NEW d \in Delivery, Hooks!QueueEngine(d)
      PROVE  HookTypes' /\ RunsPending'
  BY <1>4 DEF Hooks!QueueEngine, Hooks!Answer
<1>5. ASSUME NEW d \in Delivery, Hooks!DeliveryDies(d)
      PROVE  HookTypes' /\ RunsPending'
  BY <1>5 DEF Hooks!DeliveryDies, Hooks!Answer
<1>6. ASSUME NEW e \in Editor, Hooks!EditRead(e)
      PROVE  HookTypes' /\ RunsPending'
  BY <1>6 DEF Hooks!EditRead
<1>7. ASSUME NEW e \in Editor, Hooks!EditSave(e)
      PROVE  HookTypes' /\ RunsPending'
  BY <1>7 DEF Hooks!EditSave, Hooks!SaveRow, Hooks!Idle, Hooks!Fresh
<1>8. ASSUME UNCHANGED hookVars PROVE HookTypes' /\ RunsPending'
  BY <1>8 DEF hookVars
<1> QED BY <1>1, <1>2, <1>3, <1>4, <1>5, <1>6, <1>7, <1>8 DEF Hooks!Next

\* A step that saves no row and counts nothing.
LEMMA CountKept ==
    ASSUME HookInv, [Hooks!Next]_hookVars,
           UNCHANGED <<hook, off, hookCrossed>>,
               Hooks!Counted' \subseteq Hooks!Counted,
           \A d \in Delivery : delivery'[d].pc \in {"create", "save"} =>
              delivery'[d].copy \in {hook, delivery[d].copy}
              /\ (delivery'[d].copy # hook =>
                     delivery[d].pc \in {"create", "save"}),
           \A e \in Editor : hookEdit'[e].pc = "save" =>
              hookEdit'[e].copy \in {hook, hookEdit[e].copy}
              /\ (hookEdit'[e].copy # hook => hookEdit[e].pc = "save")
    PROVE  CountedPast' /\ Uncrossed'
<1>1. /\ Cardinality(PastSave) \in Nat /\ Cardinality(PastSave') \in Nat
      /\ Cardinality(PastSave) <= Cardinality(PastSave')
  BY HookShapes, PastGrows DEF HookInv
<1>2. Cardinality(Hooks!Counted') <= Cardinality(Hooks!Counted)
          /\ Cardinality(Hooks!Counted) \in Nat
      /\ Cardinality(Hooks!Counted') \in Nat
  <2>1. Hooks!Counted \subseteq Delivery /\ IsFiniteSet(Hooks!Counted)
    BY DeliveriesFinite, FS_Subset DEF Hooks!Counted
  <2> QED BY <2>1, FS_Subset, FS_CardinalityType
<1>3. CountedPast'
  BY <1>1 DEF HookInv, CountedPast, HookTypes, HookRow
<1>4. CopiesFresh => CopiesFresh'
  BY DEF CopiesFresh
<1>5. hookCrossed = {} => hook'.count >= Cardinality(Hooks!Counted')
  BY <1>2 DEF HookInv, Uncrossed, HookTypes, HookRow
<1>6. Uncrossed'
  BY <1>4, <1>5 DEF HookInv, Uncrossed
<1> QED BY <1>3, <1>6

\* Every step keeps the invariant: a save writes the number the handler has
\* read, and one, when its run is already there.
LEMMA HookStep == HookInv /\ [Hooks!Next]_hookVars => HookInv'
<1> SUFFICES ASSUME HookInv, [Hooks!Next]_hookVars PROVE HookInv'
  OBVIOUS
<1>0. HookTypes /\ RunsPending /\ HookTypes' /\ RunsPending'
  BY HookShapes DEF HookInv
<1>p. /\ IsFiniteSet(PastSave) /\ IsFiniteSet(PastSave')
      /\ Cardinality(PastSave) \in Nat /\ Cardinality(PastSave') \in Nat
      /\ Cardinality(PastSave) <= Cardinality(PastSave')
  BY <1>0, PastGrows
<1>1. ASSUME NEW d \in Delivery, Hooks!Receive(d)
      PROVE  CountedPast' /\ Uncrossed'
  <2>1. /\ UNCHANGED <<hook, off, hookCrossed, triggered, hookEdit>>
        /\ \A g \in Delivery \ {d} : delivery'[g] = delivery[g]
        /\ \/ delivery'[d].pc = "ended"
           \/ delivery'[d].pc = "create" /\ delivery'[d].copy = hook
        /\ triggered[d] = "none"
    BY <1>0, <1>1 DEF Hooks!Receive, Hooks!Answer, HookTypes, RunsPending
  <2>2. Hooks!Counted' \subseteq Hooks!Counted
    BY <2>1 DEF Hooks!Counted
  <2> QED BY <2>1, <2>2, CountKept
<1>2. ASSUME NEW d \in Delivery, Hooks!CreateRun(d)
      PROVE  CountedPast' /\ Uncrossed'
  <2>1. /\ UNCHANGED <<hook, off, hookCrossed, hookEdit>>
        /\ \A g \in Delivery \ {d} : /\ delivery'[g] = delivery[g]
                                     /\ triggered'[g] = triggered[g]
        /\ delivery'[d].pc = "save" /\ delivery'[d].copy = delivery[d].copy
        /\ delivery[d].pc = "create" /\ triggered'[d] = "pending"
    BY <1>0, <1>2 DEF Hooks!CreateRun, Hooks!Answer, HookTypes
  <2>2. Hooks!Counted' \subseteq Hooks!Counted
    BY <2>1 DEF Hooks!Counted
  <2> QED BY <2>1, <2>2, CountKept
<1>3. ASSUME NEW d \in Delivery, Hooks!SaveHook(d)
      PROVE  CountedPast' /\ Uncrossed'
  <2>1. /\ hook'.count = delivery[d].copy.count + 1
        /\ hook'.active = delivery[d].copy.active
        /\ \A g \in Delivery \ {d} : delivery'[g] = delivery[g]
        /\ delivery'[d].pc = "queue" /\ delivery[d].pc = "save"
        /\ hookCrossed' = hookCrossed \cup Hooks!Holding({d})
        /\ UNCHANGED <<hookEdit, triggered, off>>
    BY <1>0, <1>3 DEF Hooks!SaveHook, Hooks!SaveRow, Hooks!Answer, HookTypes,
       HookRow
  <2>2. PastSave' = PastSave \cup {d} /\ d \notin PastSave
    BY <1>0, <2>1 DEF PastSave, RunsPending
  <2>3. Cardinality(PastSave') = Cardinality(PastSave) + 1
    BY <1>p, <2>2, FS_AddElement
  <2>4. CountedPast'
    <3>1. /\ delivery[d].copy.count <= Cardinality(PastSave)
          /\ delivery[d].copy.count \in Nat
      BY <1>0, <2>1 DEF HookInv, CountedPast, HookTypes, HookRow
    <3>2. hook'.count <= Cardinality(PastSave')
      BY <1>p, <2>1, <2>3, <3>1
    <3>3. ASSUME NEW g \in Delivery, delivery'[g].pc \in {"create", "save"}
          PROVE  delivery'[g].copy.count <= Cardinality(PastSave')
      <4>1. /\ delivery'[g].copy.count \in Nat
            /\ delivery'[g].copy.count <= Cardinality(PastSave)
        BY <1>0, <2>1, <3>3 DEF HookInv, CountedPast, HookTypes, HookRow
      <4> QED BY <1>p, <4>1
    <3>4. ASSUME NEW e \in Editor, hookEdit'[e].pc = "save"
          PROVE  hookEdit'[e].copy.count <= Cardinality(PastSave')
      <4>1. /\ hookEdit'[e].copy.count \in Nat
            /\ hookEdit'[e].copy.count <= Cardinality(PastSave)
        BY <1>0, <2>1, <3>4 DEF HookInv, CountedPast, HookTypes, HookRow
      <4> QED BY <1>p, <4>1
    <3> QED BY <3>2, <3>3, <3>4 DEF CountedPast
  <2>5. ASSUME hookCrossed' = {} PROVE Uncrossed'
    <3>1. /\ hookCrossed = {} /\ delivery[d].copy = hook
          /\ \A g \in Delivery \ {d} : delivery[g].pc \notin {"create", "save"}
          /\ \A e \in Editor : hookEdit[e].pc # "save"
      BY <2>1, <2>5, HandlersApart DEF Hooks!Holding, HookInv, Uncrossed,
         CopiesFresh
    <3>2. Hooks!Counted' = Hooks!Counted \cup {d} /\ d \notin Hooks!Counted
      BY <1>0, <2>1 DEF Hooks!Counted, RunsPending
    <3>3. /\ Cardinality(Hooks!Counted') = Cardinality(Hooks!Counted) + 1
          /\ Cardinality(Hooks!Counted) \in Nat
      <4>1. Hooks!Counted \subseteq Delivery
        BY DEF Hooks!Counted
      <4>2. IsFiniteSet(Hooks!Counted)
        BY <4>1, DeliveriesFinite, FS_Subset
      <4> QED BY <3>2, <4>2, FS_AddElement, FS_CardinalityType
    <3>4. hook'.count >= Cardinality(Hooks!Counted')
      BY <1>0, <2>1, <3>1, <3>3 DEF HookInv, Uncrossed, HookTypes, HookRow
    <3>5. CopiesFresh'
      BY <2>1, <3>1 DEF CopiesFresh
    <3> QED BY <2>1, <3>1, <3>4, <3>5 DEF HookInv, Uncrossed
  <2> QED BY <2>4, <2>5 DEF Uncrossed
<1>4. ASSUME NEW d \in Delivery, Hooks!QueueEngine(d)
      PROVE  CountedPast' /\ Uncrossed'
  <2>1. /\ UNCHANGED <<hook, off, hookCrossed, hookEdit>>
        /\ \A g \in Delivery \ {d} : /\ delivery'[g] = delivery[g]
                                     /\ triggered'[g] = triggered[g]
        /\ delivery'[d].pc = "ended" /\ delivery[d].pc = "queue"
    BY <1>0, <1>4 DEF Hooks!QueueEngine, Hooks!Answer, HookTypes
  <2>2. Hooks!Counted' \subseteq Hooks!Counted
    BY <2>1 DEF Hooks!Counted
  <2> QED BY <2>1, <2>2, CountKept
<1>5. ASSUME NEW d \in Delivery, Hooks!DeliveryDies(d)
      PROVE  CountedPast' /\ Uncrossed'
  <2>1. /\ UNCHANGED <<hook, off, hookCrossed, hookEdit, triggered>>
        /\ \A g \in Delivery \ {d} : delivery'[g] = delivery[g]
        /\ delivery'[d].pc = "ended"
    BY <1>0, <1>5 DEF Hooks!DeliveryDies, Hooks!Answer, HookTypes
  <2>2. Hooks!Counted' \subseteq Hooks!Counted
    BY <2>1 DEF Hooks!Counted
  <2> QED BY <2>1, <2>2, CountKept
<1>6. ASSUME NEW e \in Editor, Hooks!EditRead(e)
      PROVE  CountedPast' /\ Uncrossed'
  <2>1. /\ UNCHANGED <<hook, off, hookCrossed, delivery, triggered>>
        /\ \A g \in Editor \ {e} : hookEdit'[g] = hookEdit[g]
        /\ hookEdit'[e].pc = "save" /\ hookEdit'[e].copy = hook
    BY <1>0, <1>6 DEF Hooks!EditRead, HookTypes
  <2>2. Hooks!Counted' \subseteq Hooks!Counted
    BY <2>1 DEF Hooks!Counted
  <2> QED BY <2>1, <2>2, CountKept
<1>7. ASSUME NEW e \in Editor, Hooks!EditSave(e)
      PROVE  CountedPast' /\ Uncrossed'
  <2>1. PICK active \in BOOLEAN :
           /\ Hooks!SaveRow([hookEdit[e].copy EXCEPT !.active = active], e)
           /\ off' = ~active
    BY <1>7 DEF Hooks!EditSave
  <2>2. /\ hook'.count = hookEdit[e].copy.count /\ hook'.active = active
        /\ hookEdit[e].pc = "save" /\ hookEdit'[e].pc = "idle"
        /\ \A g \in Editor \ {e} : hookEdit'[g] = hookEdit[g]
        /\ UNCHANGED <<delivery, triggered>>
        /\ hookCrossed' = hookCrossed \cup Hooks!Holding({e})
    BY <1>0, <1>7, <2>1 DEF Hooks!EditSave, Hooks!SaveRow, HookTypes, HookRow,
       Hooks!Idle
  <2>3. CountedPast'
    BY <1>0, <1>p, <2>2 DEF HookInv, CountedPast, HookTypes, HookRow
  <2>4. Hooks!Counted' = Hooks!Counted
    BY <2>2 DEF Hooks!Counted
  <2>5. ASSUME hookCrossed' = {} PROVE Uncrossed'
    <3>1. /\ hookCrossed = {} /\ hookEdit[e].copy = hook
          /\ \A d \in Delivery : delivery[d].pc \notin {"create", "save"}
          /\ \A g \in Editor \ {e} : hookEdit[g].pc # "save"
      BY <2>2, <2>5, HandlersApart DEF Hooks!Holding, HookInv, Uncrossed,
         CopiesFresh
    <3>2. CopiesFresh'
      BY <2>2, <3>1 DEF CopiesFresh
    <3> QED BY <2>1, <2>2, <2>4, <3>1, <3>2 DEF HookInv, Uncrossed
  <2> QED BY <2>3, <2>5 DEF Uncrossed
<1>8. ASSUME UNCHANGED hookVars PROVE CountedPast' /\ Uncrossed'
  <2>1. Hooks!Counted' = Hooks!Counted
    BY <1>8 DEF hookVars, Hooks!Counted
  <2> QED BY <1>8, <2>1, CountKept DEF hookVars
<1> QED BY <1>0, <1>1, <1>2, <1>3, <1>4, <1>5, <1>6, <1>7, <1>8 DEF Hooks!Next,
           HookInv

\* Nothing was delivered and nobody edits.
LEMMA HookInit == Hooks!Init => HookInv
<1> SUFFICES ASSUME Hooks!Init PROVE HookInv
  OBVIOUS
<1>0. Hooks!Fresh \in HookRow
  BY DEF Hooks!Fresh, HookRow
<1>h. hook \in HookRow /\ hook.active = TRUE /\ hook.count = 0
  <2>1. PICK f \in BOOLEAN : hook = [Hooks!Fresh EXCEPT !.filtered = f]
    BY DEF Hooks!Init
  <2> QED BY <2>1 DEF Hooks!Fresh, HookRow
<1>1. /\ hook \in HookRow /\ hook.active = TRUE /\ hook.count = 0
      /\ delivery = [d \in Delivery |-> Hooks!Idle] /\ Hooks!Idle.pc = "idle"
      /\ hookEdit = [e \in Editor |-> Hooks!Idle] /\ Hooks!Fresh \in HookRow
      /\ Hooks!Idle.copy = Hooks!Fresh /\ hookCrossed = {} /\ off = FALSE
      /\ triggered = [d \in Delivery |-> "none"]
  BY <1>0, <1>h DEF Hooks!Init, Hooks!Idle
<1>2. HookTypes /\ RunsPending
  BY <1>1 DEF HookTypes, RunsPending, Hooks!Idle
<1>3. PastSave = {} /\ Hooks!Counted = {}
  BY <1>1 DEF PastSave, Hooks!Counted
<1>4. Cardinality(PastSave) = 0 /\ Cardinality(Hooks!Counted) = 0
  BY <1>3, FS_EmptySet
<1>5. CountedPast
  BY <1>1, <1>4 DEF CountedPast
<1>6. Uncrossed
  <2>1. CopiesFresh
    BY <1>1 DEF CopiesFresh
  <2>2. off = ~hook.active /\ hook.count >= Cardinality(Hooks!Counted)
    <3>1. off = FALSE /\ hook.active = TRUE
      BY <1>1
    <3>2. hook.count >= Cardinality(Hooks!Counted)
      BY <1>1, <1>4
    <3> QED BY <3>1, <3>2
  <2> QED BY <2>1, <2>2 DEF Uncrossed
<1> QED BY <1>2, <1>5, <1>6 DEF HookInv

\* The runs past their save are runs: the counter is bounded by them.
LEMMA HookFollows == HookInv => Hooks!HookSound
<1> SUFFICES ASSUME HookInv PROVE Hooks!HookSound
  OBVIOUS
<1>1. PastSave \subseteq Hooks!Runs /\ Hooks!Runs \subseteq Delivery
  BY DEF PastSave, Hooks!Runs
<1>2. /\ Cardinality(PastSave) <= Cardinality(Hooks!Runs)
      /\ Cardinality(PastSave) \in Nat /\ Cardinality(Hooks!Runs) \in Nat
  BY <1>1, DeliveriesFinite, FS_Subset, FS_CardinalityType
<1>3. hook.count <= Cardinality(Hooks!Runs)
  BY <1>2 DEF HookInv, CountedPast, HookTypes, HookRow
<1>4. hookCrossed = {} =>
         hook.count >= Cardinality(Hooks!Counted) /\ off = ~hook.active
  BY DEF HookInv, Uncrossed
<1> QED BY <1>3, <1>4 DEF Hooks!HookSound, Hooks!Cardinality, Cardinality

\* A step of the system is one of the webhooks.
LEMMA HooksSteps ==
    ASSUME part = "webhooks", [Next]_vars
    PROVE  [Hooks!Next]_hookVars
BY DEF Next, vars, hookVars

\* The counter of a webhook never exceeds its runs, and unless requests have
\* overlapped it counts every one and the webhook is as its editor left it.
\* Code: PipelineWebhookViewSet.trigger, PipelineWebhook.
HooksHeld == part = "webhooks" => HookInv
THEOREM HookHolds == Spec => []HookSound
<1>1. Init => HooksHeld
  BY HookInit DEF Init, HooksHeld
<1>2. HooksHeld /\ [Next]_vars => HooksHeld'
  BY PartStays, HooksSteps, HookStep DEF HooksHeld
<1>3. HooksHeld => HookSound
  BY HookFollows DEF HooksHeld, HookSound
<1> QED BY <1>1, <1>2, <1>3, PTL DEF Spec

-----------------------------------------------------------------------------
(* The nodes of pipeline runs: their workspaces, images and deployments.     *)

Statuses == {"none", "pending", "skipped", "running", "cloning", "recording",
             "versioning", "failed", "success"}
ShippedAt == Run \cup {"none", "part", "default", "missing"}
ArtifactAt == [latest : Work!Tag \cup {Work!NoTag},
               versions : SUBSET [tag : Work!Tag, run : Run]]
RunAt == [status : {"none", "pending", "running", "failed", "success"},
          parent : Run \cup {Work!NoRun}, target : Work!Target]
DirAt == [source : Run \cup {"none", "part"},
          age : {"none", "fresh", "old", "ancient"}]
WorkTypes ==
    /\ run \in [Run -> RunAt]
    /\ node \in [Run -> [Work!NodeNo -> Statuses]]
    /\ image \in [Run -> Work!Tag \cup {Work!NoTag}]
    /\ dir \in [Run -> DirAt]
    /\ built \in [Run -> Run \cup {"none", "part"}]
    /\ shipped \in [Run -> ShippedAt]
    /\ artifact \in ArtifactAt
    /\ pushed \in [Work!Tag -> Run \cup {Work!NoRun}]

\* Before a run is created there is nothing of it, and a retry is of a run
\* that has failed.
Fresh(r) ==
    run[r].status = "none" =>
       /\ \A n \in Work!NodeNo : node[r][n] = "none"
       /\ built[r] = "none" /\ shipped[r] = "none" /\ image[r] = Work!NoTag
       /\ run[r].parent = Work!NoRun /\ dir[r].source = "none"
ParentFailed(r) ==
    run[r].parent # Work!NoRun => run[run[r].parent].status = "failed"

\* The nodes of a run under way are at work, each after those before it.
Noted   == {"recording", "versioning"}   \* the build's image is pushed
AtWork  == {"running", "cloning"} \cup Noted
Waiting == {"none", "pending", "skipped"}
Behind  == {"success", "skipped"}
NodesKnown(r) ==
    /\ \A n \in Work!NodeNo : node[r][n] \in AtWork =>
           run[r].status = "running"
    /\ \A n \in Work!NodeNo : /\ node[r][n] = "cloning" => n = 1
                              /\ node[r][n] \in Noted => n = 2
    /\ \A n, m \in Work!NodeNo :
          m < n /\ node[r][n] \notin Waiting => node[r][m] \in Behind

\* What there is of its image, its deployment and its build.
ImageKnown(r) ==
    /\ image[r] # Work!NoTag => node[r][2] \in Noted \cup {"success"}
    /\ node[r][2] \in Noted => image[r] # Work!NoTag
    /\ shipped[r] # "none" => node[r][3] \in {"success", "failed"}
BuiltKnown(r) ==
    built[r] # "none" =>
       /\ node[r][2] \in Noted \cup {"success", "failed"}
       /\ Work!Base(r) \notin mixed =>
             built[r] \in Run /\ node[built[r]][1] = "success"

\* In a workspace two writers have not used at once one run works, and its
\* source is whole, a run's of that workspace.  The workspace of a retry under
\* way is a copy nobody works in.
OneWorker(b) ==
    b \notin mixed => \A q, r \in Run :
       Work!Live(q) /\ Work!Live(r) /\ Work!Base(q) = b /\ Work!Base(r) = b =>
           q = r
Copied(b) == Work!Live(b) /\ run[b].parent # Work!NoRun
SourceWhole(b) ==
    b \notin mixed /\ ~Copied(b) =>
       /\ dir[b].source = "part" =>
             \E q \in Run : Work!Base(q) = b /\ node[q][1] = "cloning"
       /\ \A q \in Run : dir[b].source = q =>
             Work!Base(q) = b /\ node[q][1] = "success"
       /\ \A r \in Run :
              Work!Base(r) = b /\ Work!Live(r) /\ node[r][1] = "success" =>
             dir[b].source \in {r, "none"}
Workspaces == \A b \in Run : OneWorker(b) /\ SourceWhole(b)

RunsKnown == \A r \in Run : /\ Fresh(r) /\ ParentFailed(r) /\ NodesKnown(r)
                            /\ ImageKnown(r) /\ BuiltKnown(r)
WorkInv == WorkTypes /\ RunsKnown /\ Workspaces /\ Work!WorkSound

\* What stands for no tag is none.
LEMMA TagMark == Work!NoTag \notin Work!Tag /\ Work!NoRun \notin Run
BY RunNames, TagNames DEF Work!NoTag, Work!NoRun, Work!Tag

LEMMA WorkInit == Work!Init => WorkInv
<1> SUFFICES ASSUME Work!Init PROVE WorkInv
  OBVIOUS
<1>1. WorkTypes
  BY DEF Work!Init, WorkTypes, RunAt, DirAt, Work!NoRow, Work!NoDir,
     Work!NoRun, Work!Target, Statuses, ShippedAt, ArtifactAt
<1>2. RunsKnown
  BY DEF Work!Init, RunsKnown, Fresh, ParentFailed, NodesKnown, ImageKnown,
     BuiltKnown, Work!NoRow, Work!NoDir, AtWork, Waiting, Work!NodeNo, Noted
<1>3. Workspaces
  BY RunNames DEF Work!Init, Workspaces, OneWorker, SourceWhole, Work!Live,
     Work!NoRow, Work!NoDir, Work!NoRun, Work!NodeNo
<1>4. Work!WorkSound
  BY TagMark DEF Work!Init, Work!WorkSound, Work!OwnSource, Work!OwnImage,
     Work!Registry, Work!Recorded, Work!NoTag, Work!NoRun
<1> QED BY <1>1, <1>2, <1>3, <1>4 DEF WorkInv

\* A run under way works in a workspace that is there.
LEMMA BaseKnown ==
    ASSUME WorkTypes, RunsKnown, NEW r \in Run, Work!Live(r)
    PROVE  /\ Work!Base(r) \in Run /\ run[Work!Base(r)].status # "none"
           /\ ~Copied(Work!Base(r))
BY DEF WorkTypes, RunAt, RunsKnown, ParentFailed, Work!Live, Work!Base, Copied

\* The node of a run changes.
LEMMA NodePlace ==
    ASSUME WorkTypes, NEW r \in Run, NEW n \in Work!NodeNo,
           NEW status \in Statuses,
           Work!NodeIs(r, n, status)
    PROVE  /\ node' \in [Run -> [Work!NodeNo -> Statuses]]
           /\ node'[r][n] = status
           /\ \A m \in Work!NodeNo \ {n} : node'[r][m] = node[r][m]
           /\ \A q \in Run \ {r} : node'[q] = node[q]
<1> DEFINE new == [node[r] EXCEPT ![n] = status]
<1>1. node' = [node EXCEPT ![r] = new] /\ node[r] \in [Work!NodeNo -> Statuses]
  BY DEF Work!NodeIs, WorkTypes
<1>2. /\ new \in [Work!NodeNo -> Statuses] /\ new[n] = status
      /\ \A m \in Work!NodeNo \ {n} : new[m] = node[r][m]
  BY <1>1
<1> HIDE DEF new
<1> QED BY <1>1, <1>2 DEF WorkTypes

LEMMA NodesMove ==
    ASSUME WorkTypes, RunsKnown, NEW r \in Run, NEW n \in Work!NodeNo,
           NEW status \in Statuses \ Waiting, Work!NodeIs(r, n, status),
           node[r][n] \in AtWork \cup {"pending"},
           node[r][n] = "pending" =>
              \A m \in Work!NodeNo : m < n => node[r][m] \in Behind,
           status = "cloning" => n = 1, status \in Noted => n = 2,
           run' \in [Run -> RunAt], run'[r].status = "running",
           \A q \in Run : /\ run'[q].parent = run[q].parent
                          /\ q # r => run'[q].status = run[q].status,
           Work!Live(r)
    PROVE  /\ node' \in [Run -> [Work!NodeNo -> Statuses]]
           /\ node'[r][n] = status
           /\ \A m \in Work!NodeNo \ {n} : node'[r][m] = node[r][m]
           /\ \A q \in Run \ {r} : node'[q] = node[q]
           /\ \A q \in Run : ParentFailed(q)' /\ NodesKnown(q)'
           /\ \A q \in Run : node[q][1] \in Behind => node'[q][1] = node[q][1]
           /\ \A q \in Run :
                  Work!Live(q)' = Work!Live(q) /\ Work!Base(q)' = Work!Base(q)
<1>1. /\ node' \in [Run -> [Work!NodeNo -> Statuses]]
      /\ node'[r][n] = status
      /\ \A m \in Work!NodeNo \ {n} : node'[r][m] = node[r][m]
      /\ \A q \in Run \ {r} : node'[q] = node[q]
  BY NodePlace
<1>2. NodesKnown(r)
  BY DEF RunsKnown
<1>3. NodesKnown(r)'
  <2>1. ASSUME NEW k \in Work!NodeNo, NEW m \in Work!NodeNo, m < k,
               node'[r][k] \notin Waiting
        PROVE  node'[r][m] \in Behind
    <3>1. CASE k = n
      <4>1. node[r][m] \in Behind
        BY <1>2, <2>1, <3>1 DEF NodesKnown, AtWork, Waiting, Noted
      <4>2. m # n
        BY <2>1, <3>1 DEF Work!NodeNo
      <4> QED BY <1>1, <4>1, <4>2
    <3>2. CASE k # n
      <4>1. node[r][m] \in Behind
        BY <1>1, <1>2, <2>1, <3>2 DEF NodesKnown, Noted
      <4>2. m # n
        BY <4>1 DEF AtWork, Behind, Noted
      <4> QED BY <1>1, <4>1, <4>2
    <3> QED BY <3>1, <3>2
  <2>2. \A k \in Work!NodeNo : /\ node'[r][k] = "cloning" => k = 1
                               /\ node'[r][k] \in Noted => k = 2
    BY <1>1, <1>2 DEF NodesKnown, Noted
  <2> QED BY <2>1, <2>2 DEF NodesKnown, Noted
<1>4. \A q \in Run \ {r} : NodesKnown(q)'
  BY <1>1 DEF RunsKnown, NodesKnown, Noted
<1>5. \A q \in Run : ParentFailed(q)'
  BY DEF RunsKnown, ParentFailed, WorkTypes, RunAt, Work!Live
<1>6. \A q \in Run : node[q][1] \in Behind => node'[q][1] = node[q][1]
  BY <1>1 DEF AtWork, Behind, Work!NodeNo, Noted
<1>7. \A q \in Run :
          Work!Live(q)' = Work!Live(q) /\ Work!Base(q)' = Work!Base(q)
  BY DEF Work!Live, Work!Base
<1> QED BY <1>1, <1>3, <1>4, <1>5, <1>6, <1>7

\* Runs are as they were: what has been built stays a run's own.
LEMMA BuiltStays ==
    ASSUME WorkTypes, RunsKnown, Work!WorkSound, built' = built,
           mixed \subseteq mixed',
           \A q \in Run : run[q].status # "none" =>
              /\ Work!Base(q)' = Work!Base(q)
              /\ node[q][1] \in Behind => node'[q][1] = node[q][1]
              /\ built[q] # "none" /\ node'[q][2] # node[q][2] =>
                    node'[q][2] \in {"versioning", "success"}
    PROVE  \A q \in Run : BuiltKnown(q)' /\ Work!OwnSource(q)'
<1> SUFFICES ASSUME NEW q \in Run, built[q] # "none"
             PROVE  BuiltKnown(q)' /\ Work!OwnSource(q)'
  BY DEF BuiltKnown, Work!OwnSource, Noted
<1>1. /\ BuiltKnown(q) /\ Work!OwnSource(q) /\ NodesKnown(q)
      /\ built[q] # "none" /\ built'[q] = built[q]
      /\ run[q].status # "none"
  BY DEF RunsKnown, Work!WorkSound, Fresh
<1>2. node[q][1] \in Behind /\ node'[q][1] = node[q][1]
  <2>1. node[q][1] \in Behind
    BY <1>1 DEF BuiltKnown, NodesKnown, Waiting, Work!NodeNo, Noted
  <2> QED BY <1>1, <2>1
<1>3. BuiltKnown(q)'
  <2>1. node'[q][2] \in Noted \cup {"success", "failed"}
    BY <1>1 DEF BuiltKnown, Noted
  <2>2. ASSUME Work!Base(q)' \notin mixed'
        PROVE  built'[q] \in Run /\ node'[built'[q]][1] = "success"
    <3>1. built[q] \in Run /\ node[built[q]][1] = "success"
      BY <1>1, <2>2 DEF BuiltKnown, Noted
    <3>2. run[built[q]].status # "none"
      BY <3>1 DEF RunsKnown, Fresh, Work!NodeNo
    <3> QED BY <1>1, <3>1, <3>2 DEF Behind
  <2> QED BY <2>1, <2>2 DEF BuiltKnown, Noted
<1>4. Work!OwnSource(q)'
  <2>1. Work!Base(q)' = Work!Base(q)
    BY <1>1
  <2>2. CASE Work!Base(q) \in mixed
    BY <2>1, <2>2 DEF Work!OwnSource
  <2>3. CASE Work!Base(q) \notin mixed
    <3>1. built[q] \in Run /\ node[built[q]][1] = "success"
      BY <1>1, <2>3 DEF BuiltKnown, Noted
    <3>2. Work!Base(built[q])' = Work!Base(built[q])
      BY <3>1 DEF RunsKnown, Fresh, Work!NodeNo
    <3> QED BY <1>1, <1>2, <2>1, <2>3, <3>2 DEF Work!OwnSource
  <2> QED BY <2>2, <2>3
<1> QED BY <1>3, <1>4

\* A step that clones nothing and starts no run: sources stay or go, and a
\* copy that is left to itself goes.
LEMMA SourcesLast ==
    ASSUME Workspaces, mixed \subseteq mixed',
           \A q \in Run :
              /\ Work!Base(q)' = Work!Base(q)
              /\ (Work!Live(q)' => Work!Live(q))
              /\ run'[q].parent = run[q].parent
              /\ dir'[q].source \in {dir[q].source, "none"}
              /\ Copied(q) /\ ~Work!Live(q)' /\ q \notin mixed' =>
                    dir'[q].source = "none"
              /\ (node'[q][1] = "success") = (node[q][1] = "success")
              /\ Work!Base(q) \notin mixed' /\ node[q][1] = "cloning" =>
                    node'[q][1] = "cloning"
    PROVE  Workspaces'
<1> SUFFICES ASSUME NEW b \in Run PROVE OneWorker(b)' /\ SourceWhole(b)'
  BY DEF Workspaces
<1>1. OneWorker(b)'
  BY DEF Workspaces, OneWorker
<1>2. SourceWhole(b)'
  <2> SUFFICES ASSUME b \notin mixed', ~Copied(b)' PROVE SourceWhole(b)'
    BY DEF SourceWhole
  <2>1. CASE dir'[b].source = "none"
    BY <2>1, RunNames DEF SourceWhole, Work!NoRun
  <2>2. CASE dir'[b].source # "none"
    <3>1. dir'[b].source = dir[b].source /\ ~Copied(b)
      BY <2>2 DEF Copied
    <3>2. SourceWhole(b)
      BY DEF Workspaces
    <3>3. dir[b].source = "part" =>
             \E q \in Run : Work!Base(q)' = b /\ node'[q][1] = "cloning"
      BY <3>1, <3>2 DEF SourceWhole
    <3>4. \A q \in Run : dir[b].source = q =>
             Work!Base(q)' = b /\ node'[q][1] = "success"
      BY <3>1, <3>2 DEF SourceWhole
    <3>5. \A r \in Run :
              Work!Base(r)' = b /\ Work!Live(r)' /\ node'[r][1] = "success" =>
             dir[b].source \in {r, "none"}
      BY <3>1, <3>2 DEF SourceWhole
    <3> QED BY <3>1, <3>3, <3>4, <3>5 DEF SourceWhole
  <2> QED BY <2>1, <2>2
<1> QED BY <1>1, <1>2

\* Nothing is built, recorded or deployed.
LEMMA WorkLasts ==
    ASSUME WorkTypes, RunsKnown, Work!WorkSound, mixed \subseteq mixed',
           UNCHANGED <<image, pushed, artifact, built, shipped, stated>>,
           \A q \in Run : run[q].status = "none" =>
              node'[q][2] \notin Noted,
           \A q \in Run : run[q].status # "none" =>
              /\ Work!Base(q)' = Work!Base(q) /\ run'[q].target = run[q].target
              /\ node[q][1] \in Behind => node'[q][1] = node[q][1]
              /\ \A m \in {2, 3} : node'[q][m] = node[q][m]
                                   \/ /\ node[q][m] = "pending"
                                      /\ node'[q][m] = "running"
    PROVE  /\ \A q \in Run : ImageKnown(q)' /\ BuiltKnown(q)'
           /\ Work!WorkSound'
<1>1. ASSUME NEW q \in Run PROVE ImageKnown(q)'
  <2>1. ImageKnown(q) /\ Fresh(q)
    BY DEF RunsKnown
  <2>2. CASE run[q].status = "none"
    BY <2>1, <2>2 DEF ImageKnown, Fresh, Noted
  <2>3. CASE run[q].status # "none"
    BY <2>1, <2>3 DEF ImageKnown, Noted
  <2> QED BY <2>2, <2>3
<1>2. \A q \in Run : BuiltKnown(q)' /\ Work!OwnSource(q)'
  BY BuiltStays DEF RunsKnown, BuiltKnown, Noted
<1>3. \A q \in Run : Work!OwnImage(q)'
  BY DEF Work!WorkSound, Work!OwnImage, RunsKnown, Fresh
<1>4. Work!Registry' /\ Work!Recorded'
  BY DEF Work!WorkSound, Work!Registry, Work!Recorded
<1> QED BY <1>1, <1>2, <1>3, <1>4 DEF Work!WorkSound

LEMMA FreshStays ==
    ASSUME RunsKnown,
           \A q \in Run : run'[q].status = "none" =>
              /\ run[q].status = "none" /\ node'[q] = node[q]
              /\ built'[q] = built[q] /\ shipped'[q] = shipped[q]
              /\ image'[q] = image[q] /\ run'[q].parent = run[q].parent
              /\ dir'[q].source = dir[q].source
    PROVE  \A q \in Run : Fresh(q)'
BY DEF RunsKnown, Fresh

LEMMA NodeBeginKeeps ==
    ASSUME WorkInv, NEW r \in Run, NEW n \in Work!NodeNo, Work!NodeBegin(r, n)
    PROVE  WorkInv'
<1> USE DEF WorkInv
<1>1. PICK b : b = Work!Base(r)
  OBVIOUS
<1>2. /\ Work!Live(r) /\ node[r][n] = "pending" /\ Work!NodeIs(r, n, "running")
      /\ \A m \in Work!NodeNo : m < n => node[r][m] \in Behind
      /\ run' = [run EXCEPT ![r].status = "running"]
      /\ dir' = [dir EXCEPT ![b].age = "fresh"]
      /\ UNCHANGED <<image, pushed, artifact, built, shipped, stated, mixed>>
  BY <1>1 DEF Work!NodeBegin, Behind, Work!NodeNo
<1>3. b \in Run
  BY <1>1, <1>2, BaseKnown
<1>4. /\ run' \in [Run -> RunAt] /\ run'[r].status = "running"
      /\ \A q \in Run : /\ run'[q].parent = run[q].parent
                        /\ run'[q].target = run[q].target
                        /\ q # r => run'[q].status = run[q].status
  <2>1. run \in [Run -> RunAt]
    BY DEF WorkTypes
  <2> HIDE DEF WorkInv
  <2>2. /\ run' = [run EXCEPT ![r] = run'[r]]
        /\ run'[r] = [run[r] EXCEPT !.status = "running"]
    BY <1>2, <2>1
  <2>3. /\ run'[r] \in RunAt /\ run'[r].status = "running"
        /\ run'[r].parent = run[r].parent /\ run'[r].target = run[r].target
    BY <2>1, <2>2 DEF RunAt
  <2> QED BY <2>1, <2>2, <2>3
<1>5. /\ dir' \in [Run -> DirAt]
      /\ \A q \in Run : dir'[q].source = dir[q].source
  BY <1>2, <1>3 DEF WorkTypes, DirAt
<1>6. /\ node' \in [Run -> [Work!NodeNo -> Statuses]]
      /\ node'[r][n] = "running"
      /\ \A m \in Work!NodeNo \ {n} : node'[r][m] = node[r][m]
      /\ \A q \in Run \ {r} : node'[q] = node[q]
      /\ \A q \in Run : ParentFailed(q)' /\ NodesKnown(q)'
      /\ \A q \in Run : node[q][1] \in Behind => node'[q][1] = node[q][1]
      /\ \A q \in Run :
             Work!Live(q)' = Work!Live(q) /\ Work!Base(q)' = Work!Base(q)
  BY <1>2, <1>4, NodesMove DEF Statuses, Waiting, Noted
<1>7. WorkTypes'
  BY <1>2, <1>4, <1>5, <1>6 DEF WorkTypes
<1>8. \A q \in Run : Fresh(q)'
  BY <1>2, <1>4, <1>5, <1>6, FreshStays
<1>9. (\A q \in Run : ImageKnown(q)' /\ BuiltKnown(q)') /\ Work!WorkSound'
  <2>1. \A q \in Run : run[q].status = "none" => node'[q][2] \notin Noted
    BY <1>2, <1>6 DEF RunsKnown, Fresh, Work!NodeNo, Work!Live, Noted
  <2>2. \A q \in Run : run[q].status # "none" =>
           \A m \in {2, 3} : \/ node'[q][m] = node[q][m]
                             \/ node[q][m] = "pending"
                                    /\ node'[q][m] = "running"
    BY <1>2, <1>6 DEF Work!NodeNo
  <2> QED BY <1>2, <1>4, <1>6, <2>1, <2>2, WorkLasts
<1>10. Workspaces'
  <2>1. \A q \in Run :
           /\ (node'[q][1] = "success") = (node[q][1] = "success")
           /\ node[q][1] = "cloning" => node'[q][1] = "cloning"
    BY <1>2, <1>6 DEF Work!NodeNo
  <2> QED BY <1>2, <1>4, <1>5, <1>6, <2>1, SourcesLast DEF Copied
<1> QED BY <1>6, <1>7, <1>8, <1>9, <1>10 DEF RunsKnown

LEMMA FinalizeKeeps ==
    ASSUME WorkInv, NEW r \in Run, Work!Finalize(r)
    PROVE  WorkInv'
<1> USE DEF WorkInv
<1>1. PICK status \in {"failed", "success"} :
         /\ run[r].status = "running"
         /\ run' = [run EXCEPT ![r].status = status]
         /\ \A n \in Work!NodeNo : node[r][n] \notin AtWork
         /\ dir' = [dir EXCEPT ![r] =
                      IF @.source = "part"
                          /\ r \in mixed THEN @ ELSE Work!NoDir]
         /\ UNCHANGED <<node, image, pushed, artifact, built, shipped, stated,
                        mixed>>
  BY DEF Work!Finalize, AtWork, Noted
<1>2. /\ run' \in [Run -> RunAt] /\ run'[r].status = status
      /\ \A q \in Run : /\ run'[q].parent = run[q].parent
                        /\ run'[q].target = run[q].target
                        /\ q # r => run'[q].status = run[q].status
  BY <1>1 DEF WorkTypes, RunAt
<1>3. /\ dir' \in [Run -> DirAt]
      /\ \A q \in Run : /\ dir'[q].source \in {dir[q].source, "none"}
                        /\ q # r => dir'[q].source = dir[q].source
      /\ r \notin mixed => dir'[r].source = "none"
  BY <1>1 DEF WorkTypes, DirAt, Work!NoDir
<1>4. WorkTypes'
  BY <1>1, <1>2, <1>3 DEF WorkTypes
<1>5. \A q \in Run : Fresh(q)'
  BY <1>1, <1>2, <1>3, FreshStays
<1>6. \A q \in Run : ParentFailed(q)' /\ NodesKnown(q)'
  <2>1. ASSUME NEW q \in Run PROVE ParentFailed(q)'
    BY <1>1, <1>2 DEF RunsKnown, ParentFailed, WorkTypes, RunAt
  <2>2. ASSUME NEW q \in Run PROVE NodesKnown(q)'
    BY <1>1, <1>2 DEF RunsKnown, NodesKnown, Noted
  <2> QED BY <2>1, <2>2
<1>7. \A q \in Run : Work!Base(q)' = Work!Base(q)
  BY <1>2 DEF Work!Base
<1>8. (\A q \in Run : ImageKnown(q)' /\ BuiltKnown(q)') /\ Work!WorkSound'
  <2>1. \A q \in Run : run[q].status = "none" => node'[q][2] \notin Noted
    BY <1>1 DEF RunsKnown, Fresh, Work!NodeNo, Noted
  <2> QED BY <1>1, <1>2, <1>7, <2>1, WorkLasts
<1>9. Workspaces'
  <2>1. \A q \in Run : /\ Work!Live(q)' => Work!Live(q)
                       /\ Copied(q) /\ ~Work!Live(q)' => q = r
    BY <1>1, <1>2 DEF Work!Live, Copied
  <2> QED BY <1>1, <1>2, <1>3, <1>7, <2>1, SourcesLast
<1> QED BY <1>4, <1>5, <1>6, <1>8, <1>9 DEF RunsKnown

\* A run is created.
LEMMA CreateKeeps ==
    ASSUME WorkInv, NEW r \in Run, run[r].status = "none",
           NEW new \in RunAt, run' = [run EXCEPT ![r] = new],
           new.status = "pending",
           new.parent # Work!NoRun => run[new.parent].status = "failed",
           NEW line \in [Work!NodeNo -> {"pending", "skipped"}],
           node' = [node EXCEPT ![r] = line],
           mixed' = mixed \/ mixed' = mixed \cup {new.parent},
           new.parent # Work!NoRun /\ new.parent \notin mixed' =>
              ~\E q \in Run : Work!Live(q) /\ Work!Base(q) = new.parent,
           UNCHANGED <<image, dir, pushed, artifact, built, shipped, stated>>
    PROVE  WorkInv'
<1> USE DEF WorkInv
<1>1. /\ run' \in [Run -> RunAt] /\ run'[r] = new
      /\ \A q \in Run \ {r} : run'[q] = run[q]
  BY DEF WorkTypes
<1>2. /\ node' \in [Run -> [Work!NodeNo -> Statuses]] /\ node'[r] = line
      /\ \A q \in Run \ {r} : node'[q] = node[q]
  <2>1. line \in [Work!NodeNo -> Statuses]
    BY DEF Statuses
  <2> QED BY <2>1 DEF WorkTypes
<1>3. /\ Fresh(r) /\ node[r][1] = "none" /\ dir[r].source = "none"
      /\ run[r].parent = Work!NoRun
  BY DEF RunsKnown, Fresh, Work!NodeNo
<1>4. line[1] \in {"pending", "skipped"} /\ line[2] \in {"pending", "skipped"}
  BY DEF Work!NodeNo
<1>5. WorkTypes'
  BY <1>1, <1>2 DEF WorkTypes
<1>6. \A q \in Run : Fresh(q)'
  BY <1>1, <1>2, FreshStays
<1>7. \A q \in Run : ParentFailed(q)' /\ NodesKnown(q)'
  <2>1. ASSUME NEW q \in Run PROVE ParentFailed(q)'
    BY <1>1 DEF RunsKnown, ParentFailed, WorkTypes, RunAt
  <2>2. ASSUME NEW q \in Run, q # r PROVE NodesKnown(q)'
    BY <1>1, <1>2, <2>2 DEF RunsKnown, NodesKnown, Noted
  <2>3. NodesKnown(r)'
    <3>1. \A n \in Work!NodeNo : line[n] \in {"pending", "skipped"}
      OBVIOUS
    <3> QED BY <1>2, <3>1 DEF NodesKnown, AtWork, Waiting, Noted
  <2> QED BY <2>1, <2>2, <2>3
<1>8. (\A q \in Run : ImageKnown(q)' /\ BuiltKnown(q)') /\ Work!WorkSound'
  <2>1. \A q \in Run : run[q].status = "none" => node'[q][2] \notin Noted
    BY <1>2, <1>4 DEF RunsKnown, Fresh, Work!NodeNo, Noted
  <2>2. \A q \in Run : run[q].status # "none" =>
           Work!Base(q)' = Work!Base(q) /\ run'[q].target = run[q].target
           /\ node'[q] = node[q]
    BY <1>1, <1>2 DEF Work!Base
  <2> QED BY <2>1, <2>2, WorkLasts
<1>9. ASSUME NEW b \in Run PROVE OneWorker(b)' /\ SourceWhole(b)'
  <2>1. /\ Work!Live(r)' /\ ~Work!Live(r)
        /\ Work!Base(r)' = IF new.parent = Work!NoRun THEN r ELSE new.parent
    BY <1>1 DEF Work!Live, Work!Base
  <2>2. \A q \in Run \ {r} :
            Work!Live(q)' = Work!Live(q) /\ Work!Base(q)' = Work!Base(q)
    BY <1>1 DEF Work!Live, Work!Base
  <2>3. \A q \in Run \ {r} : Work!Base(q) # r
    BY DEF RunsKnown, ParentFailed, Work!Base
  <2>4. OneWorker(b)'
    <3> SUFFICES ASSUME b \notin mixed', NEW q \in Run, NEW p \in Run,
                        Work!Live(q)', Work!Live(p)', Work!Base(q)' = b,
                            Work!Base(p)' = b
                 PROVE  q = p
      BY DEF OneWorker
    <3>1. CASE q # r /\ p # r
      BY <2>2, <3>1 DEF Workspaces, OneWorker
    <3>2. ASSUME NEW s \in Run \ {r}, Work!Live(s),
                 Work!Base(s) = Work!Base(r)'
          PROVE  Work!Base(r)' \in mixed'
      <4>1. CASE new.parent = Work!NoRun
        BY <2>1, <2>3, <3>2, <4>1
      <4>2. CASE new.parent # Work!NoRun
        BY <2>1, <3>2, <4>2
      <4> QED BY <4>1, <4>2
    <3>3. CASE q = r /\ p # r
      BY <2>2, <3>2, <3>3
    <3>4. CASE p = r /\ q # r
      BY <2>2, <3>2, <3>4
    <3> QED BY <3>1, <3>3, <3>4
  <2>5. SourceWhole(b)'
    <3> SUFFICES ASSUME b \notin mixed', ~Copied(b)' PROVE SourceWhole(b)'
      BY DEF SourceWhole
    <3>1. CASE b = r
      BY <1>3, <3>1, RunNames DEF SourceWhole, Work!NoRun
    <3>2. CASE b # r
      <4>1. ~Copied(b) /\ b \notin mixed /\ SourceWhole(b)
        BY <1>1, <2>2, <3>2 DEF Copied, Workspaces
      <4>2. dir[b].source = "part" =>
               \E q \in Run : Work!Base(q)' = b /\ node'[q][1] = "cloning"
        BY <1>2, <1>3, <2>2, <4>1 DEF SourceWhole
      <4>3. \A q \in Run : dir[b].source = q =>
               Work!Base(q)' = b /\ node'[q][1] = "success"
        BY <1>2, <1>3, <2>2, <4>1 DEF SourceWhole
      <4>4. \A q \in Run :
                Work!Base(q)' = b /\ Work!Live(q)' /\ node'[q][1] = "success"
               => dir[b].source \in {q, "none"}
        BY <1>2, <1>4, <2>2, <4>1 DEF SourceWhole
      <4> QED BY <4>2, <4>3, <4>4 DEF SourceWhole
    <3> QED BY <3>1, <3>2
  <2> QED BY <2>4, <2>5
<1> QED BY <1>5, <1>6, <1>7, <1>8, <1>9 DEF RunsKnown, Workspaces

LEMMA CreationKeeps ==
    ASSUME WorkInv, NEW r \in Run,
           \/ \E target \in Work!Target : Work!Execute(r, target)
           \/ \E parent \in Run, start \in Work!NodeNo :
                  Work!Retry(r, parent, start)
    PROVE  WorkInv'
<1> USE DEF WorkInv
<1>1. ASSUME NEW target \in Work!Target, Work!Execute(r, target) PROVE WorkInv'
  <2> DEFINE new == [status |-> "pending", parent |-> Work!NoRun,
                     target |-> target]
             line == [n \in Work!NodeNo |-> "pending"]
  <2>1. /\ new \in RunAt /\ new.status = "pending" /\ new.parent = Work!NoRun
        /\ line \in [Work!NodeNo -> {"pending", "skipped"}]
    BY DEF RunAt
  <2>2. /\ run[r].status = "none" /\ run' = [run EXCEPT ![r] = new]
        /\ node' = [node EXCEPT ![r] = line]
        /\ UNCHANGED <<image, dir, pushed, artifact, built, shipped, stated,
                       mixed>>
    BY <1>1 DEF Work!Execute
  <2> HIDE DEF new, line
  <2> QED BY <2>1, <2>2, CreateKeeps
<1>2. ASSUME NEW parent \in Run, NEW start \in Work!NodeNo,
             Work!Retry(r, parent, start)
      PROVE  WorkInv'
  <2> DEFINE new == [status |-> "pending", parent |-> parent,
                     target |-> run[parent].target]
             line == [n \in Work!NodeNo |-> IF n < start THEN "skipped"
                                      ELSE "pending"]
  <2>1. /\ new \in RunAt /\ new.status = "pending" /\ new.parent = parent
        /\ line \in [Work!NodeNo -> {"pending", "skipped"}]
    BY DEF RunAt, WorkTypes
  <2>2. /\ run[r].status = "none" /\ run' = [run EXCEPT ![r] = new]
        /\ node' = [node EXCEPT ![r] = line] /\ run[parent].status = "failed"
        /\ UNCHANGED <<image, dir, pushed, artifact, built, shipped, stated>>
    BY <1>2 DEF Work!Retry
  <2>3. /\ mixed' = mixed \/ mixed' = mixed \cup {parent}
        /\ parent \notin mixed' =>
              ~\E q \in Run : Work!Live(q) /\ Work!Base(q) = parent
    BY <1>2 DEF Work!Retry
  <2> HIDE DEF new, line
  <2> QED BY <2>1, <2>2, <2>3, CreateKeeps
<1> QED BY <1>1, <1>2

LEMMA CopyKeeps ==
    ASSUME WorkInv, NEW r \in Run, Work!AdvanceCopy(r)
    PROVE  WorkInv'
<1> USE DEF WorkInv
<1>1. /\ Work!Live(r) /\ run[r].parent \in Run /\ Copied(r)
      /\ dir' = [dir EXCEPT ![r] = dir[run[r].parent]]
      /\ UNCHANGED <<run, node, image, pushed, artifact, built, shipped, stated,
             mixed>>
  BY DEF Work!AdvanceCopy, Copied, WorkTypes, RunAt
<1>2. /\ dir' \in [Run -> DirAt]
      /\ \A q \in Run \ {r} : dir'[q] = dir[q]
  BY <1>1 DEF WorkTypes
<1>3. WorkTypes'
  BY <1>1, <1>2 DEF WorkTypes
<1>4. RunsKnown'
  <2>1. \A q \in Run : Fresh(q)'
    BY <1>1, <1>2, FreshStays DEF Work!Live
  <2>2. \A q \in Run : /\ ParentFailed(q)' /\ NodesKnown(q)' /\ ImageKnown(q)'
                       /\ BuiltKnown(q)'
    BY <1>1 DEF RunsKnown, ParentFailed, NodesKnown, ImageKnown, BuiltKnown,
       Work!Base, Noted
  <2> QED BY <2>1, <2>2 DEF RunsKnown
<1>5. Workspaces'
  <2>1. ASSUME NEW b \in Run PROVE OneWorker(b)'
    BY <1>1 DEF Workspaces, OneWorker, Work!Live, Work!Base
  <2>2. ASSUME NEW b \in Run, b # r PROVE SourceWhole(b)'
    BY <1>1, <1>2, <2>2 DEF Workspaces, SourceWhole, Copied, Work!Live,
       Work!Base
  <2>3. SourceWhole(r)'
    BY <1>1 DEF SourceWhole, Copied, Work!Live
  <2> QED BY <2>1, <2>2, <2>3 DEF Workspaces
<1>6. Work!WorkSound'
  BY <1>1 DEF Work!WorkSound, Work!OwnSource, Work!OwnImage, Work!Base,
     Work!Registry, Work!Recorded
<1> QED BY <1>3, <1>4, <1>5, <1>6

\* The one that works in a workspace writes to it.
LEMMA WritesKeep ==
    ASSUME WorkInv, NEW r \in Run, NEW b \in Run, b = Work!Base(r),
           node[r][1] \in {"running", "cloning"},
           NEW status \in {"cloning", "success", "failed"},
           Work!NodeIs(r, 1, status), NEW new \in DirAt,
           dir' = [dir EXCEPT ![b] = new],
           new.source = "part" => status = "cloning",
           new.source \in Run => \/ new.source = r /\ status = "success"
                                 \/ new.source = dir[b].source,
           status = "success" => new.source = r,
           UNCHANGED <<run, image, pushed, artifact, built, shipped, stated,
                       mixed>>
    PROVE  WorkInv'
<1> USE DEF WorkInv
<1>1. run[r].status = "running" /\ Work!Live(r)
  BY DEF RunsKnown, NodesKnown, AtWork, Work!NodeNo, Work!Live, Noted
<1>2. /\ dir' \in [Run -> DirAt] /\ dir'[b] = new
      /\ \A q \in Run \ {b} : dir'[q] = dir[q]
  BY DEF WorkTypes
<1>3. /\ run' \in [Run -> RunAt] /\ run' = run /\ 1 \in Work!NodeNo
      /\ \A m \in Work!NodeNo : m < 1 => node[r][m] \in Behind
  BY DEF WorkTypes, Work!NodeNo
<1>4. /\ node' \in [Run -> [Work!NodeNo -> Statuses]]
      /\ node'[r][1] = status
      /\ \A m \in Work!NodeNo \ {1} : node'[r][m] = node[r][m]
      /\ \A q \in Run \ {r} : node'[q] = node[q]
      /\ \A q \in Run : ParentFailed(q)' /\ NodesKnown(q)'
      /\ \A q \in Run : node[q][1] \in Behind => node'[q][1] = node[q][1]
      /\ \A q \in Run :
             Work!Live(q)' = Work!Live(q) /\ Work!Base(q)' = Work!Base(q)
  <2>1. status \in Statuses \ Waiting /\ status \notin Noted
    BY DEF Statuses, Waiting, Noted
  <2>2. node[r][1] \in AtWork \cup {"pending"} /\ node[r][1] # "pending"
    BY DEF AtWork, Noted
  <2> HIDE DEF WorkInv
  <2> QED BY <1>1, <1>3, <2>1, <2>2, NodesMove DEF WorkInv
<1>5. WorkTypes'
  BY <1>2, <1>4 DEF WorkTypes
<1>6. \A q \in Run : Fresh(q)'
  <2>1. run[b].status # "none"
    BY <1>1, BaseKnown
  <2> QED BY <1>1, <1>2, <1>3, <1>4, <2>1, FreshStays
<1>7. (\A q \in Run : ImageKnown(q)' /\ BuiltKnown(q)') /\ Work!WorkSound'
  <2>1. \A q \in Run : \A m \in {2, 3} : node'[q][m] = node[q][m]
    BY <1>4 DEF Work!NodeNo
  <2>2. \A q \in Run : run[q].status = "none" => node'[q][2] \notin Noted
    BY <2>1 DEF RunsKnown, Fresh, Work!NodeNo, Noted
  <2> QED BY <1>3, <1>4, <2>1, <2>2, WorkLasts
<1>8. ASSUME NEW c \in Run PROVE OneWorker(c)' /\ SourceWhole(c)'
  <2>1. OneWorker(c)'
    BY <1>4 DEF Workspaces, OneWorker
  <2>2. SourceWhole(c)'
    <3> SUFFICES ASSUME c \notin mixed, ~Copied(c) PROVE SourceWhole(c)'
      BY <1>4 DEF SourceWhole, Copied
    <3>1. SourceWhole(c) /\ OneWorker(c)
      BY DEF Workspaces
    <3>2. CASE c # b
      <4>1. dir'[c].source = "part" =>
               \E q \in Run : Work!Base(q)' = c /\ node'[q][1] = "cloning"
        BY <1>2, <1>4, <3>1, <3>2 DEF SourceWhole
      <4>2. \A q \in Run : dir'[c].source = q =>
               Work!Base(q)' = c /\ node'[q][1] = "success"
        BY <1>2, <1>4, <3>1, <3>2 DEF SourceWhole, Behind
      <4>3. \A q \in Run :
                Work!Base(q)' = c /\ Work!Live(q)' /\ node'[q][1] = "success"
               => dir'[c].source \in {q, "none"}
        BY <1>2, <1>4, <3>1, <3>2 DEF SourceWhole
      <4> QED BY <4>1, <4>2, <4>3 DEF SourceWhole
    <3>3. CASE c = b
      <4>1. new.source = "part" =>
               \E q \in Run : Work!Base(q)' = c /\ node'[q][1] = "cloning"
        BY <1>4, <3>3
      <4>2. \A q \in Run : new.source = q =>
               Work!Base(q)' = c /\ node'[q][1] = "success"
        BY <1>4, <3>1, <3>3 DEF SourceWhole, Behind
      <4>3. \A q \in Run :
                Work!Base(q)' = c /\ Work!Live(q)' /\ node'[q][1] = "success"
               => new.source \in {q, "none"}
        BY <1>1, <1>4, <3>1, <3>3 DEF OneWorker
      <4> QED BY <1>2, <3>3, <4>1, <4>2, <4>3 DEF SourceWhole
    <3> QED BY <3>2, <3>3
  <2> QED BY <2>1, <2>2
<1> QED BY <1>4, <1>5, <1>6, <1>7, <1>8 DEF RunsKnown, Workspaces

LEMMA CloneKeeps ==
    ASSUME WorkInv, NEW r \in Run, Work!Clone(r) \/ Work!CloneEnd(r)
    PROVE  WorkInv'
<1>1. PICK b : b = Work!Base(r)
  OBVIOUS
<1>2. /\ node[r][1] \in {"running", "cloning"}
      /\ UNCHANGED <<run, image, pushed, artifact, built, shipped, stated,
                     mixed>>
  BY DEF Work!Clone, Work!CloneEnd
<1>3. b \in Run
  <2>1. Work!Live(r)
    BY <1>2 DEF WorkInv, RunsKnown, NodesKnown, AtWork, Work!NodeNo, Work!Live,
       Noted
  <2> QED BY <1>1, <2>1, BaseKnown DEF WorkInv
<1>4. dir \in [Run -> DirAt] /\ dir[b] \in DirAt
  BY <1>3 DEF WorkInv, WorkTypes
<1>5. CASE Work!Clone(r)
  <2> DEFINE new == [source |-> "part", age |-> "fresh"]
  <2>1. /\ new \in DirAt /\ new.source = "part"
    BY DEF DirAt
  <2>2. Work!NodeIs(r, 1, "cloning") /\ dir' = [dir EXCEPT ![b] = new]
    BY <1>1, <1>5 DEF Work!Clone
  <2>3. "part" \notin Run
    BY RunNames
  <2> HIDE DEF new
  <2> QED BY <1>1, <1>2, <1>3, <2>1, <2>2, <2>3, WritesKeep
<1>6. CASE Work!CloneEnd(r)
  <2>1. CASE Work!NodeIs(r, 1, "success")
                 /\ dir' = [dir EXCEPT ![b].source = r]
    <3> DEFINE new == [dir[b] EXCEPT !.source = r]
    <3>1. /\ new \in DirAt /\ new.source = r
          /\ dir' = [dir EXCEPT ![b] = new]
      BY <1>3, <1>4, <2>1 DEF DirAt
    <3>2. r # "part" /\ Work!NodeIs(r, 1, "success")
      BY <2>1, RunNames
    <3> HIDE DEF new
    <3> QED BY <1>1, <1>2, <1>3, <3>1, <3>2, WritesKeep
  <2>2. CASE /\ Work!NodeIs(r, 1, "failed")
             /\ dir' = [dir EXCEPT ![b].source =
                          IF @ = "part" THEN "none" ELSE @]
    <3> DEFINE source == IF dir[b].source = "part" THEN "none"
                         ELSE dir[b].source
               new == [dir[b] EXCEPT !.source = source]
    <3>1. source \in Run \cup {"none"}
      BY <1>4 DEF DirAt
    <3>2. source \in Run => source = dir[b].source
      BY RunNames DEF Work!NoRun
    <3> HIDE DEF source
    <3>3. /\ new \in DirAt /\ new.source = source
      BY <1>4, <3>1 DEF DirAt
    <3>4. dir' = [dir EXCEPT ![b] = new]
      BY <1>3, <1>4, <2>2 DEF source
    <3>5. source # "part" /\ Work!NodeIs(r, 1, "failed")
      BY <2>2, <3>1, RunNames
    <3> HIDE DEF new
    <3> QED BY <1>1, <1>2, <1>3, <3>2, <3>3, <3>4, <3>5, WritesKeep
  <2> QED BY <1>1, <1>6, <2>1, <2>2 DEF Work!CloneEnd
<1> QED BY <1>5, <1>6

\* Steps of nodes that leave the workspaces alone.
LEMMA TimeoutKeeps ==
    ASSUME WorkInv, NEW r \in Run, Work!CloneTimeout(r)
    PROVE  WorkInv'
<1> USE DEF WorkInv
<1>1. /\ node[r][1] = "cloning" /\ Work!NodeIs(r, 1, "failed")
      /\ mixed' = mixed \cup {Work!Base(r)}
      /\ UNCHANGED <<run, dir, image, pushed, artifact, built, shipped, stated>>
  BY DEF Work!CloneTimeout
<1>2. run[r].status = "running" /\ Work!Live(r)
  BY <1>1 DEF RunsKnown, NodesKnown, AtWork, Work!NodeNo, Work!Live, Noted
<1>3. /\ node' \in [Run -> [Work!NodeNo -> Statuses]]
      /\ node'[r][1] = "failed"
      /\ \A m \in Work!NodeNo \ {1} : node'[r][m] = node[r][m]
      /\ \A q \in Run \ {r} : node'[q] = node[q]
      /\ \A q \in Run : ParentFailed(q)' /\ NodesKnown(q)'
      /\ \A q \in Run : node[q][1] \in Behind => node'[q][1] = node[q][1]
      /\ \A q \in Run :
             Work!Live(q)' = Work!Live(q) /\ Work!Base(q)' = Work!Base(q)
  <2>1. "failed" \in Statuses \ Waiting /\ 1 \in Work!NodeNo
    BY DEF Statuses, Waiting, Work!NodeNo
  <2>2. node[r][1] \in AtWork \cup {"pending"} /\ node[r][1] # "pending"
    BY <1>1 DEF AtWork, Noted
  <2>3. run' \in [Run -> RunAt] /\ run' = run
    BY <1>1 DEF WorkTypes
  <2> HIDE DEF WorkInv
  <2> QED BY <1>1, <1>2, <2>1, <2>2, <2>3, NodesMove DEF WorkInv, Noted
<1>4. WorkTypes'
  BY <1>1, <1>3 DEF WorkTypes
<1>5. \A q \in Run : Fresh(q)'
  BY <1>1, <1>2, <1>3, FreshStays
<1>6. (\A q \in Run : ImageKnown(q)' /\ BuiltKnown(q)') /\ Work!WorkSound'
  <2>1. \A q \in Run : \A m \in {2, 3} : node'[q][m] = node[q][m]
    BY <1>3 DEF Work!NodeNo
  <2>2. \A q \in Run : run[q].status = "none" => node'[q][2] \notin Noted
    BY <2>1 DEF RunsKnown, Fresh, Work!NodeNo, Noted
  <2> QED BY <1>1, <1>3, <2>1, <2>2, WorkLasts
<1>7. Workspaces'
  <2>1. ASSUME NEW q \in Run
        PROVE  /\ (node'[q][1] = "success") = (node[q][1] = "success")
               /\ Work!Base(q) \notin mixed' /\ node[q][1] = "cloning" =>
                     node'[q][1] = "cloning"
    BY <1>1, <1>3, <2>1
  <2> QED BY <1>1, <1>3, <2>1, SourcesLast DEF Copied
<1> QED BY <1>3, <1>4, <1>5, <1>6, <1>7 DEF RunsKnown

\* A later node's status changes, and what it made.
LEMMA LaterKeeps ==
    ASSUME WorkInv, NEW r \in Run, NEW n \in {2, 3}, node[r][n] \in AtWork,
           NEW status \in Statuses \ Waiting, Work!NodeIs(r, n, status),
           status \notin {"running", "cloning"},
           status \in Noted => n = 2,
           built' \in [Run -> Run \cup {"none", "part"}],
           image' \in [Run -> Work!Tag \cup {Work!NoTag}],
           shipped' \in [Run -> ShippedAt],
           artifact'
               \in ArtifactAt,
           \A q \in Run \ {r} : /\ built'[q] = built[q]
                                /\ image'[q] = image[q]
                                /\ shipped'[q] = shipped[q]
                                /\ (q \in stated') = (q \in stated),
           image[r] # Work!NoTag => image'[r] = image[r],
           pushed' \in [Work!Tag -> Run \cup {Work!NoRun}],
           \A tag \in Work!Tag : \/ pushed'[tag] = pushed[tag]
                                \/ pushed'[tag] = r,
           UNCHANGED <<run, dir, mixed>>
    PROVE  /\ WorkTypes' /\ Workspaces' /\ node'[r][n] = status
           /\ \A m \in Work!NodeNo \ {n} : node'[r][m] = node[r][m]
           /\ \A q \in Run \ {r} : node'[q] = node[q]
           /\ \A q \in Run : /\ Fresh(q)' /\ ParentFailed(q)' /\ NodesKnown(q)'
           /\ \A q \in Run :
                  node'[q][1] = node[q][1] /\ Work!Base(q)' = Work!Base(q)
           /\ \A q \in Run \ {r} : /\ ImageKnown(q)' /\ BuiltKnown(q)'
                                   /\ Work!OwnSource(q)' /\ Work!OwnImage(q)'
<1> USE DEF WorkInv
<1>1. run[r].status = "running" /\ Work!Live(r) /\ n \in Work!NodeNo
  BY DEF RunsKnown, NodesKnown, AtWork, Work!NodeNo, Work!Live, Noted
<1>2. /\ node' \in [Run -> [Work!NodeNo -> Statuses]]
      /\ node'[r][n] = status
      /\ \A m \in Work!NodeNo \ {n} : node'[r][m] = node[r][m]
      /\ \A q \in Run \ {r} : node'[q] = node[q]
      /\ \A q \in Run : ParentFailed(q)' /\ NodesKnown(q)'
      /\ \A q \in Run :
             Work!Live(q)' = Work!Live(q) /\ Work!Base(q)' = Work!Base(q)
  <2>1. node[r][n] \in AtWork \cup {"pending"} /\ node[r][n] # "pending"
    BY DEF AtWork, Noted
  <2>2. run' \in [Run -> RunAt] /\ run' = run
    BY DEF WorkTypes
  <2> HIDE DEF WorkInv
  <2> QED BY <1>1, <2>1, <2>2, NodesMove DEF WorkInv
<1>3. WorkTypes'
  BY <1>2 DEF WorkTypes
<1>4. \A q \in Run : Fresh(q)'
  BY <1>1, <1>2, FreshStays
<1>5. \A q \in Run : node'[q][1] = node[q][1]
  BY <1>1, <1>2 DEF Work!NodeNo
<1>6. Workspaces'
  BY <1>2, <1>5, SourcesLast DEF Copied
<1>7. ASSUME NEW q \in Run \ {r}
      PROVE  ImageKnown(q)' /\ BuiltKnown(q)' /\ Work!OwnSource(q)'
                 /\ Work!OwnImage(q)'
  <2>1. ImageKnown(q) /\ BuiltKnown(q) /\ Work!OwnSource(q) /\ Work!OwnImage(q)
    BY DEF RunsKnown, Work!WorkSound
  <2>2. \A p \in Run : Work!Base(p)' = Work!Base(p)
    BY <1>2
  <2>3. ImageKnown(q)'
    BY <1>2, <2>1 DEF ImageKnown, Noted
  <2>6. Work!OwnImage(q)'
    <3>1. /\ image'[q] = image[q] /\ shipped'[q] = shipped[q]
          /\ run' = run /\ (q \in stated') = (q \in stated)
      OBVIOUS
    <3>2. CASE image[q] = Work!NoTag
      BY <2>1, <3>1, <3>2 DEF Work!OwnImage
    <3>3. CASE image[q] # Work!NoTag
      <4>1. image[q] \in Work!Tag
        BY <3>3 DEF WorkTypes
      <4>2. /\ pushed'[image[q]] # Work!NoRun
            /\ pushed[image[q]] # q => pushed'[image[q]] # q
        BY <2>1, <3>3, <4>1, TagMark DEF Work!OwnImage
      <4>3. \A p \in Run : image[p] = image[q] => image'[p] = image[q]
        BY <3>3
      <4> QED BY <2>1, <3>1, <4>2, <4>3 DEF Work!OwnImage
    <3> QED BY <3>2, <3>3
  <2>4. BuiltKnown(q)'
    BY <1>2, <1>5, <2>1, <2>2 DEF BuiltKnown, Noted
  <2>5. Work!OwnSource(q)'
    <3>1. built'[q] = built[q]
      OBVIOUS
    <3> QED BY <1>5, <2>1, <2>2, <3>1 DEF Work!OwnSource
  <2> QED BY <2>3, <2>4, <2>5, <2>6
<1> QED BY <1>2, <1>3, <1>4, <1>5, <1>6, <1>7

\* The source that a build finds.
LEMMA SourceFound ==
    ASSUME WorkInv, NEW r \in Run, node[r][2] = "running",
           NEW s, s = dir[Work!Base(r)].source, s # "none",
           Work!Base(r) \notin mixed
    PROVE  /\ s \in Run /\ node[s][1] = "success"
           /\ IF node[r][1] = "skipped" THEN Work!Base(s) = Work!Base(r)
                  /\ s # r
              ELSE s = r
<1> USE DEF WorkInv
<1>1. PICK b : b = Work!Base(r)
  OBVIOUS
<1>2. Work!Live(r) /\ node[r][1] \in Behind
  BY DEF RunsKnown, NodesKnown, AtWork, Waiting, Work!NodeNo, Work!Live, Noted
<1>3. b \in Run /\ ~Copied(b) /\ b \notin mixed
  BY <1>1, <1>2, BaseKnown
<1>4. SourceWhole(b) /\ OneWorker(b) /\ s = dir[b].source
  BY <1>1, <1>3 DEF Workspaces
<1>5. s # "part"
  <2> SUFFICES ASSUME s = "part" PROVE FALSE
    OBVIOUS
  <2>1. PICK q \in Run : Work!Base(q) = b /\ node[q][1] = "cloning"
    BY <1>3, <1>4 DEF SourceWhole
  <2>2. Work!Live(q)
    BY <2>1 DEF RunsKnown, NodesKnown, AtWork, Work!NodeNo, Work!Live, Noted
  <2>3. q = r
    BY <1>1, <1>2, <1>3, <1>4, <2>1, <2>2 DEF OneWorker
  <2> QED BY <1>2, <2>1, <2>3 DEF Behind
<1>6. s \in Run
  BY <1>3, <1>4, <1>5 DEF WorkTypes, DirAt
<1>7. Work!Base(s) = b /\ node[s][1] = "success"
  BY <1>3, <1>4, <1>6 DEF SourceWhole
<1>8. CASE node[r][1] = "skipped"
  BY <1>1, <1>6, <1>7, <1>8
<1>9. CASE node[r][1] = "success"
  BY <1>1, <1>2, <1>3, <1>4, <1>6, <1>7, <1>9 DEF SourceWhole
<1> QED BY <1>2, <1>8, <1>9 DEF Behind

LEMMA BuildKeeps ==
    ASSUME WorkInv, NEW r \in Run, Work!Build(r)
    PROVE  WorkInv'
<1> USE DEF WorkInv
<1>1. PICK s : s = dir[Work!Base(r)].source
  OBVIOUS
<1>2. /\ node[r][2] = "running"
      /\ UNCHANGED <<run, dir, artifact, shipped, stated, mixed>>
  BY DEF Work!Build
<1>3. PICK status \in {"success", "recording", "failed"}, tag \in Work!Tag :
         /\ Work!NodeIs(r, 2, status)
         /\ \/ /\ status # "failed" /\ s # "none"
               /\ built' = [built EXCEPT ![r] = s]
            \/ status = "failed" /\ built' = built
         /\ \/ /\ status = "recording" /\ pushed' = [pushed EXCEPT ![tag] = r]
               /\ image' = [image EXCEPT ![r] = tag]
            \/ status # "recording" /\ UNCHANGED <<image, pushed>>
  <2>1. r \in Work!Tag /\ Work!Named \subseteq Work!Tag
    BY DEF Work!Tag, Work!Named
  <2>2. CASE Work!NodeIs(r, 2, "failed") /\ UNCHANGED <<image, pushed, built>>
    BY <2>1, <2>2
  <2>3. CASE /\ s # "none" /\ built' = [built EXCEPT ![r] = s]
             /\ Work!NodeIs(r, 2, "success") /\ UNCHANGED <<image, pushed>>
    BY <2>1, <2>3
  <2>4. ASSUME NEW tag \in {r} \cup Work!Named, s # "none",
               built' = [built EXCEPT ![r] = s],
               Work!NodeIs(r, 2, "recording"),
               pushed' = [pushed EXCEPT ![tag] = r],
               image' = [image EXCEPT ![r] = tag]
        PROVE  \E t \in Work!Tag :
                  /\ pushed' = [pushed EXCEPT ![t] = r]
                  /\ image' = [image EXCEPT ![r] = t]
    BY <2>1, <2>4
  <2> QED BY <1>1, <2>1, <2>2, <2>3, <2>4 DEF Work!Build
<1>4. /\ built[r] = "none" /\ image[r] = Work!NoTag /\ shipped[r] = "none"
      /\ node[r][1] \in Behind
  BY <1>2 DEF RunsKnown, ImageKnown, BuiltKnown, NodesKnown, Waiting, Behind,
     Work!NodeNo, Noted
<1>5. s \in Run \cup {"none", "part"}
  <2>1. Work!Live(r)
    BY <1>2 DEF RunsKnown, NodesKnown, AtWork, Work!NodeNo, Work!Live, Noted
  <2> QED BY <1>1, <2>1, BaseKnown DEF WorkTypes, DirAt
<1>6. /\ built' \in [Run -> Run \cup {"none", "part"}]
      /\ built'[r] = IF status = "failed" THEN "none" ELSE s
      /\ \A q \in Run \ {r} : built'[q] = built[q]
      /\ status # "failed" => s # "none"
  BY <1>3, <1>4, <1>5 DEF WorkTypes
<1>7. /\ image' \in [Run -> Work!Tag \cup {Work!NoTag}]
      /\ image'[r] = IF status = "recording" THEN tag ELSE Work!NoTag
      /\ \A q \in Run \ {r} : image'[q] = image[q]
      /\ pushed' \in [Work!Tag -> Run \cup {Work!NoRun}]
      /\ status = "recording" => pushed'[tag] = r
      /\ \A t \in Work!Tag :
            pushed'[t] = pushed[t] \/ (status = "recording" /\ t = tag)
  <2>1. /\ image \in [Run -> Work!Tag \cup {Work!NoTag}]
        /\ pushed \in [Work!Tag -> Run \cup {Work!NoRun}]
    BY DEF WorkTypes
  <2> HIDE DEF WorkInv
  <2>2. CASE status = "recording"
    BY <1>3, <2>1, <2>2
  <2>3. CASE status # "recording"
    BY <1>3, <1>4, <2>1, <2>3
  <2> QED BY <2>2, <2>3
<1>8. /\ WorkTypes' /\ Workspaces' /\ node'[r][2] = status
      /\ \A m \in Work!NodeNo \ {2} : node'[r][m] = node[r][m]
      /\ \A q \in Run \ {r} : node'[q] = node[q]
      /\ \A q \in Run : /\ Fresh(q)' /\ ParentFailed(q)' /\ NodesKnown(q)'
      /\ \A q \in Run :
             node'[q][1] = node[q][1] /\ Work!Base(q)' = Work!Base(q)
      /\ \A q \in Run \ {r} : /\ ImageKnown(q)' /\ BuiltKnown(q)'
                              /\ Work!OwnSource(q)' /\ Work!OwnImage(q)'
  <2>1. /\ status \in Statuses \ Waiting /\ node[r][2] \in AtWork
        /\ status \notin {"running", "cloning"}
    BY <1>2 DEF Statuses, Waiting, AtWork, Noted
  <2>2. /\ artifact'
               \in ArtifactAt
        /\ shipped' \in [Run -> ShippedAt]
    BY <1>2 DEF WorkTypes
  <2>3. \A t \in Work!Tag : pushed'[t] = pushed[t] \/ pushed'[t] = r
    BY <1>7
  <2> HIDE DEF WorkInv
  <2> QED BY <1>2, <1>3, <1>4, <1>6, <1>7, <2>1, <2>2, <2>3, LaterKeeps
<1>9. ImageKnown(r)' /\ Work!OwnImage(r)'
  BY <1>2, <1>4, <1>7, <1>8, TagMark DEF ImageKnown, Work!OwnImage, Noted
<1>10. BuiltKnown(r)' /\ Work!OwnSource(r)'
  <2>1. CASE status = "failed"
    BY <1>6, <2>1 DEF BuiltKnown, Work!OwnSource, Noted
  <2>2. CASE status # "failed"
    <3>1. built'[r] = s /\ s # "none" /\ node'[r][2] = status
      BY <1>6, <1>8, <2>2
    <3>2. Work!Base(r)' = Work!Base(r) /\ node'[r][1] = node[r][1]
              /\ mixed' = mixed
      BY <1>2, <1>8
    <3>3. CASE Work!Base(r) \in mixed
      BY <3>1, <3>2, <3>3 DEF BuiltKnown, Work!OwnSource, Noted
    <3>4. CASE Work!Base(r) \notin mixed
      <4>1. /\ s \in Run /\ node[s][1] = "success"
            /\ IF node[r][1] = "skipped" THEN Work!Base(s) = Work!Base(r)
                   /\ s # r
               ELSE s = r
        BY <1>1, <1>2, <3>1, <3>4, SourceFound
      <4>2. Work!Base(s)' = Work!Base(s) /\ node'[s][1] = "success"
        BY <1>8, <4>1
      <4>3. BuiltKnown(r)'
        BY <3>1, <4>1, <4>2 DEF BuiltKnown, Noted
      <4>4. Work!OwnSource(r)'
        BY <3>1, <3>2, <4>1, <4>2 DEF Work!OwnSource
      <4> QED BY <4>3, <4>4
    <3> QED BY <3>3, <3>4
  <2> QED BY <2>1, <2>2
<1>11. Work!Registry'
  <2> SUFFICES ASSUME NEW t \in Work!Tag, pushed'[t] # Work!NoRun
               PROVE  image'[pushed'[t]] = t
    BY DEF Work!Registry
  <2>1. CASE status = "recording" /\ t = tag
    BY <1>7, <2>1
  <2>2. CASE pushed'[t] = pushed[t]
    <3>1. image[pushed[t]] = t /\ pushed[t] \in Run
      BY <2>2 DEF Work!WorkSound, Work!Registry, WorkTypes
    <3>2. pushed[t] # r
      BY <1>4, <3>1, TagMark
    <3> QED BY <1>7, <2>2, <3>1, <3>2
  <2> QED BY <1>7, <2>1, <2>2
<1>12. Work!Recorded'
  <2>1. Work!Recorded /\ artifact' = artifact /\ artifact \in ArtifactAt
    BY <1>2 DEF Work!WorkSound, WorkTypes
  <2>2. ASSUME NEW v \in artifact.versions PROVE image'[v.run] = v.tag
    <3>1. v.tag \in Work!Tag /\ v.run \in Run /\ image[v.run] = v.tag
      BY <2>1 DEF Work!Recorded, ArtifactAt
    <3>2. v.run # r
      BY <1>4, <3>1, TagMark
    <3> QED BY <1>7, <3>1, <3>2
  <2>3. artifact.latest # Work!NoTag =>
            pushed'[artifact.latest] # Work!NoRun
    BY <1>7, <2>1, TagMark DEF Work!Recorded, ArtifactAt
  <2> QED BY <2>1, <2>2, <2>3 DEF Work!Recorded
<1>13. Work!WorkSound'
  BY <1>8, <1>9, <1>10, <1>11, <1>12 DEF Work!WorkSound
<1> QED BY <1>8, <1>9, <1>10, <1>13 DEF RunsKnown

LEMMA RecordKeeps ==
    ASSUME WorkInv, NEW r \in Run,
           Work!RecordArtifact(r) \/ Work!RecordVersion(r)
               \/ Work!RecordFails(r)
    PROVE  WorkInv'
<1> USE DEF WorkInv
<1>1. /\ node[r][2] \in Noted /\ image[r] # Work!NoTag
      /\ UNCHANGED <<run, image, dir, pushed, built, shipped, stated, mixed>>
  BY DEF Work!RecordArtifact, Work!RecordVersion, Work!RecordFails, RunsKnown,
     ImageKnown, Noted
<1>2. PICK status \in {"versioning", "success"} : Work!NodeIs(r, 2, status)
  BY DEF Work!RecordArtifact, Work!RecordVersion, Work!RecordFails
<1>3. /\ artifact \in ArtifactAt /\ image[r] \in Work!Tag
      /\ pushed[image[r]] # Work!NoRun /\ Work!Recorded
  BY <1>1 DEF WorkTypes, Work!WorkSound, Work!OwnImage
<1>4. artifact' \in ArtifactAt /\ Work!Recorded'
  <2>1. CASE artifact' = artifact
    BY <1>1, <1>3, <2>1 DEF Work!Recorded
  <2>2. CASE artifact' = [artifact EXCEPT !.latest = image[r]]
    <3>1. /\ artifact' \in ArtifactAt /\ artifact'.latest = image[r]
          /\ artifact'.versions = artifact.versions
      BY <1>3, <2>2 DEF ArtifactAt
    <3> QED BY <1>1, <1>3, <3>1 DEF Work!Recorded
  <2>3. CASE /\ \A v \in artifact.versions : v.tag # image[r]
             /\ artifact' = [artifact EXCEPT !.versions =
                               @ \cup {[tag |-> image[r], run |-> r]}]
    <3> DEFINE new == [tag |-> image[r], run |-> r]
    <3>1. /\ new \in [tag : Work!Tag, run : Run] /\ new.tag = image[r]
          /\ new.run = r
      BY <1>3
    <3>2. artifact' = [artifact EXCEPT !.versions = @ \cup {new}]
      BY <2>3
    <3> HIDE DEF new
    <3>3. /\ artifact' \in ArtifactAt /\ artifact'.latest = artifact.latest
          /\ artifact'.versions = artifact.versions \cup {new}
      BY <1>3, <3>1, <3>2 DEF ArtifactAt
    <3>4. \A v \in artifact.versions : v.tag # new.tag
      BY <2>3, <3>1
    <3> QED BY <1>1, <1>3, <3>1, <3>3, <3>4 DEF Work!Recorded
  <2> QED BY <2>1, <2>2, <2>3 DEF Work!RecordArtifact, Work!RecordVersion,
       Work!RecordFails
<1>5. /\ WorkTypes' /\ Workspaces' /\ node'[r][2] = status
      /\ \A m \in Work!NodeNo \ {2} : node'[r][m] = node[r][m]
      /\ \A q \in Run \ {r} : node'[q] = node[q]
      /\ \A q \in Run : /\ Fresh(q)' /\ ParentFailed(q)' /\ NodesKnown(q)'
      /\ \A q \in Run :
             node'[q][1] = node[q][1] /\ Work!Base(q)' = Work!Base(q)
      /\ \A q \in Run \ {r} : /\ ImageKnown(q)' /\ BuiltKnown(q)'
                              /\ Work!OwnSource(q)' /\ Work!OwnImage(q)'
  <2>1. /\ status \in Statuses \ Waiting /\ node[r][2] \in AtWork
        /\ status \notin {"running", "cloning"}
    BY <1>1 DEF Statuses, Waiting, AtWork, Noted
  <2>2. /\ built' \in [Run -> Run \cup {"none", "part"}]
        /\ image' \in [Run -> Work!Tag \cup {Work!NoTag}]
        /\ shipped' \in [Run -> ShippedAt]
        /\ pushed' \in [Work!Tag -> Run \cup {Work!NoRun}]
        /\ \A q \in Run \ {r} : /\ built'[q] = built[q]
                                /\ image'[q] = image[q]
                                /\ shipped'[q] = shipped[q]
                                /\ (q \in stated') = (q \in stated)
    BY <1>1 DEF WorkTypes
  <2>3. /\ \A t \in Work!Tag : pushed'[t] = pushed[t] \/ pushed'[t] = r
        /\ image'[r] = image[r]
    BY <1>1
  <2> HIDE DEF WorkInv
  <2> QED BY <1>1, <1>2, <1>4, <2>1, <2>2, <2>3, LaterKeeps
<1>6. ImageKnown(r)' /\ Work!OwnImage(r)'
  BY <1>1, <1>5 DEF ImageKnown, Work!OwnImage, RunsKnown, Work!WorkSound,
     Work!NodeNo, Noted
<1>7. BuiltKnown(r)' /\ Work!OwnSource(r)'
  BY <1>1, <1>5, BuiltStays
<1>8. Work!Registry'
  BY <1>1 DEF Work!WorkSound, Work!Registry
<1> QED BY <1>4, <1>5, <1>6, <1>7, <1>8 DEF RunsKnown, Work!WorkSound

LEMMA DeployKeeps ==
    ASSUME WorkInv, NEW r \in Run,
           Work!DeployK8s(r) \/ Work!RunAnsible(r) \/ Work!HttpWebhook(r)
               \/ Work!DeployHosts(r)
    PROVE  WorkInv'
<1> USE DEF WorkInv
<1>1. PICK s : s = dir[Work!Base(r)].source
  OBVIOUS
<1>2. /\ node[r][3] = "running"
      /\ UNCHANGED <<run, dir, image, pushed, artifact, built, mixed>>
  BY DEF Work!DeployK8s, Work!RunAnsible, Work!HttpWebhook, Work!EndsAs,
     Work!DeployHosts
<1>3. node[r][2] \in Behind
  BY <1>2 DEF RunsKnown, NodesKnown, Waiting, Work!NodeNo, Noted
<1>4. s \in Run \cup {"none", "part"}
  <2>1. Work!Live(r)
    BY <1>2 DEF RunsKnown, NodesKnown, AtWork, Work!NodeNo, Work!Live, Noted
  <2> QED BY <1>1, <2>1, BaseKnown DEF WorkTypes, DirAt
<1>5. /\ shipped \in [Run -> ShippedAt]
      /\ image[r] \in Work!Tag \cup {Work!NoTag}
      /\ Work!OwnImage(r) /\ Work!Registry
  BY DEF WorkTypes, Work!WorkSound
<1> DEFINE Scanned(what) ==
        IF image[r] = Work!NoTag THEN what = "default"
        ELSE \/ what = r
             \/ /\ what \in Run /\ image[what] = image[r]
                /\ pushed[image[r]] # r
<1>6. PICK what \in ShippedAt, status \in {"success", "failed"} :
         /\ Work!NodeIs(r, 3, status)
         /\ shipped' = [shipped EXCEPT ![r] = what]
         /\ stated \subseteq stated'
         /\ \A q \in Run \ {r} : (q \in stated') = (q \in stated)
         /\ run[r].target = "k8s" /\ r \notin stated' =>
               what = shipped[r] \/ Scanned(what)
  <2>1. shipped = [shipped EXCEPT ![r] = shipped[r]] /\ shipped[r] \in ShippedAt
    BY <1>5
  <2>2. CASE Work!DeployK8s(r)
    <3>1. Work!Scan(r) = {image[r]} \ {Work!NoTag}
      <4>1. CASE image[r] = Work!NoTag
        BY <4>1 DEF Work!Scan
      <4>2. CASE image[r] # Work!NoTag
        <5>1. node[r][2] = "success"
          BY <1>3, <4>2 DEF RunsKnown, ImageKnown, Behind, Noted
        <5> QED BY <4>2, <5>1 DEF Work!Scan
      <4> QED BY <4>1, <4>2
    <3>2. CASE Work!NodeIs(r, 3, "failed") /\ UNCHANGED <<shipped, stated>>
      BY <2>1, <3>2
    <3>3. ASSUME NEW tag \in Work!Named, Work!Ship(r, tag),
                 Work!NodeIs(r, 3, "success"), stated' = stated \cup {r}
          PROVE  \E what \in ShippedAt :
                    shipped' = [shipped EXCEPT ![r] = what]
      <4>1. tag \in Work!Tag /\ pushed[tag] \in Run \cup {Work!NoRun}
        BY DEF Work!Named, WorkTypes
      <4> QED BY <3>3, <4>1 DEF Work!Ship, ShippedAt
    <3>4. ASSUME NEW tag \in Work!Scan(r), Work!Ship(r, tag),
                 Work!NodeIs(r, 3, "success"), stated' = stated
          PROVE  \E what \in ShippedAt :
                    /\ shipped' = [shipped EXCEPT ![r] = what]
                    /\ Scanned(what)
      <4>1. tag = image[r] /\ image[r] # Work!NoTag /\ tag \in Work!Tag
        BY <1>5, <3>1, <3>4
      <4>2. pushed[tag] \in Run /\ image[pushed[tag]] = tag
        BY <1>5, <4>1 DEF WorkTypes, Work!OwnImage, Work!Registry
      <4>3. pushed[tag] \in ShippedAt /\ Scanned(pushed[tag])
        BY <4>1, <4>2 DEF ShippedAt
      <4>4. shipped' = [shipped EXCEPT ![r] = pushed[tag]]
        BY <3>4, <4>2, TagMark DEF Work!Ship
      <4> QED BY <4>3, <4>4
    <3>5. CASE /\ Work!Scan(r) = {} /\ Work!NodeIs(r, 3, "success")
               /\ stated' = stated
               /\ shipped' = [shipped EXCEPT ![r] = "default"]
      <4>1. image[r] = Work!NoTag
        BY <3>1, <3>5
      <4> QED BY <3>5, <4>1 DEF ShippedAt
    <3> HIDE DEF Scanned
    <3> QED BY <2>2, <3>2, <3>3, <3>4, <3>5 DEF Work!DeployK8s
  <2>3. CASE Work!RunAnsible(r) \/ Work!HttpWebhook(r)
    BY <2>1, <2>3 DEF Work!RunAnsible, Work!HttpWebhook, Work!EndsAs
  <2>4. CASE Work!DeployHosts(r)
    BY <1>1, <1>4, <2>1, <2>4 DEF Work!DeployHosts, ShippedAt
  <2> QED BY <2>2, <2>3, <2>4
<1> HIDE DEF Scanned
<1>7. /\ shipped' \in [Run -> ShippedAt]
      /\ shipped'[r] = what
      /\ \A q \in Run \ {r} : shipped'[q] = shipped[q]
  BY <1>4, <1>6 DEF WorkTypes
<1>8. /\ WorkTypes' /\ Workspaces' /\ node'[r][3] = status
      /\ \A m \in Work!NodeNo \ {3} : node'[r][m] = node[r][m]
      /\ \A q \in Run \ {r} : node'[q] = node[q]
      /\ \A q \in Run : /\ Fresh(q)' /\ ParentFailed(q)' /\ NodesKnown(q)'
      /\ \A q \in Run :
             node'[q][1] = node[q][1] /\ Work!Base(q)' = Work!Base(q)
      /\ \A q \in Run \ {r} : /\ ImageKnown(q)' /\ BuiltKnown(q)'
                              /\ Work!OwnSource(q)' /\ Work!OwnImage(q)'
  <2>1. /\ status \in Statuses \ Waiting /\ node[r][3] \in AtWork
        /\ status \notin {"running", "cloning"} \cup Noted
    BY <1>2 DEF Statuses, Waiting, AtWork, Noted
  <2>2. /\ built' \in [Run -> Run \cup {"none", "part"}]
        /\ image' \in [Run -> Work!Tag \cup {Work!NoTag}]
        /\ artifact'
               \in ArtifactAt
        /\ \A q \in Run \ {r} : built'[q] = built[q] /\ image'[q] = image[q]
        /\ pushed' \in [Work!Tag -> Run \cup {Work!NoRun}]
        /\ \A t \in Work!Tag : pushed'[t] = pushed[t] \/ pushed'[t] = r
        /\ image'[r] = image[r]
    BY <1>2 DEF WorkTypes
  <2> HIDE DEF WorkInv
  <2> QED BY <1>2, <1>6, <1>7, <2>1, <2>2, LaterKeeps
<1>9. node'[r][2] = node[r][2]
  BY <1>8 DEF Work!NodeNo
<1>10. ImageKnown(r)'
  BY <1>2, <1>8, <1>9 DEF RunsKnown, ImageKnown, Noted
<1>11. Work!OwnImage(r)'
  <2>1. r \notin stated' => r \notin stated
    BY <1>6
  <2> QED BY <1>2, <1>5, <1>6, <1>7, <2>1 DEF Work!OwnImage, Scanned
<1>12. BuiltKnown(r)' /\ Work!OwnSource(r)'
  <2>1. \A q \in Run : node'[q][2] = node[q][2]
    BY <1>8, <1>9
  <2> QED BY <1>2, <1>8, <2>1, BuiltStays
<1>13. Work!WorkSound'
  <2>1. Work!Registry' /\ Work!Recorded'
    BY <1>2 DEF Work!WorkSound, Work!Registry, Work!Recorded
  <2> QED BY <1>8, <1>11, <1>12, <2>1 DEF Work!WorkSound
<1> QED BY <1>8, <1>10, <1>12, <1>13 DEF RunsKnown

\* Time passes, and old workspaces go.
LEMMA DaysKeep ==
    ASSUME WorkInv, Work!Days \/ Work!CleanupOldWorkspaces
    PROVE  WorkInv'
<1> USE DEF WorkInv
<1>1. UNCHANGED <<run, node, image, pushed, artifact, built, shipped, stated,
                  mixed>>
  BY DEF Work!Days, Work!CleanupOldWorkspaces
<1>2. /\ dir' \in [Run -> DirAt]
      /\ \A q \in Run : dir'[q].source \in {dir[q].source, "none"}
  <2>1. CASE Work!Days
    <3>1. dir' = [r \in Run |-> [dir[r] EXCEPT !.age =
                    CASE @ = "none" -> @ [] @ = "fresh" -> "old"
                      [] OTHER -> "ancient"]]
      BY <2>1 DEF Work!Days
    <3>2. ASSUME NEW q \in Run
          PROVE  dir'[q] \in DirAt /\ dir'[q].source = dir[q].source
      <4>1. PICK age \in {"none", "old", "ancient"} :
               dir'[q] = [dir[q] EXCEPT !.age = age]
        <5>1. CASE dir[q].age = "none"
          BY <3>1, <5>1
        <5>2. CASE dir[q].age = "fresh"
          BY <3>1, <5>2
        <5>3. CASE dir[q].age \notin {"none", "fresh"}
          BY <3>1, <5>3
        <5> QED BY <5>1, <5>2, <5>3
      <4>2. dir[q] \in DirAt
        BY DEF WorkTypes
      <4> QED BY <4>1, <4>2 DEF DirAt
    <3> QED BY <3>1, <3>2
  <2>2. CASE Work!CleanupOldWorkspaces
    <3>1. Work!NoDir \in DirAt /\ Work!NoDir.source = "none"
      BY DEF Work!NoDir, DirAt
    <3>2. /\ dir' = [r \in Run |-> dir'[r]]
          /\ \A q \in Run : dir'[q] \in {dir[q], Work!NoDir}
      BY <2>2 DEF Work!CleanupOldWorkspaces
    <3>3. \A q \in Run : dir[q] \in DirAt
      BY DEF WorkTypes
    <3> QED BY <3>1, <3>2, <3>3
  <2> QED BY <2>1, <2>2
<1>3. WorkTypes'
  BY <1>1, <1>2 DEF WorkTypes
<1>4. RunsKnown'
  <2>1. ASSUME NEW q \in Run PROVE Fresh(q)'
    BY <1>1, <1>2 DEF RunsKnown, Fresh
  <2>2. \A q \in Run : /\ ParentFailed(q)' /\ NodesKnown(q)' /\ ImageKnown(q)'
                       /\ BuiltKnown(q)'
    BY <1>1 DEF RunsKnown, ParentFailed, NodesKnown, ImageKnown, BuiltKnown,
       Work!Base, Noted
  <2> QED BY <2>1, <2>2 DEF RunsKnown
<1>5. Workspaces'
  <2>1. \A q \in Run :
            /\ Work!Base(q)' = Work!Base(q) /\ Work!Live(q)' = Work!Live(q)
                       /\ (Copied(q) => Work!Live(q))
    BY <1>1 DEF Work!Base, Work!Live, Copied
  <2> QED BY <1>1, <1>2, <2>1, SourcesLast
<1>6. Work!WorkSound'
  BY <1>1 DEF Work!WorkSound, Work!OwnSource, Work!OwnImage, Work!Base,
     Work!Registry, Work!Recorded
<1> QED BY <1>3, <1>4, <1>5, <1>6

LEMMA WorkNext == ASSUME WorkInv, [Work!Next]_workVars PROVE WorkInv'
<1>1. CASE Work!Next
  <2>1. ASSUME NEW r \in Run,
               \/ \E target \in Work!Target : Work!Execute(r, target)
               \/ \E parent \in Run, start \in Work!NodeNo :
                     Work!Retry(r, parent, start)
        PROVE  WorkInv'
    BY <2>1, CreationKeeps
  <2>2. ASSUME NEW r \in Run, NEW n \in Work!NodeNo, Work!NodeBegin(r, n)
        PROVE  WorkInv'
    BY <2>2, NodeBeginKeeps
  <2>3. ASSUME NEW r \in Run, Work!AdvanceCopy(r) \/ Work!Finalize(r)
        PROVE  WorkInv'
    BY <2>3, CopyKeeps, FinalizeKeeps
  <2>4. ASSUME NEW r \in Run, Work!Clone(r) \/ Work!CloneEnd(r)
                   \/ Work!CloneTimeout(r)
        PROVE  WorkInv'
    BY <2>4, CloneKeeps, TimeoutKeeps
  <2>5. ASSUME NEW r \in Run,
               \/ Work!Build(r) \/ Work!RecordArtifact(r)
               \/ Work!RecordVersion(r) \/ Work!RecordFails(r)
               \/ Work!DeployK8s(r)
               \/ Work!RunAnsible(r) \/ Work!HttpWebhook(r)
               \/ Work!DeployHosts(r)
        PROVE  WorkInv'
    BY <2>5, BuildKeeps, RecordKeeps, DeployKeeps
  <2>6. CASE Work!Days \/ Work!CleanupOldWorkspaces
    BY <2>6, DaysKeep
  <2> QED BY <1>1, <2>1, <2>2, <2>3, <2>4, <2>5, <2>6 DEF Work!Next
<1>2. CASE UNCHANGED workVars
  BY <1>2 DEF workVars, WorkInv, WorkTypes, RunsKnown, Fresh, ParentFailed,
     NodesKnown, ImageKnown, BuiltKnown, Workspaces, OneWorker, SourceWhole,
     Copied, Work!WorkSound, Work!OwnSource, Work!OwnImage, Work!Registry,
     Work!Recorded, Work!Live, Work!Base, Noted
<1> QED BY <1>1, <1>2

LEMMA WorkFollows == WorkInv => Work!WorkSound
BY DEF WorkInv

LEMMA WorkSteps ==
    ASSUME part = "work", [Next]_vars
    PROVE  [Work!Next]_workVars
BY DEF Next, vars, workVars

\* A build is made from the source its own run, or an earlier retry of it, has
\* cloned completely, and a Helm deployment that names no tag ships the image
\* its run has pushed or another that was pushed under this tag since, for any
\* number of runs and retries, configured tags, timeouts and clean-ups.
\* Code: execute_pipeline_node, PipelineRunViewSet.retry, advance_pipeline,
\* cleanup_old_workspaces.
WorkHeld == part = "work" => WorkInv
THEOREM WorkHolds == Spec => []WorkSound
<1>1. Init => WorkHeld
  BY WorkInit DEF Init, WorkHeld
<1>2. WorkHeld /\ [Next]_vars => WorkHeld'
  BY PartStays, WorkSteps, WorkNext DEF WorkHeld
<1>3. WorkHeld => WorkSound
  BY WorkFollows DEF WorkHeld, WorkSound
<1> QED BY <1>1, <1>2, <1>3, PTL DEF Spec

=============================================================================
