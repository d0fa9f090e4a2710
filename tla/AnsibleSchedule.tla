--------------------------- MODULE AnsibleSchedule ---------------------------
(***************************************************************************)
(* One Ansible schedule (AnsibleScheduleViewSet) and its entry in Celery   *)
(* beat: every view changes the row first and then calls                   *)
(* sync_schedule_to_beat with the copy it holds.                           *)
(***************************************************************************)
EXTENDS Integers

CONSTANTS
    View,        \* HTTP handlers
    Entry        \* ids of the beat entries that may be created (a bound)

VARIABLES
    sched,       \* AnsibleSchedule: exists, is_enabled, periodic_task_id
    beat,        \* the PeriodicTask named after the schedule: at most one
    used,        \* ids of entries given away
    view,        \* per handler: what it does and its copy of the row
    crossed      \* history: two views have overlapped

vars == <<sched, beat, used, view, crossed>>

NoEntry == "none"
NoSched == [exists |-> FALSE, enabled |-> FALSE, entry |-> NoEntry]
AtRest  == [pc |-> "idle", copy |-> NoSched]

Init ==
    /\ sched = NoSched /\ beat = NoEntry /\ used = {}
    /\ view = [v \in View |-> AtRest]
    /\ crossed = FALSE

\* A view reads the row; get_object answers 404 when it is gone.
Begin(v, pc, copy) ==
    /\ view[v].pc = "idle"
    /\ view' = [view EXCEPT ![v] = [pc |-> pc, copy |-> copy]]
    /\ crossed' = (crossed \/ \E w \in View : view[w].pc # "idle")

\* perform_create
Create(v, enabled) ==
    LET new == [exists |-> TRUE, enabled |-> enabled, entry |-> NoEntry]
    IN  /\ ~sched.exists /\ sched' = new
        /\ Begin(v, "sync", new)
        /\ UNCHANGED <<beat, used>>

\* perform_update: the serializer saves every field of the copy.
UpdateRead(v) ==
    /\ sched.exists /\ Begin(v, "update", sched)
    /\ UNCHANGED <<sched, beat, used>>
UpdateSave(v, enabled) ==
    LET new == [view[v].copy EXCEPT !.enabled = enabled]
    IN  /\ view[v].pc = "update"
        /\ sched' = new
        /\ view' = [view EXCEPT ![v] = [pc |-> "sync", copy |-> new]]
        /\ UNCHANGED <<beat, used, crossed>>

\* toggle: is_enabled alone is saved; a row deleted meanwhile is an error.
ToggleRead(v) ==
    /\ sched.exists /\ Begin(v, "toggle", sched)
    /\ UNCHANGED <<sched, beat, used>>
ToggleSave(v) ==
    LET new == [view[v].copy EXCEPT !.enabled = ~@]
    IN  /\ view[v].pc = "toggle"
        /\ IF sched.exists
           THEN /\ sched' = [sched EXCEPT !.enabled = new.enabled]
                /\ view' = [view EXCEPT ![v] = [pc |-> "sync", copy |-> new]]
           ELSE view' = [view EXCEPT ![v] = AtRest] /\ UNCHANGED sched
        /\ UNCHANGED <<beat, used, crossed>>

\* perform_destroy disables its copy, not the row, and syncs.
Destroy(v) ==
    /\ sched.exists /\ Begin(v, "destroy", [sched EXCEPT !.enabled = FALSE])
    /\ UNCHANGED <<sched, beat, used>>

\* sync_schedule_to_beat, disabled: the entry the copy knows is deleted.
SyncOff(v) ==
    LET known == view[v].copy.entry
    IN  /\ view[v].pc \in {"sync", "destroy"} /\ ~view[v].copy.enabled
        /\ beat' = IF known # NoEntry /\ beat = known THEN NoEntry ELSE beat
        /\ sched' = IF known # NoEntry /\ sched.exists
                    THEN [sched EXCEPT !.entry = NoEntry] ELSE sched
        /\ view' = [view EXCEPT ![v] = IF view[v].pc = "destroy"
                                       THEN [@ EXCEPT !.pc = "delete"]
                                       ELSE AtRest]
        /\ UNCHANGED <<used, crossed>>

\* ... enabled: the known entry is updated or created again under its id, or
\* a new one is created; its name is unique, so a second one is refused.
SyncOnUnlinked(v) ==           \* variant: the new entry's id is not kept
    /\ view[v].pc = "sync" /\ view[v].copy.enabled /\ beat = NoEntry
    /\ \E id \in Entry \ used : beat' = id /\ used' = used \cup {id}
    /\ view' = [view EXCEPT ![v] = AtRest]
    /\ UNCHANGED <<sched, crossed>>
SyncOn(v) ==
    LET known == view[v].copy.entry
    IN  /\ view[v].pc = "sync" /\ view[v].copy.enabled
        /\ \/ /\ known # NoEntry /\ beat \in {known, NoEntry}
              /\ beat' = known /\ UNCHANGED used
              /\ view' = [view EXCEPT ![v].pc = "link"]
           \/ /\ known = NoEntry /\ beat = NoEntry
              /\ \E id \in Entry \ used :
                    /\ beat' = id /\ used' = used \cup {id}
                    /\ view' = [view EXCEPT ![v].pc = "link",
                                            ![v].copy.entry = id]
           \/ /\ beat \notin {known, NoEntry}
              /\ view' = [view EXCEPT ![v] = AtRest]
              /\ UNCHANGED <<beat, used>>
        /\ UNCHANGED <<sched, crossed>>

\* The id is saved with the next run time, if the row is still there.
Link(v) ==
    /\ view[v].pc = "link"
    /\ sched' = IF sched.exists
                THEN [sched EXCEPT !.entry = view[v].copy.entry] ELSE sched
    /\ view' = [view EXCEPT ![v] = AtRest]
    /\ UNCHANGED <<beat, used, crossed>>

DestroyFinish(v) ==
    /\ view[v].pc = "delete"
    /\ sched' = NoSched
    /\ view' = [view EXCEPT ![v] = AtRest]
    /\ UNCHANGED <<beat, used, crossed>>

Next ==
    \E v \in View :
       \/ \E enabled \in BOOLEAN : Create(v, enabled) \/ UpdateSave(v, enabled)
       \/ UpdateRead(v) \/ ToggleRead(v) \/ ToggleSave(v) \/ Destroy(v)
       \/ SyncOff(v) \/ SyncOn(v) \/ Link(v) \/ DestroyFinish(v)

Spec == Init /\ [][Next]_vars

-----------------------------------------------------------------------------
(* Properties.                                                             *)

Sched == [exists : BOOLEAN, enabled : BOOLEAN, entry : Entry \cup {NoEntry}]

ScheduleTypeOK ==
    /\ sched \in Sched
    /\ beat \in Entry \cup {NoEntry} /\ used \subseteq Entry
    /\ view \in [View -> [pc : {"idle", "sync", "update", "toggle", "destroy",
                                "link", "delete"}, copy : Sched]]
    /\ crossed \in BOOLEAN

\* When no view is at work and none has overlapped another, beat runs the
\* schedule exactly when it is enabled, and its row knows the entry: after any
\* sequence of creations, updates, toggles and deletions.  Overlapping views
\* can leave an enabled schedule without an entry, or an entry without a row.
BeatFollows ==
    (~crossed /\ \A v \in View : view[v].pc = "idle")
    => /\ (beat # NoEntry) <=> (sched.exists /\ sched.enabled)
       /\ sched.entry = beat
=============================================================================
