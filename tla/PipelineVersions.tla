-------------------------- MODULE PipelineVersions --------------------------
(***************************************************************************)
(* A pipeline template (pipeline_management.models.Pipeline): its row, the *)
(* version snapshots and the Celery beat entry that Pipeline.save keeps in *)
(* step with it, and the handlers that save or delete it.  Every database  *)
(* statement of save is a step of its own: save opens no transaction.      *)
(***************************************************************************)
EXTENDS Integers, FiniteSetsExt

CONSTANTS
    Handler,       \* requests that save the template
    Graph,         \* non-empty graphs
    Expr,          \* cron expressions of five fields
    Edits,         \* bound: what updates send, [graph, expr, on]
    MaxSaves,      \* bound: saves of the template
    SaveFaults     \* bound: processes that die within save

Empty   == "empty"     \* graph_data = {}
Blank   == "blank"     \* cron_expression None or ''
BadExpr == "bad"       \* not five fields
NoId    == 0

VARIABLES
    row,         \* the template, a full save writes all of it
    versions,    \* PipelineVersion rows of the template
    entry,       \* the PeriodicTask named Pipeline_Cron_<id>_Trigger
    nextId,      \* the id of the next beat entry
    save,        \* the save a handler is executing
    revived,     \* history: a full save inserted the deleted row again
    settled,     \* history: the last save was alone from its read to its end
    savesLeft,
    saveFaults

vars == <<row, versions, entry, nextId, save, revived, settled, savesLeft,
          saveFaults>>

Rows ==
    [there : BOOLEAN, graph : Graph \cup {Empty},
     expr : Expr \cup {Blank, BadExpr}, on : BOOLEAN, bound : 0..MaxSaves]
NoRow   == [there |-> FALSE, graph |-> Empty, expr |-> Blank, on |-> FALSE,
            bound |-> NoId]
NoEntry == [id |-> NoId, on |-> FALSE, expr |-> Blank]
Idle    == [pc |-> "idle", copy |-> NoRow, number |-> 0, found |-> NoEntry,
            alone |-> FALSE, snapshot |-> FALSE]

Numbers == {v.number : v \in versions}
Busy    == {h \in Handler : save[h].pc # "idle"}

\* The template was created with a graph and no schedule: a first save makes
\* no snapshot (is_update is FALSE).
Init ==
    /\ \E g \in Graph \cup {Empty} :
          row = [NoRow EXCEPT !.there = TRUE, !.graph = g]
    /\ versions = {}
    /\ entry = NoEntry /\ nextId = 1
    /\ save = [h \in Handler |-> Idle]
    /\ revived = FALSE /\ settled = FALSE
    /\ savesLeft = MaxSaves /\ saveFaults = SaveFaults

Goto(h, pc)  == save' = [save EXCEPT ![h].pc = pc]
\* The request ends, by its response or by an exception nobody catches.
End(h)       == save' = [save EXCEPT ![h] = Idle]
Finish(h)    == /\ End(h)
                /\ settled' = (save[h].alone /\ save[h].snapshot)

-----------------------------------------------------------------------------
(* Handlers.                                                               *)

\* A request reads the row and changes its copy: update and partial_update
\* change any field, rollback takes the graph of a version.
Load(h, copy) ==
    /\ save[h].pc = "idle" /\ row.there /\ savesLeft > 0
    /\ savesLeft' = savesLeft - 1
    /\ save' = [g \in Handler |->
                  IF g = h THEN [Idle EXCEPT !.pc = "row", !.copy = copy,
                                             !.alone = (Busy = {})]
                  ELSE [save[g] EXCEPT !.alone = FALSE]]
    /\ UNCHANGED <<row, versions, entry, nextId, revived, settled, saveFaults>>

Update(h) ==
    \E edit \in Edits :
        Load(h, [row EXCEPT !.graph = edit.graph, !.expr = edit.expr,
                            !.on = edit.on])

Rollback(h) ==
    \E v \in versions : Load(h, [row EXCEPT !.graph = v.graph])

\* ModelViewSet.destroy: the versions go with the row, the entry stays.
Destroy ==
    /\ row.there
    /\ row' = NoRow /\ versions' = {} /\ settled' = FALSE
    /\ UNCHANGED <<entry, nextId, save, revived, savesLeft, saveFaults>>

-----------------------------------------------------------------------------
(* Pipeline.save, statement by statement.                                  *)

\* super().save(): UPDATE of every field; a row that is gone is inserted.
SaveRow(h) ==
    LET copy == save[h].copy
    IN  /\ save[h].pc = "row"
        /\ row' = copy
        /\ revived' = (revived \/ ~row.there)
        /\ settled' = FALSE
        /\ Goto(h, IF copy.graph # Empty THEN "number" ELSE "cron")
        /\ UNCHANGED <<versions, entry, nextId, savesLeft, saveFaults>>

\* _create_version_snapshot: the next number, ...
SnapshotNumber(h) ==
    /\ save[h].pc = "number"
    /\ save' = [save EXCEPT ![h].pc = "unmark",
                            ![h].number = Max(Numbers \cup {0}) + 1]
    /\ UNCHANGED <<row, versions, entry, nextId, revived, settled, savesLeft,
                   saveFaults>>

\* ... all marks removed, ...
SnapshotUnmark(h) ==
    /\ save[h].pc = "unmark"
    /\ versions' = {[v EXCEPT !.current = FALSE] : v \in versions}
    /\ Goto(h, "insert")
    /\ UNCHANGED <<row, entry, nextId, revived, settled, savesLeft,
                   saveFaults>>

\* ... and the new version: (pipeline, version_number) is unique and the
\* template must exist, else IntegrityError ends the request.
SnapshotInsertDuplicate(h) ==      \* variant: the numbers are not unique
    /\ save[h].pc = "insert"
    /\ IF row.there
       THEN /\ versions' = versions \cup
                   {[number |-> save[h].number, graph |-> save[h].copy.graph,
                     current |-> TRUE]}
            /\ save' = [save EXCEPT ![h].pc = "cron", ![h].snapshot = TRUE]
       ELSE End(h) /\ UNCHANGED versions
    /\ UNCHANGED <<row, entry, nextId, revived, settled, savesLeft,
                   saveFaults>>
SnapshotInsert(h) ==
    /\ save[h].pc = "insert"
    /\ IF row.there /\ save[h].number \notin Numbers
       THEN /\ versions' = versions \cup
                   {[number |-> save[h].number, graph |-> save[h].copy.graph,
                     current |-> TRUE]}
            /\ save' = [save EXCEPT ![h].pc = "cron", ![h].snapshot = TRUE]
       ELSE End(h) /\ UNCHANGED versions
    /\ UNCHANGED <<row, entry, nextId, revived, settled, savesLeft,
                   saveFaults>>

\* The beat entry is looked up by the id the copy holds and, when the cron is
\* to be on, by its name.
CronFindById(h) ==             \* variant: the entry is not found by its name
    LET copy   == save[h].copy
        found  == IF copy.bound # NoId /\ entry.id = copy.bound THEN entry
                  ELSE NoEntry
        wanted == copy.on /\ copy.expr # Blank
    IN  /\ save[h].pc = "cron"
        /\ IF \/ wanted /\ copy.expr # BadExpr
              \/ ~wanted /\ found # NoEntry
           THEN /\ save' = [save EXCEPT ![h].pc = "entry", ![h].found = found]
                /\ UNCHANGED settled
           ELSE Finish(h)
        /\ UNCHANGED <<row, versions, entry, nextId, revived, savesLeft,
                       saveFaults>>
CronFind(h) ==
    LET copy   == save[h].copy
        byId   == IF copy.bound # NoId /\ entry.id = copy.bound THEN entry
                  ELSE NoEntry
        wanted == copy.on /\ copy.expr # Blank
        found  == IF wanted /\ byId = NoEntry THEN entry ELSE byId
    IN  /\ save[h].pc = "cron"
        /\ IF \/ wanted /\ copy.expr # BadExpr
              \/ ~wanted /\ found # NoEntry
           THEN /\ save' = [save EXCEPT ![h].pc = "entry", ![h].found = found]
                /\ UNCHANGED settled
           ELSE Finish(h)
        /\ UNCHANGED <<row, versions, entry, nextId, revived, savesLeft,
                       saveFaults>>

\* An entry found is saved in full (inserted again when it is gone), created
\* when none was found (its name is unique), disabled or deleted.
CronSave(h) ==                 \* task.save() with the new schedule, or off
    LET copy == save[h].copy
        found == save[h].found
    IN  /\ save[h].pc = "entry" /\ found # NoEntry /\ copy.expr # Blank
        /\ IF entry.id \notin {NoId, found.id}
           THEN Finish(h) /\ UNCHANGED entry
           ELSE /\ entry' = IF copy.on
                            THEN [found EXCEPT !.on = TRUE, !.expr = copy.expr]
                            ELSE [found EXCEPT !.on = FALSE]
                /\ IF copy.on /\ copy.bound = NoId
                   THEN Goto(h, "bind") /\ UNCHANGED settled
                   ELSE Finish(h)
        /\ UNCHANGED <<row, versions, nextId, revived, savesLeft, saveFaults>>
CronCreate(h) ==
    /\ save[h].pc = "entry" /\ save[h].found = NoEntry
    /\ IF entry # NoEntry
       THEN Finish(h) /\ UNCHANGED <<entry, nextId>>
       ELSE /\ entry' = [id |-> nextId, on |-> TRUE, expr |-> save[h].copy.expr]
            /\ UNCHANGED settled
            /\ nextId' = nextId + 1
            /\ save' = [save EXCEPT ![h].pc = "bind", ![h].found = entry']
    /\ UNCHANGED <<row, versions, revived, savesLeft, saveFaults>>
CronDelete(h) ==
    /\ save[h].pc = "entry" /\ save[h].found # NoEntry
    /\ save[h].copy.expr = Blank
    /\ entry' = IF entry.id = save[h].found.id THEN NoEntry ELSE entry
    /\ save' = [save EXCEPT ![h].pc = "bind", ![h].found = NoEntry]
    /\ UNCHANGED <<row, versions, nextId, revived, settled, savesLeft,
                   saveFaults>>

\* Pipeline.objects.filter(id=self.id).update(celery_periodic_task_id=...)
CronBind(h) ==
    /\ save[h].pc = "bind"
    /\ row' = IF row.there THEN [row EXCEPT !.bound = save[h].found.id]
              ELSE row
    /\ Finish(h)
    /\ UNCHANGED <<versions, entry, nextId, revived, savesLeft, saveFaults>>

\* The process dies.
SaveDies(h) ==
    /\ save[h].pc # "idle" /\ saveFaults > 0
    /\ saveFaults' = saveFaults - 1
    /\ End(h)
    /\ UNCHANGED <<row, versions, entry, nextId, revived, settled, savesLeft>>

Next ==
    \/ \E h \in Handler :
          \/ Update(h) \/ Rollback(h) \/ SaveRow(h)
          \/ SnapshotNumber(h) \/ SnapshotUnmark(h) \/ SnapshotInsert(h)
          \/ CronFind(h) \/ CronSave(h) \/ CronCreate(h) \/ CronDelete(h)
          \/ CronBind(h) \/ SaveDies(h)
    \/ Destroy

Spec == Init /\ [][Next]_vars

-----------------------------------------------------------------------------
(* Properties.                                                             *)

Version == [number : 1..MaxSaves, graph : Graph, current : BOOLEAN]
Entry   == [id : 0..MaxSaves, on : BOOLEAN, expr : Expr \cup {Blank}]
Save ==
    [pc : {"idle", "row", "number", "unmark", "insert", "cron", "entry",
           "bind"},
     copy : Rows, number : 0..MaxSaves, found : Entry,
     alone : BOOLEAN, snapshot : BOOLEAN]

VersionTypeOK ==
    /\ row \in Rows /\ versions \subseteq Version
    /\ entry \in Entry /\ nextId \in 1..(MaxSaves + 1)
    /\ save \in [Handler -> Save]
    /\ revived \in BOOLEAN /\ settled \in BOOLEAN
    /\ savesLeft \in 0..MaxSaves /\ saveFaults \in 0..SaveFaults

\* However many requests save a template at once, at most one version is
\* current and it is the latest one; and after a save that was alone it holds
\* the template's graph.  Code: save numbers, unmarks and inserts in three
\* statements without a lock, only (pipeline, version_number) is unique.  A
\* row deleted within a save and inserted again by it is excepted.
OneCurrent ==
    ~revived =>
        /\ \A v \in versions :
              v.current => \A w \in versions : w = v \/ w.number < v.number
        /\ settled /\ row.there =>
              \E v \in versions : v.current /\ v.graph = row.graph

\* Whatever lost updates did to the binding before, after a save that was
\* alone and left the cron on, the one beat entry is enabled with the
\* template's schedule.  Code: save looks the entry up by its name when the
\* id does not find it.
CronFollows ==
    settled /\ row.there /\ row.on /\ row.expr \in Expr =>
        entry.on /\ entry.expr = row.expr
=============================================================================
