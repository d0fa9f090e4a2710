----------------------------- MODULE DraftAssets -----------------------------
(***************************************************************************)
(* Drafts made by the analysis of alerts: a pipeline whose Ansible nodes   *)
(* refer to tasks that are reused by the hash of their content or created, *)
(* their promotion to manual assets, and the periodic clean-up of drafts   *)
(* older than seven days.                                                  *)
(***************************************************************************)
EXTENDS Integers, FiniteSets

CONSTANTS
    Task,        \* ids of Ansible tasks
    Draft,       \* ids of pipelines
    Content,     \* contents a node may have, up to their hash
    Promoter,    \* requests that promote
    MaxNodes     \* bound: Ansible nodes of a draft

VARIABLES
    task,        \* AnsibleTask rows: "absent", "ai" or "manual"; age; content
    draft,       \* Pipeline rows: type, age and the tasks their nodes name
    analysis,    \* the draft an analysis is building
    promotion,   \* promote requests
    edit,        \* a request that updates a task
    sweep,       \* cleanup_expired_ai_drafts: what its DELETE will remove
    kept         \* history: the tasks a pipeline had when it was promoted

vars == <<task, draft, analysis, promotion, edit, sweep, kept>>

NoTask     == [type |-> "absent", old |-> FALSE, content |-> "none"]
NoDraft    == [type |-> "absent", old |-> FALSE, uses |-> {}]
NoAnalysis == [pc |-> "idle", uses |-> {}, nodes |-> 0, content |-> "none"]
NotAsked   == [pc |-> "idle", draft |-> "none", uses |-> {}]
NoEdit     == [task |-> "none", row |-> NoTask]
NoSweep    == [pc |-> "idle", doomed |-> {}]

Rows(t) == task[t].type # "absent"

\* A user may have written tasks before.
Init ==
    /\ task \in [Task -> {NoTask} \cup
                         {[type |-> "manual", old |-> TRUE, content |-> c] :
                              c \in Content}]
    /\ \E free \in Task : ~Rows(free)
    /\ draft = [d \in Draft |-> NoDraft]
    /\ analysis = NoAnalysis
    /\ promotion = [p \in Promoter |-> NotAsked]
    /\ edit = NoEdit /\ sweep = NoSweep
    /\ kept = [d \in Draft |-> {}]

-----------------------------------------------------------------------------
(* analyze_alert_event: __PIPELINE_DRAFT__.                                *)

DraftBegin ==
    /\ analysis.pc = "idle"
    /\ \E n \in 0..MaxNodes :
          analysis' = [NoAnalysis EXCEPT !.pc = "node", !.nodes = n]
    /\ UNCHANGED <<task, draft, promotion, edit, sweep, kept>>

\* A node that names a task that exists keeps it; a node with a playbook, a
\* command, a file name or nothing gets a content.
KnownTask ==
    /\ analysis.pc = "node" /\ analysis.nodes > 0
    /\ \E t \in Task :
          /\ Rows(t)
          /\ analysis' = [analysis EXCEPT !.nodes = @ - 1,
                                          !.uses = @ \cup {t}]
    /\ UNCHANGED <<task, draft, promotion, edit, sweep, kept>>
NodeContent ==
    /\ analysis.pc = "node" /\ analysis.nodes > 0
    /\ \E c \in Content :
          analysis' = [analysis EXCEPT !.pc = "task", !.content = c]
    /\ UNCHANGED <<task, draft, promotion, edit, sweep, kept>>

\* Any task with the same content is reused, also a draft of another alert;
\* else a new one is created as 'ai'.
ReuseTask ==
    /\ analysis.pc = "task"
    /\ \E t \in Task :
          /\ Rows(t) /\ task[t].content = analysis.content
          /\ analysis' = [analysis EXCEPT !.pc = "node", !.nodes = @ - 1,
                                          !.uses = @ \cup {t}]
    /\ UNCHANGED <<task, draft, promotion, edit, sweep, kept>>
CreateTask ==
    /\ analysis.pc = "task"
    /\ \A t \in Task : ~(Rows(t) /\ task[t].content = analysis.content)
    /\ \E t \in Task :
          /\ task[t] = NoTask
          /\ \A d \in Draft : t \notin draft[d].uses \cup kept[d]
          /\ t \notin analysis.uses /\ t \notin sweep.doomed /\ t # edit.task
          /\ \A p \in Promoter : t \notin promotion[p].uses
          /\ task' = [task EXCEPT ![t] = [type |-> "ai", old |-> FALSE,
                                          content |-> analysis.content]]
          /\ analysis' = [analysis EXCEPT !.pc = "node", !.nodes = @ - 1,
                                          !.uses = @ \cup {t}]
    /\ UNCHANGED <<draft, promotion, edit, sweep, kept>>

\* An exception leaves the tasks made so far and no pipeline.
DraftFails ==
    /\ analysis.pc # "idle" /\ analysis' = NoAnalysis
    /\ UNCHANGED <<task, draft, promotion, edit, sweep, kept>>
CreateDraft ==
    /\ analysis.pc = "node" /\ analysis.nodes = 0
    /\ \E d \in Draft :
          /\ draft[d] = NoDraft /\ d \notin sweep.doomed
          /\ \A p \in Promoter : promotion[p].draft # d
          /\ draft' = [draft EXCEPT ![d] = [type |-> "ai", old |-> FALSE,
                                            uses |-> analysis.uses]]
    /\ analysis' = NoAnalysis
    /\ UNCHANGED <<task, promotion, edit, sweep, kept>>

-----------------------------------------------------------------------------
(* PipelineViewSet.promote: the draft is read before the transaction.      *)

PromoteRead(p) ==
    /\ promotion[p].pc = "idle"
    /\ \E d \in Draft :
          /\ draft[d].type = "ai"
          /\ promotion' = [promotion EXCEPT ![p] =
                             [pc |-> "commit", draft |-> d,
                              uses |-> draft[d].uses]]
    /\ UNCHANGED <<task, draft, analysis, edit, sweep, kept>>

\* The transaction: the pipeline is saved in full as 'manual' (inserted again
\* when it was deleted since), and each of its tasks that still exists and is
\* 'ai' becomes 'manual' under a row lock.
Promoted(d, uses) ==
    /\ draft' = [draft EXCEPT ![d] = [type |-> "manual", old |-> @.old,
                                      uses |-> uses]]
    /\ kept' = [kept EXCEPT ![d] =
                  {t \in uses : Rows(t) /\ t \notin sweep.doomed /\ t # edit.task}]
PromoteCommitAlone(p) ==       \* variant: the tasks stay 'ai'
    /\ promotion[p].pc = "commit"
    /\ Promoted(promotion[p].draft, promotion[p].uses)
    /\ promotion' = [promotion EXCEPT ![p] = NotAsked]
    /\ UNCHANGED <<task, analysis, edit, sweep>>
PromoteCommit(p) ==
    /\ promotion[p].pc = "commit"
    /\ Promoted(promotion[p].draft, promotion[p].uses)
    /\ task' = [t \in Task |->
                  IF t \in promotion[p].uses /\ task[t].type = "ai"
                  THEN [task[t] EXCEPT !.type = "manual"] ELSE task[t]]
    /\ promotion' = [promotion EXCEPT ![p] = NotAsked]
    /\ UNCHANGED <<analysis, edit, sweep>>

-----------------------------------------------------------------------------
(* Users and time.                                                         *)

\* AnsibleTaskViewSet.update reads the row, and saves all of it.
EditRead ==
    /\ edit.task = "none"
    /\ \E t \in Task, c \in Content :
          Rows(t) /\ edit' = [task |-> t, row |-> [task[t] EXCEPT !.content = c]]
    /\ UNCHANGED <<task, draft, analysis, promotion, sweep, kept>>
EditSave ==
    /\ edit.task # "none"
    /\ task' = [task EXCEPT ![edit.task] = edit.row]
    /\ edit' = NoEdit
    /\ UNCHANGED <<draft, analysis, promotion, sweep, kept>>
DestroyTask(t) ==
    /\ Rows(t) /\ task' = [task EXCEPT ![t] = NoTask]
    /\ kept' = [d \in Draft |-> kept[d] \ {t}]
    /\ UNCHANGED <<draft, analysis, promotion, edit, sweep>>

\* Seven days pass for a draft, or for a task.
TurnOld ==
    /\ \/ /\ \E d \in Draft : /\ draft[d].type = "ai"
                              /\ draft' = [draft EXCEPT ![d].old = TRUE]
          /\ UNCHANGED task
       \/ /\ \E t \in Task : /\ task[t].type = "ai"
                             /\ task' = [task EXCEPT ![t].old = TRUE]
          /\ UNCHANGED draft
    /\ UNCHANGED <<analysis, promotion, edit, sweep, kept>>

-----------------------------------------------------------------------------
(* cleanup_expired_ai_drafts: QuerySet.delete collects the rows with one   *)
(* query and deletes them by their ids with another.                       *)

CollectDrafts ==
    /\ sweep.pc = "idle"
    /\ sweep' = [pc |-> "drafts",
                 doomed |-> {d \in Draft : draft[d].type = "ai"
                                           /\ draft[d].old}]
    /\ UNCHANGED <<task, draft, analysis, promotion, edit, kept>>
DeleteDrafts ==
    /\ sweep.pc = "drafts"
    /\ draft' = [d \in Draft |-> IF d \in sweep.doomed THEN NoDraft
                                 ELSE draft[d]]
    /\ kept' = [d \in Draft |-> IF d \in sweep.doomed THEN {} ELSE kept[d]]
    /\ sweep' = [pc |-> "between", doomed |-> {}]
    /\ UNCHANGED <<task, analysis, promotion, edit>>
CollectTasks ==
    /\ sweep.pc = "between"
    /\ sweep' = [pc |-> "tasks",
                 doomed |-> {t \in Task : task[t].type = "ai" /\ task[t].old}]
    /\ UNCHANGED <<task, draft, analysis, promotion, edit, kept>>
DeleteTasks ==
    /\ sweep.pc = "tasks"
    /\ task' = [t \in Task |-> IF t \in sweep.doomed THEN NoTask ELSE task[t]]
    /\ sweep' = NoSweep
    /\ UNCHANGED <<draft, analysis, promotion, edit, kept>>

Next ==
    \/ DraftBegin \/ KnownTask \/ NodeContent \/ ReuseTask \/ CreateTask
    \/ DraftFails \/ CreateDraft
    \/ \E p \in Promoter : PromoteRead(p) \/ PromoteCommit(p)
    \/ EditRead \/ EditSave \/ TurnOld
    \/ \E t \in Task : DestroyTask(t)
    \/ CollectDrafts \/ DeleteDrafts \/ CollectTasks \/ DeleteTasks

Spec == Init /\ [][Next]_vars

-----------------------------------------------------------------------------
(* Properties.                                                             *)

TaskRow == [type : {"absent", "ai", "manual"}, old : BOOLEAN,
            content : Content \cup {"none"}]
DraftTypeOK ==
    /\ task \in [Task -> TaskRow]
    /\ draft \in [Draft -> [type : {"absent", "ai", "manual"}, old : BOOLEAN,
                            uses : SUBSET Task]]
    /\ analysis \in [pc : {"idle", "node", "task"}, uses : SUBSET Task,
                     nodes : 0..MaxNodes, content : Content \cup {"none"}]
    /\ promotion \in [Promoter -> [pc : {"idle", "commit"},
                                   draft : Draft \cup {"none"},
                                   uses : SUBSET Task]]
    /\ edit \in [task : Task \cup {"none"}, row : TaskRow]
    /\ sweep \in [pc : {"idle", "drafts", "between", "tasks"},
                  doomed : SUBSET (Task \cup Draft)]
    /\ kept \in [Draft -> SUBSET Task]

\* The clean-up never takes a task away from a promoted pipeline, however many
\* drafts share the task.  Excepted are the tasks that, when the promotion
\* committed, a clean-up had collected or an edit was about to save in full.
\* Code: promote turns the tasks of the graph into 'manual' in the transaction
\* that promotes the pipeline; the clean-up deletes by create_type and age.
PromotedKept ==
    \A d \in Draft : \A t \in kept[d] : task[t].type = "manual"
=============================================================================
