--------------------------- MODULE PipelineEngine ---------------------------
(***************************************************************************)
(* One pipeline run of apps/pipeline_management: the DAG engine            *)
(* (advance_pipeline_engine), the node executor (execute_pipeline_node),   *)
(* the stop handler and the node approval handler, interleaved at the      *)
(* granularity of their database accesses.                                 *)
(*                                                                         *)
(* Celery tasks run on workers.  A task reads ORM objects once and writes  *)
(* them back later without a lock, so every worker (and every HTTP         *)
(* handler) keeps the copy it read.  A message is acknowledged when its    *)
(* task starts: a task that dies is not run again, but a message that has  *)
(* waited in a worker for longer than the broker's visibility timeout is   *)
(* delivered again.                                                        *)
(***************************************************************************)
EXTENDS Integers, FiniteSets

CONSTANTS
    Node,        \* node ids that can have a PipelineNodeRun row
    Templates,   \* graphs a pipeline template may have: [nodes, edges]
    Yamls,       \* graphs .ansflow-ci.yml of a cloned repository may parse to
    Approval,    \* nodes of type 'approval'
    Clone,       \* nodes of type 'git_clone' whose repository has the YAML
    MaxRetries,  \* max_retries of each node's config in the template
    RetryFrom,   \* start nodes of the retry runs to consider
    Worker,      \* worker processes of the Celery pool
    Approver,    \* HTTP handlers of the approve endpoint
    MaxStops,    \* bound: accepted calls of the stop endpoint
    MaxFaults,   \* bound: tasks, handlers or messages lost
    MaxDoubles   \* bound: messages delivered once more

CONSTANTS NoGraph, NoNode, NoWorker

Graph == [nodes : SUBSET Node, edges : SUBSET (Node \X Node)]

ASSUME GraphAssumption ==
    /\ Templates \subseteq Graph
    /\ Yamls \subseteq Graph
    /\ NoGraph \notin Graph

ASSUME NodeAssumption ==
    /\ Approval \subseteq Node
    /\ Clone \subseteq Node
    /\ RetryFrom \subseteq Node
    /\ MaxRetries \in [Node -> Nat]
    /\ NoNode \notin Node

ASSUME ActorAssumption ==
    /\ NoWorker \notin Worker
    /\ MaxStops \in Nat
    /\ MaxFaults \in Nat
    /\ MaxDoubles \in Nat

VARIABLES
    template,   \* Pipeline row: the template's graph_data, not edited meanwhile
    run,        \* PipelineRun row: status and graph_data
    node,       \* PipelineNodeRun rows: status and retry_count
    ids,        \* celery_task_id columns, as the worker still running the task
    engineQ,    \* queued advance_pipeline_engine messages
    nodeQ,      \* queued execute_pipeline_node messages, per node
    pc,         \* per worker: where its task is
    job,        \* per worker: the node an execute_pipeline_node works on
    seenRun,    \* per worker: the PipelineRun object it holds
    seenNode,   \* per worker: the PipelineNodeRun objects it holds
    todo,       \* per worker: ready nodes the engine has still to dispatch
    doomed,     \* workers a revoke(terminate=True) has been sent to
    stop,       \* the stop handler: pc, copies it holds, nodes left
    approval,   \* per approver: the node it answers and the object it holds
    stopsLeft, faultsLeft,
    begun,      \* history: nodes ever dispatched
    done        \* history: nodes ever 'success' or 'skipped'

rows  == <<run, node, ids>>
local == <<pc, job, seenRun, seenNode, todo>>
vars  == <<template, run, node, ids, engineQ, nodeQ, pc, job, seenRun,
           seenNode, todo, doomed, stop, approval, stopsLeft, faultsLeft,
           begun, done>>

-----------------------------------------------------------------------------
(* Rows and graphs.                                                        *)

RunStatus  == {"pending", "running", "success", "failed", "cancelled"}
FinalButCancelled == {"success", "failed"}              \* variant of Final
Final      == {"success", "failed", "cancelled"}
NodeStatus == {"absent", "pending", "waiting", "running", "success",
               "failed", "skipped", "cancelled"}
Passed     == {"success", "skipped"}

RunRow  == [status : RunStatus, graph : {NoGraph} \cup Templates \cup Yamls]
NodeRow == [status : NodeStatus, retries : Nat]
Ids     == [brain : Worker \cup {NoWorker},
            node  : [Node -> Worker \cup {NoWorker}]]

Absent   == [status |-> "absent", retries |-> 0]
NoRun    == [status |-> "pending", graph |-> NoGraph]
NoNodes  == [n \in Node |-> Absent]
NoIds    == [brain |-> NoWorker, node |-> [n \in Node |-> NoWorker]]
StopIdle == [pc |-> "idle", run |-> NoRun, node |-> NoNodes,
             ids |-> NoIds, todo |-> {}]
NoAnswer == [pc |-> "idle", node |-> NoNode, row |-> Absent]

Upstream(g, n) == {m \in Node : <<m, n>> \in g.edges}

\* get_ancestors: everything a backward walk from n reaches, n excluded.
Closed(g, S) == \A m \in S : Upstream(g, m) \subseteq S
Reached(g, n) ==
    {m \in Node : \A S \in SUBSET Node : n \in S /\ Closed(g, S) => m \in S}
Ancestors(g, n) == Reached(g, n) \ {n}

\* What the engine derives from the rows it holds.
ReadyAny(g, ns) ==       \* variant: one passed upstream node is enough
    {n \in Node : /\ ns[n].status = "pending"
                  /\ \/ Upstream(g, n) = {}
                     \/ \E m \in Upstream(g, n) : ns[m].status \in Passed}
ReadyOver(g, ns) ==      \* variant: a failed upstream node is over, too
    {n \in Node : /\ ns[n].status = "pending"
                  /\ \A m \in Upstream(g, n) :
                        ns[m].status \in Passed \cup {"failed"}}
Ready(g, ns) ==
    {n \in Node : /\ ns[n].status = "pending"
                  /\ \A m \in Upstream(g, n) : ns[m].status \in Passed}
HasStatus(ns, S) == \E n \in Node : ns[n].status \in S
VerdictNoFailed(ns) ==   \* variant: failed rows are not looked at
    IF HasStatus(ns, {"pending"}) /\ ~HasStatus(ns, {"cancelled"})
    THEN "failed"
    ELSE IF HasStatus(ns, {"cancelled"}) THEN "cancelled" ELSE "success"
VerdictNoPending(ns) ==  \* variant: blocked rows are not looked at
    IF HasStatus(ns, {"failed"}) THEN "failed"
    ELSE IF HasStatus(ns, {"cancelled"}) THEN "cancelled" ELSE "success"
Verdict(ns) ==
    IF \/ HasStatus(ns, {"failed"})
       \/ HasStatus(ns, {"pending"}) /\ ~HasStatus(ns, {"cancelled"})
    THEN "failed"
    ELSE IF HasStatus(ns, {"cancelled"}) THEN "cancelled" ELSE "success"

PassedIn(ns) == {n \in Node : ns[n].status \in Passed}

\* A task that has ended can no longer be killed through its task id.
Forget(tid, w) ==
    [brain |-> IF tid.brain = w THEN NoWorker ELSE tid.brain,
     node  |-> [n \in Node |-> IF tid.node[n] = w THEN NoWorker
                               ELSE tid.node[n]]]

-----------------------------------------------------------------------------
(* A run is created by execute, trigger or execute_pipeline_cron without   *)
(* node rows, or by retry with the ancestors of the start node 'skipped'.  *)

RetryNodes(s) ==
    [n \in Node |->
        [status  |-> IF n \notin template.nodes THEN "absent"
                     ELSE IF n \in Ancestors(template, s) THEN "skipped" ELSE "pending",
         retries |-> 0]]

Init ==
    /\ template \in Templates
    /\ run = NoRun
    /\ node \in {NoNodes} \cup
               {RetryNodes(s) : s \in RetryFrom \cap template.nodes}
    /\ ids = NoIds
    /\ engineQ = 1
    /\ nodeQ = [n \in Node |-> 0]
    /\ pc = [w \in Worker |-> "idle"]
    /\ job = [w \in Worker |-> NoNode]
    /\ seenRun = [w \in Worker |-> NoRun]
    /\ seenNode = [w \in Worker |-> NoNodes]
    /\ todo = [w \in Worker |-> {}]
    /\ doomed = {}
    /\ stop = StopIdle
    /\ approval = [a \in Approver |-> NoAnswer]
    /\ stopsLeft \in 0..MaxStops
    /\ faultsLeft \in [lost : 0..MaxFaults, doubled : 0..MaxDoubles]
    /\ begun = {}
    /\ done = PassedIn(node)

\* Worker w is through with its task.
EndTaskWith(w, tid) ==
    /\ pc' = [pc EXCEPT ![w] = "idle"]
    /\ job' = [job EXCEPT ![w] = NoNode]
    /\ seenRun' = [seenRun EXCEPT ![w] = NoRun]
    /\ seenNode' = [seenNode EXCEPT ![w] = NoNodes]
    /\ todo' = [todo EXCEPT ![w] = {}]
    /\ ids' = Forget(tid, w)
    /\ stop' = [stop EXCEPT !.ids = Forget(stop.ids, w)]
    /\ doomed' = doomed \ {w}
EndTask(w) == EndTaskWith(w, ids)

-----------------------------------------------------------------------------
(* advance_pipeline_engine                                                 *)

\* The run is read and the task id saved; a final run ends the task.
AdvanceBegin(w) ==
    /\ pc[w] = "idle" /\ engineQ > 0
    /\ engineQ' = engineQ - 1
    /\ IF run.status \in Final
       THEN /\ ids' = [ids EXCEPT !.brain = NoWorker]
            /\ UNCHANGED <<pc, seenRun>>
       ELSE /\ ids' = [ids EXCEPT !.brain = w]
            /\ pc' = [pc EXCEPT ![w] = "read"]
            /\ seenRun' = [seenRun EXCEPT ![w] = run]
    /\ UNCHANGED <<template, run, node, nodeQ, job, seenNode, todo, doomed,
                   stop, approval, stopsLeft, faultsLeft, begun, done>>

GraphOfTemplate(w) == template                 \* variant of GraphOf
GraphOf(w) == IF seenRun[w].graph = NoGraph THEN template
              ELSE seenRun[w].graph
SnapshotGraph(w) ==
    run' = [run EXCEPT !.graph = IF seenRun[w].graph = NoGraph
                                 THEN template ELSE @]

\* A graph without nodes fails the run at once.
AdvanceEmpty(w) ==
    /\ pc[w] = "read" /\ GraphOf(w).nodes = {}
    /\ run' = [status |-> "failed",
               graph  |-> IF seenRun[w].graph = NoGraph
                          THEN template ELSE run.graph]
    /\ EndTask(w)
    /\ UNCHANGED <<template, node, engineQ, nodeQ, approval, stopsLeft,
                   faultsLeft, begun, done>>

\* Missing rows are created 'pending', then all rows are read.
AdvanceLoad(w) ==
    /\ pc[w] = "read" /\ GraphOf(w).nodes # {}
    /\ SnapshotGraph(w)
    /\ seenRun' = [seenRun EXCEPT ![w].graph = GraphOf(w)]
    /\ node' = [n \in Node |->
                  IF n \in GraphOf(w).nodes /\ node[n].status = "absent"
                  THEN [node[n] EXCEPT !.status = "pending"] ELSE node[n]]
    /\ seenNode' = [seenNode EXCEPT ![w] = node']
    /\ pc' = [pc EXCEPT ![w] = "loaded"]
    /\ UNCHANGED <<template, ids, engineQ, nodeQ, job, todo, doomed, stop,
                   approval, stopsLeft, faultsLeft, begun, done>>

\* A run read as 'pending' is saved as 'running'; then the rows are judged.
AdvanceJudge(w) ==
    LET ready == Ready(seenRun[w].graph, seenNode[w])
    IN  /\ pc[w] = "loaded"
        /\ run' = IF seenRun[w].status = "pending"
                  THEN [run EXCEPT !.status = "running"] ELSE run
        /\ IF ready = {} /\ HasStatus(seenNode[w], {"running", "waiting"})
           THEN EndTask(w)
           ELSE /\ pc' = [pc EXCEPT ![w] = IF ready # {} THEN "dispatch"
                                           ELSE "finalize"]
                /\ todo' = [todo EXCEPT ![w] = ready]
                /\ UNCHANGED <<ids, job, seenRun, seenNode, stop, doomed>>
        /\ UNCHANGED <<template, node, engineQ, nodeQ, approval, stopsLeft,
                       faultsLeft, begun, done>>

\* The row of one ready node is saved and, unless it is an approval, its
\* task queued.
AdvanceDispatch(w, n) ==
    /\ pc[w] = "dispatch" /\ n \in todo[w]
    /\ node' = [node EXCEPT ![n].status = IF n \in Approval THEN "waiting"
                                          ELSE "running"]
    /\ nodeQ' = IF n \in Approval THEN nodeQ ELSE [nodeQ EXCEPT ![n] = @ + 1]
    /\ begun' = begun \cup {n}
    /\ IF todo[w] = {n}
       THEN EndTask(w)
       ELSE /\ todo' = [todo EXCEPT ![w] = @ \ {n}]
            /\ UNCHANGED <<ids, pc, job, seenRun, seenNode, stop, doomed>>
    /\ UNCHANGED <<template, run, engineQ, approval, stopsLeft, faultsLeft,
                   done>>

\* Nothing ready and nothing active: the run gets its verdict.
AdvanceFinalize(w) ==
    /\ pc[w] = "finalize"
    /\ run' = [run EXCEPT !.status = Verdict(seenNode[w])]
    /\ EndTask(w)
    /\ UNCHANGED <<template, node, engineQ, nodeQ, approval, stopsLeft,
                   faultsLeft, begun, done>>

\* Any exception in the engine marks the run failed.
AdvanceFault(w) ==
    /\ pc[w] \in {"read", "loaded", "dispatch", "finalize"}
    /\ faultsLeft.lost > 0
    /\ faultsLeft' = [faultsLeft EXCEPT !.lost = @ - 1]
    /\ run' = [run EXCEPT !.status = "failed"]
    /\ EndTask(w)
    /\ UNCHANGED <<template, node, engineQ, nodeQ, approval, stopsLeft, begun,
                   done>>

\* A row is saved but its message is not queued: the broker refuses it, an
\* exception in the engine, or the worker dies between the two.
AdvanceLost(w, n) ==
    /\ pc[w] = "dispatch" /\ n \in todo[w] \ Approval /\ faultsLeft.lost > 0
    /\ faultsLeft' = [faultsLeft EXCEPT !.lost = @ - 1]
    /\ node' = [node EXCEPT ![n].status = "running"]
    /\ begun' = begun \cup {n}
    /\ \/ run' = [run EXCEPT !.status = "failed"]
       \/ UNCHANGED run
    /\ EndTask(w)
    /\ UNCHANGED <<template, engineQ, nodeQ, approval, stopsLeft, done>>

-----------------------------------------------------------------------------
(* execute_pipeline_node                                                   *)

\* The node row is read, then the status of its run.
NodeBegin(w, n) ==
    /\ pc[w] = "idle" /\ nodeQ[n] > 0
    /\ nodeQ' = [nodeQ EXCEPT ![n] = @ - 1]
    /\ job' = [job EXCEPT ![w] = n]
    /\ seenRun' = [seenRun EXCEPT ![w].status = run.status]
    /\ seenNode' = [seenNode EXCEPT ![w][n] = node[n]]
    /\ pc' = [pc EXCEPT ![w] = IF run.status = "cancelled" THEN "refuse"
                               ELSE "start"]
    /\ UNCHANGED <<template, rows, engineQ, todo, doomed, stop, approval,
                   stopsLeft, faultsLeft, begun, done>>

\* node_run.save(): every column of the object worker w holds is written.
SaveNode(w, row) ==
    /\ node' = [node EXCEPT ![job[w]] = row]
    /\ done' = done \cup (IF row.status \in Passed THEN {job[w]} ELSE {})

Held(w) == seenNode[w][job[w]]

\* The run was cancelled: the node fails and the engine is not called.
NodeRefuse(w) ==
    /\ pc[w] = "refuse"
    /\ SaveNode(w, [Held(w) EXCEPT !.status = "failed"])
    /\ EndTask(w)
    /\ UNCHANGED <<template, run, engineQ, nodeQ, approval, stopsLeft,
                   faultsLeft, begun>>

NodeStart(w) ==
    LET row == [Held(w) EXCEPT !.status = "running"]
    IN  /\ pc[w] = "start"
        /\ SaveNode(w, row)
        /\ ids' = [ids EXCEPT !.node[job[w]] = w]
        /\ seenNode' = [seenNode EXCEPT ![w][job[w]] = row]
        /\ pc' = [pc EXCEPT ![w] = "work"]
        /\ UNCHANGED <<template, run, engineQ, nodeQ, job, seenRun, todo,
                       doomed, stop, approval, stopsLeft, faultsLeft, begun>>

\* Some branches save the whole row again in the middle of their work.
NodeSave(w) ==
    /\ pc[w] = "work"
    /\ SaveNode(w, Held(w))
    /\ ids' = [ids EXCEPT !.node[job[w]] = w]
    /\ UNCHANGED <<template, run, engineQ, nodeQ, local, doomed, stop,
                   approval, stopsLeft, faultsLeft, begun>>

\* git_clone found and parsed .ansflow-ci.yml: it replaces the run's graph.
NodeSyncYaml(w, yaml) ==
    /\ pc[w] = "work" /\ job[w] \in Clone
    /\ run' = [run EXCEPT !.graph = yaml]
    /\ pc' = [pc EXCEPT ![w] = "synced"]
    /\ UNCHANGED <<template, node, ids, engineQ, nodeQ, job, seenRun,
                   seenNode, todo, doomed, stop, approval, stopsLeft,
                   faultsLeft, begun, done>>

\* The outcome is saved; a failure with retries left is then retried.
NodeFinish(w, outcome) ==
    LET row == [Held(w) EXCEPT !.status = outcome]
        allowed == IF job[w] \in template.nodes THEN MaxRetries[job[w]] ELSE 0
    IN  /\ pc[w] \in {"work", "synced"}
        /\ SaveNode(w, row)
        /\ ids' = [ids EXCEPT !.node[job[w]] = w]
        /\ seenNode' = [seenNode EXCEPT ![w][job[w]] = row]
        /\ pc' = [pc EXCEPT
                    ![w] = IF outcome = "failed" /\ row.retries < allowed
                           THEN "retry" ELSE "notify"]
        /\ UNCHANGED <<template, run, engineQ, nodeQ, job, seenRun, todo,
                       doomed, stop, approval, stopsLeft, faultsLeft, begun>>

\* The row goes back to 'running' and the task is queued again.
NodeRetry(w) ==
    /\ pc[w] = "retry"
    /\ SaveNode(w, [status |-> "running", retries |-> Held(w).retries + 1])
    /\ nodeQ' = [nodeQ EXCEPT ![job[w]] = @ + 1]
    /\ EndTaskWith(w, [ids EXCEPT !.node[job[w]] = w])
    /\ UNCHANGED <<template, run, engineQ, approval, stopsLeft, faultsLeft,
                   begun>>

\* The row is saved as 'running' but its message is not queued.
RetryLost(w) ==
    /\ pc[w] = "retry" /\ faultsLeft.lost > 0
    /\ faultsLeft' = [faultsLeft EXCEPT !.lost = @ - 1]
    /\ SaveNode(w, [status |-> "running", retries |-> Held(w).retries + 1])
    /\ EndTaskWith(w, [ids EXCEPT !.node[job[w]] = w])
    /\ UNCHANGED <<template, run, engineQ, nodeQ, approval, stopsLeft, begun>>

\* The node is over, whatever its outcome: the engine is called.
NodeNotifySuccess(w) ==        \* variant: only a success calls the engine
    /\ pc[w] = "notify"
    /\ engineQ' = IF Held(w).status = "success" THEN engineQ + 1 ELSE engineQ
    /\ EndTask(w)
    /\ UNCHANGED <<template, run, node, nodeQ, approval, stopsLeft,
                   faultsLeft, begun, done>>
NodeNotifyTwice(w) ==          \* variant: called on saving and on leaving
    /\ pc[w] = "notify"
    /\ engineQ' = engineQ + 2
    /\ EndTask(w)
    /\ UNCHANGED <<template, run, node, nodeQ, approval, stopsLeft,
                   faultsLeft, begun, done>>
NodeNotify(w) ==
    /\ pc[w] = "notify"
    /\ engineQ' = engineQ + 1
    /\ EndTask(w)
    /\ UNCHANGED <<template, run, node, nodeQ, approval, stopsLeft,
                   faultsLeft, begun, done>>

\* The task dies: killed by a revoke, or by a crash or an exception outside
\* the executor's try block.
TaskDies(w) ==
    /\ pc[w] # "idle"
    /\ \/ w \in doomed /\ UNCHANGED faultsLeft
       \/ /\ faultsLeft.lost > 0
          /\ faultsLeft' = [faultsLeft EXCEPT !.lost = @ - 1]
    /\ EndTask(w)
    /\ UNCHANGED <<template, run, node, engineQ, nodeQ, approval, stopsLeft,
                   begun, done>>

\* A message that waits for a busy worker is delivered once more.
Redeliver ==
    /\ faultsLeft.doubled > 0
    /\ faultsLeft' = [faultsLeft EXCEPT !.doubled = @ - 1]
    /\ \/ engineQ > 0 /\ engineQ' = engineQ + 1 /\ UNCHANGED nodeQ
       \/ \E n \in Node : /\ nodeQ[n] > 0
                          /\ nodeQ' = [nodeQ EXCEPT ![n] = @ + 1]
                          /\ UNCHANGED engineQ
    /\ UNCHANGED <<template, rows, local, doomed, stop, approval, stopsLeft,
                   begun, done>>

-----------------------------------------------------------------------------
(* PipelineRunViewSet.stop                                                 *)

StopBegin ==
    /\ stop.pc = "idle" /\ stopsLeft > 0
    /\ run.status \in {"pending", "running"}
    /\ stopsLeft' = stopsLeft - 1
    /\ stop' = [stop EXCEPT !.pc = "read", !.run = run,
                            !.ids = [ids EXCEPT !.node = NoIds.node]]
    /\ UNCHANGED <<template, rows, engineQ, nodeQ, local, doomed, approval,
                   faultsLeft, begun, done>>

\* run.save() writes every column of the object read, the engine's task is
\* revoked.
StopMark ==
    /\ stop.pc = "read"
    /\ run' = [status |-> "cancelled", graph |-> stop.run.graph]
    /\ ids' = [ids EXCEPT !.brain = stop.ids.brain]
    /\ doomed' = doomed \cup ({stop.ids.brain} \ {NoWorker})
    /\ stop' = [stop EXCEPT !.pc = "marked", !.run = NoRun,
                            !.ids.brain = NoWorker]
    /\ UNCHANGED <<template, node, engineQ, nodeQ, local, approval, stopsLeft,
                   faultsLeft, begun, done>>

\* The rows that are not final are read in one query.
StopList ==
    LET listed == {n \in Node : node[n].status \notin
                                  {"absent", "success", "failed", "skipped"}}
    IN  /\ stop.pc = "marked"
        /\ stop' = IF listed = {} THEN StopIdle
                   ELSE [stop EXCEPT
                           !.pc = "listed", !.todo = listed,
                           !.node = [n \in Node |-> IF n \in listed THEN node[n]
                                                    ELSE Absent],
                           !.ids.node = [n \in Node |-> IF n \in listed
                                           THEN ids.node[n] ELSE NoWorker]]
        /\ UNCHANGED <<template, rows, engineQ, nodeQ, local, doomed,
                       approval, stopsLeft, faultsLeft, begun, done>>

\* A running node's task is revoked, the row saved as 'cancelled'.
StoppedRow(row) == [row EXCEPT !.status = "cancelled"]
StopNode(n) ==
    /\ stop.pc = "listed" /\ n \in stop.todo
    /\ doomed' = doomed \cup (IF stop.node[n].status = "running"
                              THEN {stop.ids.node[n]} \ {NoWorker} ELSE {})
    /\ node' = [node EXCEPT ![n] = StoppedRow(stop.node[n])]
    /\ ids' = [ids EXCEPT !.node[n] = stop.ids.node[n]]
    /\ stop' = IF stop.todo = {n} THEN StopIdle
               ELSE [stop EXCEPT !.todo = @ \ {n}]
    /\ UNCHANGED <<template, run, engineQ, nodeQ, local, approval, stopsLeft,
                   faultsLeft, begun, done>>

\* The handler breaks off: the process dies, the broker refuses a revoke or
\* the Ansible query raises; what is saved stays saved.
StopFault ==
    /\ stop.pc # "idle" /\ faultsLeft.lost > 0
    /\ faultsLeft' = [faultsLeft EXCEPT !.lost = @ - 1]
    /\ stop' = StopIdle
    /\ UNCHANGED <<template, rows, engineQ, nodeQ, local, doomed, approval,
                   stopsLeft, begun, done>>

-----------------------------------------------------------------------------
(* PipelineNodeRunViewSet.approve                                          *)

ApproveBegin(a, n) ==
    /\ approval[a].pc = "idle" /\ node[n].status = "waiting"
    /\ approval' = [approval EXCEPT ![a] = [pc |-> "read", node |-> n,
                                            row |-> node[n]]]
    /\ UNCHANGED <<template, rows, engineQ, nodeQ, local, doomed, stop,
                   stopsLeft, faultsLeft, begun, done>>

ApproveSave(a, outcome) ==
    LET n == approval[a].node
    IN  /\ approval[a].pc = "read"
        /\ node' = [node EXCEPT
                      ![n] = [approval[a].row EXCEPT !.status = outcome]]
        /\ done' = done \cup (IF outcome = "success" THEN {n} ELSE {})
        /\ approval' = [approval EXCEPT ![a] = [NoAnswer EXCEPT !.pc = "saved"]]
        /\ UNCHANGED <<template, run, ids, engineQ, nodeQ, local, doomed,
                       stop, stopsLeft, faultsLeft, begun>>

ApproveAdvance(a) ==
    /\ approval[a].pc = "saved"
    /\ engineQ' = engineQ + 1
    /\ approval' = [approval EXCEPT ![a] = NoAnswer]
    /\ UNCHANGED <<template, rows, nodeQ, local, doomed, stop, stopsLeft,
                   faultsLeft, begun, done>>

\* The broker refuses the message or the process dies after the save.
ApproveFault(a) ==
    /\ approval[a].pc = "saved" /\ faultsLeft.lost > 0
    /\ faultsLeft' = [faultsLeft EXCEPT !.lost = @ - 1]
    /\ approval' = [approval EXCEPT ![a] = NoAnswer]
    /\ UNCHANGED <<template, rows, engineQ, nodeQ, local, doomed, stop,
                   stopsLeft, begun, done>>

-----------------------------------------------------------------------------
EngineStep(w) ==
    \/ AdvanceBegin(w) \/ AdvanceEmpty(w) \/ AdvanceLoad(w) \/ AdvanceJudge(w)
    \/ \E n \in Node : AdvanceDispatch(w, n)
    \/ AdvanceFinalize(w)

NodeStep(w) ==
    \/ \E n \in Node : NodeBegin(w, n)
    \/ NodeRefuse(w) \/ NodeStart(w)
    \/ \E yaml \in Yamls : NodeSyncYaml(w, yaml)
    \/ \E outcome \in {"success", "failed"} : NodeFinish(w, outcome)
    \/ NodeRetry(w) \/ NodeNotify(w)

StopStep == StopMark \/ StopList \/ \E n \in Node : StopNode(n)

ApproveStep(a) ==
    \/ \E n \in Node : ApproveBegin(a, n)
    \/ \E outcome \in {"success", "failed"} : ApproveSave(a, outcome)
    \/ ApproveAdvance(a)

\* Nothing is queued, held or under way, and the run has its verdict.
Quiescent ==
    /\ engineQ = 0 /\ \A n \in Node : nodeQ[n] = 0
    /\ \A w \in Worker : pc[w] = "idle"
    /\ stop.pc = "idle" /\ \A a \in Approver : approval[a].pc = "idle"
Over == Quiescent /\ run.status \in Final /\ UNCHANGED vars

Next ==
    \/ \E w \in Worker : \/ EngineStep(w) \/ NodeStep(w) \/ NodeSave(w)
                         \/ AdvanceFault(w) \/ RetryLost(w) \/ TaskDies(w)
                         \/ \E n \in Node : AdvanceLost(w, n)
    \/ StopBegin \/ StopStep \/ StopFault
    \/ Redeliver
    \/ \E a \in Approver : ApproveStep(a) \/ ApproveFault(a)
    \/ Over

Spec == Init /\ [][Next]_vars

\* The pool keeps taking messages and running tasks to their end, a handler
\* that has started finishes, and a waiting approval is answered some day.
\* Crashes, exceptions, stop requests and mid-work saves are never owed.
Fairness ==
    /\ \A w \in Worker : WF_vars(EngineStep(w) \/ NodeStep(w))
    /\ WF_vars(StopStep)
    /\ \A a \in Approver : WF_vars(ApproveStep(a))

FairSpec == Spec /\ Fairness

-----------------------------------------------------------------------------
(* Properties.                                                             *)

Pc == {"idle", "read", "loaded", "dispatch", "finalize",
       "refuse", "start", "work", "synced", "retry", "notify"}
StopState == [pc : {"idle", "read", "marked", "listed"}, run : RunRow,
              node : [Node -> NodeRow], ids : Ids, todo : SUBSET Node]
Faults == [lost : 0..MaxFaults, doubled : 0..MaxDoubles]
Answer == [pc : {"idle", "read", "saved"}, node : Node \cup {NoNode},
           row : NodeRow]

TypeOK ==
    /\ template \in Templates
    /\ run \in RunRow
    /\ node \in [Node -> NodeRow]
    /\ ids \in Ids
    /\ engineQ \in Nat
    /\ nodeQ \in [Node -> Nat]
    /\ pc \in [Worker -> Pc]
    /\ job \in [Worker -> Node \cup {NoNode}]
    /\ seenRun \in [Worker -> RunRow]
    /\ seenNode \in [Worker -> [Node -> NodeRow]]
    /\ todo \in [Worker -> SUBSET Node]
    /\ doomed \subseteq Worker
    /\ stop \in StopState
    /\ approval \in [Approver -> Answer]
    /\ \A a \in Approver : approval[a].pc = "read" => approval[a].node \in Node
    /\ \A w \in Worker : pc[w] \in {"refuse", "start", "work", "synced",
                                    "retry", "notify"} => job[w] \in Node
    /\ stopsLeft \in 0..MaxStops
    /\ faultsLeft \in Faults
    /\ begun \subseteq Node
    /\ done \subseteq Node

\* No node is ever dispatched before every one of its upstream nodes has
\* passed once (success, or skipped in a retry run), whatever stale copies,
\* blind saves, stops, crashes and duplicate dispatches happen; until a
\* git_clone node begins, which may replace the graph.
\* Code: the readiness test of advance_pipeline_engine.
DependencyOrder ==
    begun \cap Clone = {} =>
        \A n \in begun : Upstream(template, n) \subseteq done

\* A run reported as successful has passed every node of its template.
\* Code: the verdict of advance_pipeline_engine, taken from an old snapshot.
SuccessMeansPassed ==
    run.status = "success" => template.nodes \subseteq done

\* Each worker acts for at most one node at a time and no two executions of
\* a node overlap, nor is one queued while another is under way.  Holds for
\* graphs without joins.  Code: pending rows are dispatched from a snapshot.
Executions(n) == nodeQ[n] + Cardinality({w \in Worker : job[w] = n})
SingleExecution == \A n \in Node : Executions(n) <= 1

\* Once a run is cancelled and no task or handler that read it earlier is
\* still at work, it is never revived: the status stays and no row turns
\* active, in spite of queued messages, retries, late approvals and of every
\* task that starts after the stop.
\* Code: the early returns of both tasks on a cancelled run.
CancelledAndDrained ==
    /\ run.status = "cancelled"
    /\ stop.pc = "idle"
    /\ \A w \in Worker : \/ pc[w] \in {"idle", "notify"}
                         \/ seenRun[w].status = "cancelled"
    /\ \A a \in Approver : approval[a].pc # "read"
CancelSticks ==
    [][CancelledAndDrained =>
          /\ run'.status = "cancelled"
          /\ \A n \in Node : node'[n].status = "running" =>
                              node[n].status = "running"]_vars

\* Every run gets a verdict and keeps one, whatever the interleaving of
\* engines, executors and approvals: the last task to end calls the engine
\* after its row is saved.  Assumes no stop and no fault.
\* Code: "only a node that is really over calls the engine", l. 698.
Settles == <>[](run.status \in {"success", "failed"})

\* A graph with a cycle is not waited for for ever: the run fails and the
\* nodes of the cycle stay pending.
\* Code: the has_pending branch of the verdict.
OnCycle == {n \in template.nodes :
              \E m \in Upstream(template, n) : n \in Reached(template, m)}
CycleFails ==
    OnCycle # {} => <>[](/\ run.status = "failed"
                         /\ \A n \in OnCycle : node[n].status = "pending")

\* After .ansflow-ci.yml has replaced the graph its jobs respect their
\* 'needs', and a successful run has passed all of them.
\* Code: "prefer the run's own graph", tasks.py l. 743.
YamlNeeds ==
    run.graph \in Yamls =>
        \A n \in begun : Upstream(run.graph, n) \subseteq done
YamlComplete ==
    run.status = "success" /\ run.graph \in Yamls =>
        run.graph.nodes \subseteq done
YamlFollowed == YamlNeeds /\ YamlComplete

\* A verdict is final: no node is running or queued, in particular none is
\* between a failure and its retry.
\* Code: a node is retried "until it has really failed", tasks.py l. 690.
VerdictIsFinal ==
    run.status \in {"success", "failed"} =>
        \A n \in Node : node[n].status # "running"

\* A stop holds: the run it cancelled is not revived.
\* Code: "mark as cancelled (blocks the engine's next scheduling)",
\* views.py l. 243.
StopHolds == [][run.status = "cancelled" => run'.status = "cancelled"]_vars

\* The engine implements the abstract run on graphs without joins, retries
\* or a replaced graph.
Abstract == INSTANCE DagRun
              WITH Graphs <- Templates, graph <- template,
                   status <- run.status, begun <- begun, done <- done
ImplementsDagRun == Abstract!Spec

-----------------------------------------------------------------------------
(* The inductive invariant behind DependencyOrder and SuccessMeansPassed.  *)

\* What is recorded as passed, in the database or in a copy, has passed.
PassedRecorded ==
    /\ PassedIn(node) \subseteq done
    /\ \A w \in Worker : PassedIn(seenNode[w]) \subseteq done

\* Only dispatched nodes have messages and executions; an execution at work
\* holds its row as 'running'.
OnlyBegun ==
    /\ \A n \in Node : nodeQ[n] > 0 => n \in begun
    /\ \A w \in Worker :
          pc[w] \in {"refuse", "start", "work", "synced", "retry", "notify"} =>
              job[w] \in begun
    /\ \A w \in Worker :
          pc[w] \in {"work", "synced"} => Held(w).status = "running"

\* Before a git_clone begins nobody holds another graph than the template,
\* and what an engine is about to dispatch is ready.
OrderInv ==
    begun \cap Clone = {} =>
        /\ {run.graph, stop.run.graph} \subseteq {NoGraph, template}
        /\ \A w \in Worker :
              /\ seenRun[w].graph \in {NoGraph, template}
              /\ pc[w] = "loaded" => seenRun[w].graph = template
              /\ \A n \in todo[w] : Upstream(template, n) \subseteq done
        /\ \A n \in begun : Upstream(template, n) \subseteq done

\* Once any graph has been recorded the template's rows exist, so that every
\* snapshot an engine judges holds all of them.
Exists(g, ns) == \A n \in g.nodes : ns[n].status # "absent"
CreatedInv ==
    /\ \/ Exists(template, node)
       \/ /\ run.graph = NoGraph /\ stop.run.graph = NoGraph
          /\ \A w \in Worker : seenRun[w].graph = NoGraph
          /\ begun = {}
    /\ \A w \in Worker :
          pc[w] \in {"loaded", "dispatch", "finalize"} =>
              Exists(template, seenNode[w]) /\ seenRun[w].graph # NoGraph
    /\ \A w \in Worker :
          pc[w] = "finalize" => ~HasStatus(seenNode[w], {"running", "waiting"})

\* Code: the snapshot and the readiness test of advance_pipeline_engine.
IndInv ==
    /\ PassedRecorded /\ OnlyBegun /\ OrderInv /\ CreatedInv
    /\ SuccessMeansPassed
=============================================================================
