------------------------ MODULE PipelineEngineProofs ------------------------
(* Proofs about PipelineEngine for every graph, pool and bound.            *)
EXTENDS PipelineEngine, FiniteSetTheorems, TLAPS

\* Clearing the ids of an ended task keeps them ids of tasks.
LEMMA ForgetType ==
    ASSUME NEW tid \in Ids, NEW w \in Worker
    PROVE  Forget(tid, w) \in Ids
BY DEF Forget, Ids

\* The values a task or handler starts from are well typed.
LEMMA BlankType ==
    /\ NoNodes \in [Node -> NodeRow]
    /\ NoRun \in RunRow
    /\ NoIds \in Ids
    /\ StopIdle \in StopState
    /\ NoAnswer \in Answer
<1>1. NoNodes \in [Node -> NodeRow] /\ Absent \in NodeRow
  BY DEF NoNodes, Absent, NodeRow, NodeStatus
<1>2. NoRun \in RunRow /\ NoIds \in Ids
  BY DEF NoRun, RunRow, RunStatus, NoIds, Ids
<1> QED BY <1>1, <1>2 DEF StopIdle, StopState, NoAnswer, Answer

\* The variables a task's end leaves typed.
LocalType ==
    /\ pc \in [Worker -> Pc]
    /\ job \in [Worker -> Node \cup {NoNode}]
    /\ seenRun \in [Worker -> RunRow]
    /\ seenNode \in [Worker -> [Node -> NodeRow]]
    /\ todo \in [Worker -> SUBSET Node]
    /\ doomed \subseteq Worker
    /\ ids \in Ids
    /\ stop \in StopState
    /\ \A w \in Worker : pc[w] \in {"refuse", "start", "work", "synced",
                                    "retry", "notify"} => job[w] \in Node

\* The stop handler's ids can be replaced by other ids.
LEMMA StopIdsType ==
    ASSUME NEW s \in StopState, NEW tid \in Ids
    PROVE  [s EXCEPT !.ids = tid] \in StopState
BY DEF StopState

\* Ending a task keeps the types of all the variables it writes.
LEMMA EndTaskType ==
    ASSUME TypeOK, NEW w \in Worker, NEW tid \in Ids, EndTaskWith(w, tid)
    PROVE  LocalType'
<1>1. stop.ids \in Ids
  BY DEF TypeOK, StopState
<1>2. ids' \in Ids /\ Forget(stop.ids, w) \in Ids
  BY <1>1, ForgetType DEF EndTaskWith
<1>3. stop' \in StopState
  BY <1>2, StopIdsType DEF TypeOK, EndTaskWith
<1>4. /\ pc' \in [Worker -> Pc]
      /\ job' \in [Worker -> Node \cup {NoNode}]
      /\ todo' \in [Worker -> SUBSET Node]
      /\ doomed' \subseteq Worker
      /\ seenRun' \in [Worker -> RunRow]
      /\ seenNode' \in [Worker -> [Node -> NodeRow]]
  BY BlankType DEF TypeOK, EndTaskWith, Pc
<1>5. \A v \in Worker : pc'[v] \in {"refuse", "start", "work", "synced",
                                    "retry", "notify"} => job'[v] \in Node
  BY DEF TypeOK, EndTaskWith
<1> QED BY <1>2, <1>3, <1>4, <1>5 DEF LocalType

\* A row or a run given another status, count or graph keeps its type.
LEMMA RowType ==
    ASSUME NEW row \in NodeRow, NEW st \in NodeStatus
    PROVE  /\ [row EXCEPT !.status = st] \in NodeRow
           /\ row.retries \in Nat
           /\ [status |-> st, retries |-> row.retries + 1] \in NodeRow
BY DEF NodeRow

\* A run's row keeps its type when it is given a status or a graph.
LEMMA RunType ==
    ASSUME NEW r \in RunRow, NEW st \in RunStatus,
           NEW g \in {NoGraph} \cup Templates \cup Yamls
    PROVE  /\ [r EXCEPT !.status = st] \in RunRow
           /\ [r EXCEPT !.graph = g] \in RunRow
           /\ [status |-> st, graph |-> g] \in RunRow
           /\ r.graph \in {NoGraph} \cup Templates \cup Yamls
BY DEF RunRow

\* The faults left: a loss or a doubled message takes one.
LEMMA FaultType ==
    ASSUME NEW f \in Faults
    PROVE  /\ f.lost > 0 => [f EXCEPT !.lost = @ - 1] \in Faults
           /\ f.doubled > 0 => [f EXCEPT !.doubled = @ - 1] \in Faults
BY ActorAssumption DEF Faults

\* The ids of tasks keep their type when one is set.
LEMMA IdsType ==
    ASSUME NEW tid \in Ids, NEW n \in Node, NEW w \in Worker \cup {NoWorker}
    PROVE  /\ [tid EXCEPT !.brain = w] \in Ids
           /\ [tid EXCEPT !.node[n] = w] \in Ids
           /\ tid.brain \in Worker \cup {NoWorker}
           /\ tid.node[n] \in Worker \cup {NoWorker}
BY DEF Ids

\* Every value stays in its type, whatever the graph and the bounds.
THEOREM TypeCorrect == Spec => []TypeOK
<1> USE GraphAssumption, NodeAssumption, ActorAssumption
<1>1. Init => TypeOK
  <2> SUFFICES ASSUME Init PROVE TypeOK
    OBVIOUS
  <2>1. node \in [Node -> NodeRow]
    BY BlankType DEF Init, RetryNodes, NodeRow, NodeStatus
  <2>2. begun \subseteq Node /\ done \subseteq Node
    BY DEF Init, PassedIn
  <2>3. faultsLeft \in Faults
    BY ActorAssumption DEF Init, Faults
  <2> QED BY <2>1, <2>2, <2>3, BlankType DEF Init, TypeOK, Pc, NoAnswer
<1>2. TypeOK /\ [Next]_vars => TypeOK'
  <2> SUFFICES ASSUME TypeOK, [Next]_vars PROVE TypeOK'
    OBVIOUS
  <2> USE DEF TypeOK
  <2>1. ASSUME NEW w \in Worker, AdvanceBegin(w)
        PROVE  TypeOK'
    <3>1. ids' \in Ids
      <4>1. /\ [ids EXCEPT !.brain = NoWorker] \in Ids
            /\ [ids EXCEPT !.brain = w] \in Ids
        BY DEF Ids
      <4> QED BY <2>1, <4>1 DEF AdvanceBegin
    <3>2. pc' \in [Worker -> Pc] /\ seenRun' \in [Worker -> RunRow]
      <4>1. /\ [pc EXCEPT ![w] = "read"] \in [Worker -> Pc]
            /\ [seenRun EXCEPT ![w] = run] \in [Worker -> RunRow]
        BY DEF Pc
      <4> QED BY <2>1, <4>1 DEF AdvanceBegin
    <3>3. engineQ' \in Nat
      BY <2>1 DEF AdvanceBegin
    <3>4. \A v \in Worker : pc'[v] \in {"refuse", "start", "work", "synced",
                                        "retry", "notify"} => job'[v] \in Node
      BY <2>1 DEF AdvanceBegin, Pc
    <3> QED BY <2>1, <3>1, <3>2, <3>3, <3>4 DEF AdvanceBegin
  <2>2. ASSUME NEW w \in Worker, AdvanceEmpty(w)
        PROVE  TypeOK'
    BY <2>2, EndTaskType, RunType DEF AdvanceEmpty, EndTask, LocalType,
       RunStatus
  <2>3. ASSUME NEW w \in Worker, AdvanceLoad(w)
        PROVE  TypeOK'
    <3>1. GraphOf(w) \in Templates \cup Yamls
      BY RunType DEF GraphOf, RunRow
    <3>2. run' \in RunRow
      BY <2>3, RunType DEF AdvanceLoad, SnapshotGraph, RunRow
    <3>3. node' \in [Node -> NodeRow]
      <4>1. \A m \in Node : [node[m] EXCEPT !.status = "pending"] \in NodeRow
        BY RowType DEF NodeStatus
      <4> QED BY <2>3, <4>1 DEF AdvanceLoad
    <3>4. seenNode' \in [Worker -> [Node -> NodeRow]]
      BY <2>3, <3>3 DEF AdvanceLoad
    <3>5. seenRun' \in [Worker -> RunRow]
      BY <2>3, <3>1 DEF AdvanceLoad, RunRow
    <3>6. /\ pc' \in [Worker -> Pc]
          /\ \A v \in Worker : pc'[v] \in {"refuse", "start", "work", "synced",
                                        "retry", "notify"} => job'[v] \in Node
      BY <2>3 DEF AdvanceLoad, Pc
    <3> QED BY <2>3, <3>2, <3>3, <3>4, <3>5, <3>6 DEF AdvanceLoad
  <2>4. ASSUME NEW w \in Worker, AdvanceJudge(w)
        PROVE  TypeOK'
    <3>1. run' \in RunRow
      BY <2>4, RunType DEF AdvanceJudge, RunStatus
    <3>2. CASE EndTask(w)
      BY <2>4, <3>1, <3>2, EndTaskType DEF AdvanceJudge, EndTask, LocalType
    <3>3. CASE ~EndTask(w)
      <4>1. /\ pc' \in [Worker -> Pc] /\ todo' \in [Worker -> SUBSET Node]
            /\ \A v \in Worker : pc'[v] \in {"refuse", "start", "work",
                         "synced", "retry", "notify"} => job'[v] \in Node
        <5>1. /\ [pc EXCEPT ![w] = "dispatch"] \in [Worker -> Pc]
              /\ [pc EXCEPT ![w] = "finalize"] \in [Worker -> Pc]
          BY DEF Pc
        <5>2. Ready(seenRun[w].graph, seenNode[w]) \subseteq Node
          BY DEF Ready
        <5>3. /\ \/ pc' = [pc EXCEPT ![w] = "dispatch"]
                 \/ pc' = [pc EXCEPT ![w] = "finalize"]
              /\ todo' = [todo EXCEPT
                            ![w] = Ready(seenRun[w].graph, seenNode[w])]
              /\ job' = job
          BY <2>4, <3>3 DEF AdvanceJudge
        <5> QED BY <5>1, <5>2, <5>3
      <4> QED BY <2>4, <3>1, <3>3, <4>1 DEF AdvanceJudge
    <3> QED BY <3>2, <3>3
  <2>5. ASSUME NEW w \in Worker, NEW n \in Node, AdvanceDispatch(w, n)
        PROVE  TypeOK'
    <3>1. node' \in [Node -> NodeRow] /\ nodeQ' \in [Node -> Nat]
      <4>1. /\ [node EXCEPT ![n].status = "waiting"] \in [Node -> NodeRow]
            /\ [node EXCEPT ![n].status = "running"] \in [Node -> NodeRow]
        <5>1. /\ [node[n] EXCEPT !.status = "waiting"] \in NodeRow
              /\ [node[n] EXCEPT !.status = "running"] \in NodeRow
          BY RowType DEF NodeStatus
        <5> QED BY <5>1
      <4>2. [nodeQ EXCEPT ![n] = @ + 1] \in [Node -> Nat]
        OBVIOUS
      <4> QED BY <2>5, <4>1, <4>2 DEF AdvanceDispatch
    <3>2. begun' \subseteq Node
      BY <2>5 DEF AdvanceDispatch
    <3>3. CASE EndTask(w)
      BY <2>5, <3>1, <3>2, <3>3, EndTaskType
         DEF AdvanceDispatch, EndTask, LocalType
    <3>4. CASE ~EndTask(w)
      <4>1. /\ todo' = [todo EXCEPT ![w] = @ \ {n}]
            /\ UNCHANGED <<ids, pc, job, seenRun, seenNode, stop, doomed>>
            /\ UNCHANGED <<template, run, engineQ, approval, stopsLeft,
                           faultsLeft, done>>
        BY <2>5, <3>4 DEF AdvanceDispatch
      <4>2. todo' \in [Worker -> SUBSET Node]
        BY <4>1
      <4> QED BY <3>1, <3>2, <4>1, <4>2
    <3> QED BY <3>3, <3>4
  <2>6. ASSUME NEW w \in Worker, AdvanceFinalize(w)
        PROVE  TypeOK'
    BY <2>6, EndTaskType, RunType DEF AdvanceFinalize, EndTask, LocalType,
       RunStatus, Verdict
  <2>7. ASSUME NEW w \in Worker, AdvanceFault(w)
        PROVE  TypeOK'
    <3>1. LocalType'
      BY <2>7, EndTaskType DEF AdvanceFault, EndTask
    <3>2. run' \in RunRow
      BY <2>7, RunType DEF AdvanceFault, RunStatus
    <3>3. faultsLeft' \in Faults
      BY <2>7, FaultType DEF AdvanceFault
    <3> QED BY <2>7, <3>1, <3>2, <3>3 DEF AdvanceFault, LocalType
  <2>8. ASSUME NEW w \in Worker, NEW n \in Node, NodeBegin(w, n)
        PROVE  TypeOK'
    <3>1. seenRun' \in [Worker -> RunRow]
      BY <2>8, RunType DEF NodeBegin, RunRow
    <3> QED BY <2>8, <3>1 DEF NodeBegin, rows, Pc
  <2>9. ASSUME NEW w \in Worker, NodeRefuse(w)
        PROVE  TypeOK'
    <3>1. seenNode[w][job[w]] \in NodeRow
      BY <2>9 DEF NodeRefuse
    <3>2. node' \in [Node -> NodeRow] /\ done' \subseteq Node
      BY <2>9, <3>1 DEF NodeRefuse, SaveNode, Held, NodeRow, NodeStatus
    <3>3. LocalType'
      BY <2>9, EndTaskType DEF NodeRefuse, EndTask
    <3> QED BY <2>9, <3>2, <3>3 DEF NodeRefuse, LocalType
  <2>10. ASSUME NEW w \in Worker, NodeStart(w)
        PROVE  TypeOK'
    <3>1. seenNode[w][job[w]] \in NodeRow
      BY <2>10 DEF NodeStart
    <3>2. node' \in [Node -> NodeRow] /\ done' \subseteq Node
      BY <2>10, <3>1 DEF NodeStart, SaveNode, Held, NodeRow, NodeStatus
    <3>3. ids' \in Ids
      BY <2>10, IdsType DEF NodeStart
    <3>4. seenNode' \in [Worker -> [Node -> NodeRow]]
      BY <2>10, <3>1 DEF NodeStart, Held, NodeRow, NodeStatus
    <3>5. /\ pc' \in [Worker -> Pc]
          /\ \A v \in Worker : pc'[v] \in {"refuse", "start", "work", "synced",
                                        "retry", "notify"} => job'[v] \in Node
      BY <2>10 DEF NodeStart, Pc
    <3> QED BY <2>10, <3>2, <3>3, <3>4, <3>5 DEF NodeStart
  <2>11. ASSUME NEW w \in Worker, NodeSave(w)
        PROVE  TypeOK'
    <3>1. seenNode[w][job[w]] \in NodeRow
      BY <2>11 DEF NodeSave
    <3>2. node' \in [Node -> NodeRow] /\ done' \subseteq Node
      BY <2>11, <3>1 DEF NodeSave, SaveNode, Held, NodeRow, NodeStatus
    <3>3. ids' \in Ids
      BY <2>11, IdsType DEF NodeSave
    <3> QED BY <2>11, <3>2, <3>3 DEF NodeSave, local
  <2>12. ASSUME NEW w \in Worker, NEW yaml \in Yamls, NodeSyncYaml(w, yaml)
        PROVE  TypeOK'
    BY <2>12, RunType DEF NodeSyncYaml, RunStatus, Pc
  <2>13. ASSUME NEW w \in Worker, NEW o \in {"success", "failed"},
                NodeFinish(w, o)
        PROVE  TypeOK'
    <3>1. seenNode[w][job[w]] \in NodeRow
      BY <2>13 DEF NodeFinish
    <3>2. node' \in [Node -> NodeRow] /\ done' \subseteq Node
      BY <2>13, <3>1 DEF NodeFinish, SaveNode, Held, NodeRow, NodeStatus
    <3>3. ids' \in Ids
      BY <2>13, IdsType DEF NodeFinish
    <3>4. seenNode' \in [Worker -> [Node -> NodeRow]]
      BY <2>13, <3>1 DEF NodeFinish, Held, NodeRow, NodeStatus
    <3>5. /\ pc' \in [Worker -> Pc]
          /\ \A v \in Worker : pc'[v] \in {"refuse", "start", "work", "synced",
                                        "retry", "notify"} => job'[v] \in Node
      BY <2>13 DEF NodeFinish, Pc
    <3> QED BY <2>13, <3>2, <3>3, <3>4, <3>5 DEF NodeFinish
  <2>14. ASSUME NEW w \in Worker, NodeRetry(w)
        PROVE  TypeOK'
    <3>1. seenNode[w][job[w]] \in NodeRow /\ job[w] \in Node
      BY <2>14 DEF NodeRetry
    <3>2. node' \in [Node -> NodeRow] /\ done' \subseteq Node
      BY <2>14, <3>1 DEF NodeRetry, SaveNode, Held, NodeRow, NodeStatus
    <3>3. nodeQ' \in [Node -> Nat]
      BY <2>14, <3>1 DEF NodeRetry
    <3>4. [ids EXCEPT !.node[job[w]] = w] \in Ids
      BY <3>1, IdsType
    <3>5. LocalType'
      BY <2>14, <3>4, EndTaskType DEF NodeRetry
    <3> QED BY <2>14, <3>2, <3>3, <3>5 DEF NodeRetry, LocalType
  <2>15. ASSUME NEW w \in Worker, NodeNotify(w)
        PROVE  TypeOK'
    BY <2>15, EndTaskType DEF NodeNotify, EndTask, LocalType
  <2>16. ASSUME NEW w \in Worker, TaskDies(w)
        PROVE  TypeOK'
    <3>1. LocalType'
      BY <2>16, EndTaskType DEF TaskDies, EndTask
    <3>2. faultsLeft' \in Faults
      BY <2>16, FaultType DEF TaskDies
    <3> QED BY <2>16, <3>1, <3>2 DEF TaskDies, LocalType
  <2>17. ASSUME StopBegin
        PROVE  TypeOK'
    <3>1. stop' \in StopState
      BY <2>17, BlankType DEF StopBegin, StopState, Ids
    <3>2. stopsLeft' \in 0..MaxStops
      BY <2>17 DEF StopBegin
    <3> QED BY <2>17, <3>1, <3>2 DEF StopBegin, rows, local
  <2>18. ASSUME StopMark
        PROVE  TypeOK'
    <3>1. run' \in RunRow
      BY <2>18, RunType DEF StopMark, StopState, RunStatus, RunRow
    <3>2. ids' \in Ids /\ doomed' \subseteq Worker
      BY <2>18, IdsType DEF StopMark, StopState, Ids
    <3>3. stop' \in StopState
      BY <2>18, BlankType DEF StopMark, StopState, Ids
    <3> QED BY <2>18, <3>1, <3>2, <3>3 DEF StopMark, local
  <2>19. ASSUME StopList
        PROVE  TypeOK'
    <3>1. stop' \in StopState
      <4> DEFINE listed == {n \in Node : node[n].status \notin
                              {"absent", "success", "failed", "skipped"}}
      <4>1. [n \in Node |-> IF n \in listed THEN node[n] ELSE Absent]
              \in [Node -> NodeRow]
        BY DEF Absent, NodeRow, NodeStatus
      <4>2. [n \in Node |-> IF n \in listed THEN ids.node[n] ELSE NoWorker]
              \in [Node -> Worker \cup {NoWorker}]
        BY DEF Ids
      <4> HIDE DEF listed
      <4>3. listed \subseteq Node
        BY DEF listed
      <4> QED BY <2>19, <4>1, <4>2, <4>3, BlankType
             DEF StopList, StopState, Ids, listed
    <3> QED BY <2>19, <3>1 DEF StopList, rows, local
  <2>20. ASSUME NEW n \in Node, StopNode(n)
        PROVE  TypeOK'
    <3>1. stop.node[n] \in NodeRow /\ stop.ids \in Ids
      BY DEF StopState
    <3>2. node' \in [Node -> NodeRow]
      BY <2>20, <3>1 DEF StopNode, StoppedRow, NodeRow, NodeStatus
    <3>3. stop.ids.node[n] \in Worker \cup {NoWorker}
      BY <3>1, IdsType
    <3>4. ids' \in Ids /\ doomed' \subseteq Worker
      BY <2>20, <3>3, IdsType DEF StopNode
    <3>5. stop' \in StopState
      BY <2>20, BlankType DEF StopNode, StopState
    <3> QED BY <2>20, <3>2, <3>4, <3>5 DEF StopNode, local
  <2>21. ASSUME NEW a \in Approver, NEW n \in Node, ApproveBegin(a, n)
        PROVE  TypeOK'
    BY <2>21 DEF ApproveBegin, rows, local, Answer
  <2>22. ASSUME NEW a \in Approver, NEW o \in {"success", "failed"},
                ApproveSave(a, o)
        PROVE  TypeOK'
    BY <2>22, BlankType, RowType DEF ApproveSave, local, Answer,
       NodeStatus
  <2>23. ASSUME NEW a \in Approver, ApproveAdvance(a)
        PROVE  TypeOK'
    BY <2>23, BlankType DEF ApproveAdvance, rows, local, NoAnswer
  <2>24. ASSUME NEW a \in Approver, ApproveFault(a)
        PROVE  TypeOK'
    BY <2>24, BlankType, FaultType
       DEF ApproveFault, rows, local, NoAnswer
  <2>25. ASSUME NEW w \in Worker, NEW n \in Node, AdvanceLost(w, n)
        PROVE  TypeOK'
    <3>1. LocalType'
      BY <2>25, EndTaskType DEF AdvanceLost, EndTask
    <3>2. [node[n] EXCEPT !.status = "running"] \in NodeRow
      BY RowType DEF NodeStatus
    <3>3. node' \in [Node -> NodeRow] /\ begun' \subseteq Node
      BY <2>25, <3>2 DEF AdvanceLost
    <3>4. run' \in RunRow
      <4>1. [run EXCEPT !.status = "failed"] \in RunRow
        BY DEF RunRow, RunStatus
      <4> QED BY <2>25, <4>1 DEF AdvanceLost
    <3>5. faultsLeft' \in Faults
      BY <2>25, FaultType DEF AdvanceLost
    <3> QED BY <2>25, <3>1, <3>3, <3>4, <3>5 DEF AdvanceLost, LocalType
  <2>26. ASSUME NEW w \in Worker, RetryLost(w)
        PROVE  TypeOK'
    <3>1. seenNode[w][job[w]] \in NodeRow /\ job[w] \in Node
      BY <2>26 DEF RetryLost
    <3>2. node' \in [Node -> NodeRow] /\ done' \subseteq Node
      BY <2>26, <3>1 DEF RetryLost, SaveNode, Held, NodeRow, NodeStatus
    <3>3. [ids EXCEPT !.node[job[w]] = w] \in Ids
      BY <3>1, IdsType
    <3>4. LocalType'
      BY <2>26, <3>3, EndTaskType DEF RetryLost
    <3>5. faultsLeft' \in Faults
      BY <2>26, FaultType DEF RetryLost
    <3> QED BY <2>26, <3>2, <3>4, <3>5 DEF RetryLost, LocalType
  <2>27. ASSUME StopFault
        PROVE  TypeOK'
    BY <2>27, BlankType, FaultType DEF StopFault, rows, local
  <2>28. ASSUME Redeliver
        PROVE  TypeOK'
    <3>1. faultsLeft' \in Faults
      BY <2>28, FaultType DEF Redeliver
    <3>2. engineQ' \in Nat /\ nodeQ' \in [Node -> Nat]
      BY <2>28 DEF Redeliver
    <3> QED BY <2>28, <3>1, <3>2 DEF Redeliver, rows, local
  <2>29. ASSUME UNCHANGED vars PROVE TypeOK'
    BY <2>29 DEF vars
  <2> HIDE DEF TypeOK
  <2> QED BY <2>1, <2>2, <2>3, <2>4, <2>5, <2>6, <2>7, <2>8, <2>9, <2>10,
       <2>11, <2>12, <2>13, <2>14, <2>15, <2>16, <2>17, <2>18, <2>19,
       <2>20, <2>21, <2>22, <2>23, <2>24, <2>25,
       <2>26, <2>27, <2>28, <2>29 DEF Next, Over,
       EngineStep, NodeStep, StopStep, ApproveStep
<1> QED BY <1>1, <1>2, PTL DEF Spec

-----------------------------------------------------------------------------
(* The inductive invariant.                                                *)

\* What the end of a task leaves: w holds nothing, the rest is unchanged.
LEMMA EndTaskEffect ==
    ASSUME TypeOK, NEW w \in Worker, NEW tid, EndTaskWith(w, tid)
    PROVE  /\ pc'[w] = "idle" /\ job'[w] = NoNode /\ todo'[w] = {}
           /\ seenRun'[w] = NoRun /\ seenNode'[w] = NoNodes
           /\ \A v \in Worker \ {w} :
                 /\ pc'[v] = pc[v] /\ job'[v] = job[v] /\ todo'[v] = todo[v]
                 /\ seenRun'[v] = seenRun[v] /\ seenNode'[v] = seenNode[v]
           /\ stop'.run = stop.run
BY DEF EndTaskWith, TypeOK, StopState

\* Passed copies stay recorded when a task ends.
LEMMA EndTaskPassed ==
    ASSUME TypeOK, PassedRecorded, NEW w \in Worker, NEW tid,
           EndTaskWith(w, tid), done \subseteq done'
    PROVE  \A v \in Worker : PassedIn(seenNode'[v]) \subseteq done'
<1> SUFFICES ASSUME NEW v \in Worker
             PROVE  PassedIn(seenNode'[v]) \subseteq done'
  OBVIOUS
<1>1. CASE v = w
  <2>1. seenNode'[v] = NoNodes
    BY <1>1, EndTaskEffect
  <2> QED BY <2>1 DEF PassedIn, NoNodes, Absent, Passed
<1>2. CASE v # w
  <2>1. seenNode'[v] = seenNode[v]
    BY <1>2, EndTaskEffect
  <2> QED BY <2>1 DEF PassedRecorded
<1> QED BY <1>1, <1>2

\* PassedRecorded is kept by every step.
LEMMA PassedStep ==
    ASSUME TypeOK, TypeOK', PassedRecorded, [Next]_vars
    PROVE  PassedRecorded'
<1> USE GraphAssumption, NodeAssumption, ActorAssumption
<1>1. ASSUME NEW w \in Worker, AdvanceBegin(w)
      PROVE  PassedRecorded'
  BY <1>1 DEF AdvanceBegin, TypeOK, PassedRecorded, PassedIn, Passed,
     NoNodes, Absent
<1>2. ASSUME NEW w \in Worker, AdvanceEmpty(w)
      PROVE  PassedRecorded'
  <2>1. done \subseteq done'
    BY <1>2 DEF AdvanceEmpty, SaveNode
  <2>2. \A v \in Worker : PassedIn(seenNode'[v]) \subseteq done'
    BY <1>2, <2>1, EndTaskPassed DEF AdvanceEmpty, EndTask
  <2>3. PassedIn(node') \subseteq done'
    BY <1>2 DEF AdvanceEmpty, TypeOK, PassedRecorded,
       PassedIn, Passed
  <2> QED BY <2>2, <2>3 DEF PassedRecorded
<1>3. ASSUME NEW w \in Worker, AdvanceLoad(w)
      PROVE  PassedRecorded'
  BY <1>3 DEF AdvanceLoad, SnapshotGraph, GraphOf, TypeOK, PassedRecorded,
     PassedIn, Passed, NoNodes, Absent
<1>4. ASSUME NEW w \in Worker, AdvanceJudge(w)
      PROVE  PassedRecorded'
  <2>1. PassedIn(node') \subseteq done' /\ done' = done
    BY <1>4 DEF AdvanceJudge, PassedRecorded
  <2>2. CASE EndTask(w)
    BY <1>4, <2>1, <2>2, EndTaskPassed DEF EndTask, PassedRecorded
  <2>3. CASE ~EndTask(w)
    <3>1. seenNode' = seenNode
      BY <1>4, <2>3 DEF AdvanceJudge
    <3> QED BY <2>1, <3>1 DEF PassedRecorded
  <2> QED BY <2>2, <2>3
<1>5. ASSUME NEW w \in Worker, NEW n \in Node, AdvanceDispatch(w, n)
      PROVE  PassedRecorded'
  <2>1. PassedIn(node') \subseteq done' /\ done' = done
    BY <1>5 DEF AdvanceDispatch, TypeOK, PassedRecorded,
       PassedIn, Passed
  <2>2. CASE EndTask(w)
    BY <1>5, <2>1, <2>2, EndTaskPassed DEF EndTask, PassedRecorded
  <2>3. CASE ~EndTask(w)
    <3>1. seenNode' = seenNode
      BY <1>5, <2>3 DEF AdvanceDispatch
    <3> QED BY <2>1, <3>1 DEF PassedRecorded
  <2> QED BY <2>2, <2>3
<1>6. ASSUME NEW w \in Worker, AdvanceFinalize(w)
      PROVE  PassedRecorded'
  <2>1. done \subseteq done'
    BY <1>6 DEF AdvanceFinalize, SaveNode
  <2>2. \A v \in Worker : PassedIn(seenNode'[v]) \subseteq done'
    BY <1>6, <2>1, EndTaskPassed DEF AdvanceFinalize, EndTask
  <2>3. PassedIn(node') \subseteq done'
    BY <1>6 DEF AdvanceFinalize, TypeOK, PassedRecorded,
       PassedIn, Passed
  <2> QED BY <2>2, <2>3 DEF PassedRecorded
<1>7. ASSUME NEW w \in Worker, AdvanceFault(w)
      PROVE  PassedRecorded'
  <2>1. done \subseteq done'
    BY <1>7 DEF AdvanceFault, SaveNode
  <2>2. \A v \in Worker : PassedIn(seenNode'[v]) \subseteq done'
    BY <1>7, <2>1, EndTaskPassed DEF AdvanceFault, EndTask
  <2>3. PassedIn(node') \subseteq done'
    BY <1>7 DEF AdvanceFault, TypeOK, PassedRecorded,
       PassedIn, Passed
  <2> QED BY <2>2, <2>3 DEF PassedRecorded
<1>8. ASSUME NEW w \in Worker, NEW n \in Node, NodeBegin(w, n)
      PROVE  PassedRecorded'
  BY <1>8 DEF NodeBegin, rows, TypeOK, PassedRecorded, PassedIn, Passed,
     NoNodes, Absent
<1>9. ASSUME NEW w \in Worker, NodeRefuse(w)
      PROVE  PassedRecorded'
  <2>1. done \subseteq done'
    BY <1>9 DEF NodeRefuse, SaveNode
  <2>2. \A v \in Worker : PassedIn(seenNode'[v]) \subseteq done'
    BY <1>9, <2>1, EndTaskPassed DEF NodeRefuse, EndTask
  <2>3. PassedIn(node') \subseteq done'
    BY <1>9 DEF NodeRefuse, SaveNode, Held, TypeOK, PassedRecorded,
       PassedIn, Passed
  <2> QED BY <2>2, <2>3 DEF PassedRecorded
<1>10. ASSUME NEW w \in Worker, NodeStart(w)
      PROVE  PassedRecorded'
  BY <1>10 DEF NodeStart, SaveNode, Held, TypeOK, PassedRecorded,
     PassedIn, Passed, NoNodes, Absent
<1>11. ASSUME NEW w \in Worker, NodeSave(w)
      PROVE  PassedRecorded'
  BY <1>11 DEF NodeSave, SaveNode, Held, local, TypeOK, PassedRecorded,
     PassedIn, Passed, NoNodes, Absent
<1>12. ASSUME NEW w \in Worker, NEW yaml \in Yamls, NodeSyncYaml(w, yaml)
      PROVE  PassedRecorded'
  BY <1>12 DEF NodeSyncYaml, TypeOK, PassedRecorded, PassedIn, Passed,
     NoNodes, Absent
<1>13. ASSUME NEW w \in Worker, NEW o \in {"success", "failed"},
              NodeFinish(w, o)
      PROVE  PassedRecorded'
  BY <1>13 DEF NodeFinish, SaveNode, Held, TypeOK, PassedRecorded,
     PassedIn, Passed, NoNodes, Absent
<1>14. ASSUME NEW w \in Worker, NodeRetry(w)
      PROVE  PassedRecorded'
  <2>1. done \subseteq done'
    BY <1>14 DEF NodeRetry, SaveNode
  <2>2. \A v \in Worker : PassedIn(seenNode'[v]) \subseteq done'
    BY <1>14, <2>1, EndTaskPassed DEF NodeRetry, EndTask
  <2>3. PassedIn(node') \subseteq done'
    BY <1>14 DEF NodeRetry, SaveNode, Held, TypeOK, PassedRecorded,
       PassedIn, Passed
  <2> QED BY <2>2, <2>3 DEF PassedRecorded
<1>15. ASSUME NEW w \in Worker, NodeNotify(w)
      PROVE  PassedRecorded'
  <2>1. done \subseteq done'
    BY <1>15 DEF NodeNotify, SaveNode
  <2>2. \A v \in Worker : PassedIn(seenNode'[v]) \subseteq done'
    BY <1>15, <2>1, EndTaskPassed DEF NodeNotify, EndTask
  <2>3. PassedIn(node') \subseteq done'
    BY <1>15 DEF NodeNotify, TypeOK, PassedRecorded,
       PassedIn, Passed
  <2> QED BY <2>2, <2>3 DEF PassedRecorded
<1>16. ASSUME NEW w \in Worker, TaskDies(w)
      PROVE  PassedRecorded'
  <2>1. done \subseteq done'
    BY <1>16 DEF TaskDies, SaveNode
  <2>2. \A v \in Worker : PassedIn(seenNode'[v]) \subseteq done'
    BY <1>16, <2>1, EndTaskPassed DEF TaskDies, EndTask
  <2>3. PassedIn(node') \subseteq done'
    BY <1>16 DEF TaskDies, TypeOK, PassedRecorded,
       PassedIn, Passed
  <2> QED BY <2>2, <2>3 DEF PassedRecorded
<1>17. ASSUME StopBegin
      PROVE  PassedRecorded'
  BY <1>17 DEF StopBegin, rows, local, TypeOK, PassedRecorded, PassedIn,
     Passed, NoNodes, Absent
<1>18. ASSUME StopMark
      PROVE  PassedRecorded'
  BY <1>18 DEF StopMark, local, TypeOK, PassedRecorded, PassedIn, Passed,
     NoNodes, Absent
<1>19. ASSUME StopList
      PROVE  PassedRecorded'
  BY <1>19 DEF StopList, rows, local, TypeOK, PassedRecorded, PassedIn,
     Passed, NoNodes, Absent
<1>20. ASSUME NEW n \in Node, StopNode(n)
      PROVE  PassedRecorded'
  BY <1>20 DEF StopNode, StoppedRow, local, TypeOK, PassedRecorded,
     PassedIn, Passed, NoNodes, Absent
<1>21. ASSUME NEW a \in Approver, NEW n \in Node, ApproveBegin(a, n)
      PROVE  PassedRecorded'
  BY <1>21 DEF ApproveBegin, rows, local, TypeOK, PassedRecorded,
     PassedIn, Passed, NoNodes, Absent
<1>22. ASSUME NEW a \in Approver, NEW o \in {"success", "failed"},
              ApproveSave(a, o)
      PROVE  PassedRecorded'
  BY <1>22 DEF ApproveSave, local, TypeOK, PassedRecorded, PassedIn,
     Passed, NoNodes, Absent
<1>23. ASSUME NEW a \in Approver, ApproveAdvance(a)
      PROVE  PassedRecorded'
  BY <1>23 DEF ApproveAdvance, rows, local, TypeOK, PassedRecorded,
     PassedIn, Passed, NoNodes, Absent
<1>24. ASSUME NEW a \in Approver, ApproveFault(a)
      PROVE  PassedRecorded'
  BY <1>24 DEF ApproveFault, rows, local, TypeOK, PassedRecorded,
     PassedIn, Passed, NoNodes, Absent
<1>25. ASSUME NEW w \in Worker, NEW n \in Node, AdvanceLost(w, n)
      PROVE  PassedRecorded'
  <2>1. done' = done
    BY <1>25 DEF AdvanceLost
  <2>2. \A v \in Worker : PassedIn(seenNode'[v]) \subseteq done'
    BY <1>25, <2>1, EndTaskPassed DEF AdvanceLost, EndTask
  <2>3. PassedIn(node') \subseteq done'
    BY <1>25 DEF AdvanceLost, TypeOK, PassedRecorded,
       PassedIn, Passed
  <2> QED BY <2>2, <2>3 DEF PassedRecorded
<1>26. ASSUME NEW w \in Worker, RetryLost(w)
      PROVE  PassedRecorded'
  <2>1. done \subseteq done'
    BY <1>26 DEF RetryLost, SaveNode
  <2>2. \A v \in Worker : PassedIn(seenNode'[v]) \subseteq done'
    BY <1>26, <2>1, EndTaskPassed DEF RetryLost, EndTask
  <2>3. PassedIn(node') \subseteq done'
    BY <1>26 DEF RetryLost, SaveNode, Held, TypeOK, PassedRecorded, PassedIn,
       Passed
  <2> QED BY <2>2, <2>3 DEF PassedRecorded
<1>27. ASSUME StopFault
      PROVE  PassedRecorded'
  BY <1>27 DEF StopFault, rows, local, TypeOK, PassedRecorded
<1>28. ASSUME Redeliver
      PROVE  PassedRecorded'
  BY <1>28 DEF Redeliver, rows, local, TypeOK, PassedRecorded
<1>29. ASSUME UNCHANGED vars PROVE PassedRecorded'
  BY <1>29 DEF vars, TypeOK, PassedRecorded, PassedIn, Passed, NoNodes, Absent
<1> QED BY <1>1, <1>2, <1>3, <1>4, <1>5, <1>6, <1>7, <1>8, <1>9, <1>10,
       <1>11, <1>12, <1>13, <1>14, <1>15, <1>16, <1>17, <1>18, <1>19,
       <1>20, <1>21, <1>22, <1>23, <1>24, <1>25,
       <1>26, <1>27, <1>28, <1>29 DEF Next, Over,
       EngineStep, NodeStep, StopStep, ApproveStep

\* A worker that ends its task leaves OnlyBegun intact.
LEMMA EndKeepsBegun ==
    ASSUME NEW w \in Worker, NEW tid, EndTaskWith(w, tid), TypeOK, OnlyBegun,
           begun \subseteq begun', nodeQ' = nodeQ
    PROVE  OnlyBegun'
<1>1. /\ pc'[w] = "idle"
      /\ \A v \in Worker \ {w} : /\ pc'[v] = pc[v] /\ job'[v] = job[v]
                                 /\ seenNode'[v] = seenNode[v]
  BY EndTaskEffect
<1> QED BY <1>1 DEF OnlyBegun, Held

\* OnlyBegun is kept by every step.
LEMMA OnlyBegunStep ==
    ASSUME TypeOK, TypeOK', OnlyBegun, [Next]_vars
    PROVE  OnlyBegun'
<1> USE GraphAssumption, NodeAssumption, ActorAssumption
<1>1. ASSUME NEW w \in Worker, AdvanceBegin(w)
      PROVE  OnlyBegun'
  BY <1>1 DEF AdvanceBegin, TypeOK, OnlyBegun, Held
<1>2. ASSUME NEW w \in Worker, AdvanceEmpty(w)
      PROVE  OnlyBegun'
  BY <1>2, EndKeepsBegun DEF AdvanceEmpty, EndTask
<1>3. ASSUME NEW w \in Worker, AdvanceLoad(w)
      PROVE  OnlyBegun'
  BY <1>3 DEF AdvanceLoad, SnapshotGraph, GraphOf, TypeOK, OnlyBegun, Held
<1>4. ASSUME NEW w \in Worker, AdvanceJudge(w)
      PROVE  OnlyBegun'
  <2>1. \A n \in Node : nodeQ'[n] > 0 => n \in begun'
    BY <1>4 DEF AdvanceJudge, OnlyBegun
  <2>2. \A v \in Worker \ {w} : /\ pc'[v] = pc[v] /\ job'[v] = job[v]
                                /\ seenNode'[v] = seenNode[v]
    BY <1>4, EndTaskEffect DEF AdvanceJudge, EndTask, TypeOK
  <2>3. pc'[w] \in {"idle", "dispatch", "finalize"}
    BY <1>4, EndTaskEffect DEF AdvanceJudge, EndTask, TypeOK
  <2>4. begun' = begun
    BY <1>4 DEF AdvanceJudge
  <2> QED BY <2>1, <2>2, <2>3, <2>4 DEF OnlyBegun, Held
<1>5. ASSUME NEW w \in Worker, NEW n \in Node, AdvanceDispatch(w, n)
      PROVE  OnlyBegun'
  <2>1. \A m \in Node : nodeQ'[m] > 0 => m \in begun'
    BY <1>5 DEF AdvanceDispatch, TypeOK, OnlyBegun
  <2>2. begun \subseteq begun'
    BY <1>5 DEF AdvanceDispatch
  <2>3. \A v \in Worker : \/ pc'[v] = "idle"
                           \/ /\ pc'[v] = pc[v] /\ job'[v] = job[v]
                              /\ seenNode'[v] = seenNode[v]
    BY <1>5, EndTaskEffect DEF AdvanceDispatch, EndTask
  <2> QED BY <2>1, <2>2, <2>3 DEF OnlyBegun, Held
<1>6. ASSUME NEW w \in Worker, AdvanceFinalize(w)
      PROVE  OnlyBegun'
  BY <1>6, EndKeepsBegun DEF AdvanceFinalize, EndTask
<1>7. ASSUME NEW w \in Worker, AdvanceFault(w)
      PROVE  OnlyBegun'
  BY <1>7, EndKeepsBegun DEF AdvanceFault, EndTask
<1>8. ASSUME NEW w \in Worker, NEW n \in Node, NodeBegin(w, n)
      PROVE  OnlyBegun'
  BY <1>8 DEF NodeBegin, rows, TypeOK, OnlyBegun, Held
<1>9. ASSUME NEW w \in Worker, NodeRefuse(w)
      PROVE  OnlyBegun'
  <2>1. /\ EndTask(w) /\ UNCHANGED <<nodeQ, begun>>
    BY <1>9 DEF NodeRefuse
  <2>2. \A v \in Worker : \/ pc'[v] = "idle"
                           \/ /\ pc'[v] = pc[v] /\ job'[v] = job[v]
                              /\ seenNode'[v] = seenNode[v]
    BY <2>1, EndTaskEffect DEF EndTask
  <2> QED BY <2>1, <2>2 DEF OnlyBegun, Held
<1>10. ASSUME NEW w \in Worker, NodeStart(w)
      PROVE  OnlyBegun'
  BY <1>10 DEF NodeStart, SaveNode, Held, TypeOK, OnlyBegun, Held
<1>11. ASSUME NEW w \in Worker, NodeSave(w)
      PROVE  OnlyBegun'
  BY <1>11 DEF NodeSave, SaveNode, Held, local, TypeOK, OnlyBegun, Held
<1>12. ASSUME NEW w \in Worker, NEW yaml \in Yamls, NodeSyncYaml(w, yaml)
      PROVE  OnlyBegun'
  BY <1>12 DEF NodeSyncYaml, TypeOK, OnlyBegun, Held
<1>13. ASSUME NEW w \in Worker, NEW o \in {"success", "failed"},
              NodeFinish(w, o)
      PROVE  OnlyBegun'
  BY <1>13 DEF NodeFinish, SaveNode, Held, TypeOK, OnlyBegun, Held
<1>14. ASSUME NEW w \in Worker, NodeRetry(w)
      PROVE  OnlyBegun'
  <2>1. job[w] \in begun /\ begun' = begun
    BY <1>14 DEF NodeRetry, OnlyBegun
  <2>2. \A n \in Node : nodeQ'[n] > 0 => n \in begun'
    BY <1>14, <2>1 DEF NodeRetry, OnlyBegun, TypeOK
  <2>3. /\ pc'[w] = "idle"
        /\ \A v \in Worker \ {w} : /\ pc'[v] = pc[v] /\ job'[v] = job[v]
                                   /\ seenNode'[v] = seenNode[v]
    BY <1>14, EndTaskEffect DEF NodeRetry
  <2> QED BY <2>1, <2>2, <2>3 DEF OnlyBegun, Held
<1>15. ASSUME NEW w \in Worker, NodeNotify(w)
      PROVE  OnlyBegun'
  BY <1>15, EndKeepsBegun DEF NodeNotify, EndTask
<1>16. ASSUME NEW w \in Worker, TaskDies(w)
      PROVE  OnlyBegun'
  BY <1>16, EndKeepsBegun DEF TaskDies, EndTask
<1>17. ASSUME StopBegin
      PROVE  OnlyBegun'
  BY <1>17 DEF StopBegin, rows, local, TypeOK, OnlyBegun, Held
<1>18. ASSUME StopMark
      PROVE  OnlyBegun'
  BY <1>18 DEF StopMark, local, TypeOK, OnlyBegun, Held
<1>19. ASSUME StopList
      PROVE  OnlyBegun'
  BY <1>19 DEF StopList, rows, local, TypeOK, OnlyBegun, Held
<1>20. ASSUME NEW n \in Node, StopNode(n)
      PROVE  OnlyBegun'
  BY <1>20 DEF StopNode, StoppedRow, local, TypeOK, OnlyBegun, Held
<1>21. ASSUME NEW a \in Approver, NEW n \in Node, ApproveBegin(a, n)
      PROVE  OnlyBegun'
  BY <1>21 DEF ApproveBegin, rows, local, TypeOK, OnlyBegun, Held
<1>22. ASSUME NEW a \in Approver, NEW o \in {"success", "failed"},
              ApproveSave(a, o)
      PROVE  OnlyBegun'
  BY <1>22 DEF ApproveSave, local, TypeOK, OnlyBegun, Held
<1>23. ASSUME NEW a \in Approver, ApproveAdvance(a)
      PROVE  OnlyBegun'
  BY <1>23 DEF ApproveAdvance, rows, local, TypeOK, OnlyBegun, Held
<1>24. ASSUME NEW a \in Approver, ApproveFault(a)
      PROVE  OnlyBegun'
  BY <1>24 DEF ApproveFault, rows, local, TypeOK, OnlyBegun, Held
<1>25. ASSUME NEW w \in Worker, NEW n \in Node, AdvanceLost(w, n)
      PROVE  OnlyBegun'
  BY <1>25, EndKeepsBegun DEF AdvanceLost, EndTask
<1>26. ASSUME NEW w \in Worker, RetryLost(w)
      PROVE  OnlyBegun'
  BY <1>26, EndKeepsBegun DEF RetryLost
<1>27. ASSUME StopFault
      PROVE  OnlyBegun'
  BY <1>27 DEF StopFault, rows, local, TypeOK, OnlyBegun, Held
<1>28. ASSUME Redeliver
      PROVE  OnlyBegun'
  BY <1>28 DEF Redeliver, rows, local, TypeOK, OnlyBegun, Held
<1>29. ASSUME UNCHANGED vars PROVE OnlyBegun'
  BY <1>29 DEF vars, TypeOK, OnlyBegun, Held
<1> QED BY <1>1, <1>2, <1>3, <1>4, <1>5, <1>6, <1>7, <1>8, <1>9, <1>10,
       <1>11, <1>12, <1>13, <1>14, <1>15, <1>16, <1>17, <1>18, <1>19,
       <1>20, <1>21, <1>22, <1>23, <1>24, <1>25,
       <1>26, <1>27, <1>28, <1>29 DEF Next, Over,
       EngineStep, NodeStep, StopStep, ApproveStep

\* The template is never edited by a task or a handler.
LEMMA TemplateKept == [Next]_vars => template' = template
<1> SUFFICES ASSUME [Next]_vars
             PROVE  template' = template
  OBVIOUS
<1>1. ASSUME NEW w \in Worker, EngineStep(w) \/ AdvanceFault(w)
                               \/ \E n \in Node : AdvanceLost(w, n)
      PROVE  template' = template
  BY <1>1 DEF EngineStep, AdvanceBegin, AdvanceEmpty, AdvanceLoad,
     AdvanceJudge, AdvanceDispatch, AdvanceFinalize, AdvanceFault, AdvanceLost
<1>2. ASSUME NEW w \in Worker,
             NodeStep(w) \/ NodeSave(w) \/ RetryLost(w) \/ TaskDies(w)
      PROVE  template' = template
  BY <1>2 DEF NodeStep, NodeBegin, NodeRefuse, NodeStart, NodeSave,
     NodeSyncYaml, NodeFinish, NodeRetry, NodeNotify, RetryLost, TaskDies
<1>3. ASSUME StopBegin \/ StopStep \/ StopFault \/ Redeliver
      PROVE  template' = template
  BY <1>3 DEF StopStep, StopBegin, StopMark, StopList, StopNode, StopFault,
     Redeliver
<1>4. ASSUME NEW a \in Approver, ApproveStep(a) \/ ApproveFault(a)
      PROVE  template' = template
  BY <1>4 DEF ApproveStep, ApproveBegin, ApproveSave, ApproveAdvance,
     ApproveFault
<1> QED BY <1>1, <1>2, <1>3, <1>4 DEF Next, Over, vars

\* What OrderInv says of a worker, and of the stop handler, survives the
\* end of a task.
LEMMA EndTaskOrder ==
    ASSUME TypeOK, OrderInv, begun \cap Clone = {}, done \subseteq done',
           NEW w \in Worker, NEW tid, EndTaskWith(w, tid)
    PROVE  /\ stop'.run.graph \in {NoGraph, template}
           /\ \A v \in Worker :
                 /\ seenRun'[v].graph \in {NoGraph, template}
                 /\ pc'[v] = "loaded" => seenRun'[v].graph = template
                 /\ \A n \in todo'[v] : Upstream(template, n) \subseteq done'
<1>1. stop'.run = stop.run
  BY EndTaskEffect
<1>2. ASSUME NEW v \in Worker
      PROVE  /\ seenRun'[v].graph \in {NoGraph, template}
             /\ pc'[v] = "loaded" => seenRun'[v].graph = template
             /\ \A n \in todo'[v] : Upstream(template, n) \subseteq done'
  <2>1. CASE v = w
    BY <2>1, EndTaskEffect DEF NoRun
  <2>2. CASE v # w
    <3>1. /\ pc'[v] = pc[v] /\ todo'[v] = todo[v]
          /\ seenRun'[v] = seenRun[v]
      BY <2>2, EndTaskEffect
    <3> QED BY <3>1 DEF OrderInv
  <2> QED BY <2>1, <2>2
<1> QED BY <1>1, <1>2 DEF OrderInv

\* OrderInv is kept by every step.
LEMMA OrderStep ==
    ASSUME TypeOK, TypeOK', PassedRecorded, OnlyBegun, OrderInv, [Next]_vars
    PROVE  OrderInv'
<1> USE GraphAssumption, NodeAssumption, ActorAssumption
<1> template' = template
  BY TemplateKept
<1>1. ASSUME NEW w \in Worker, AdvanceBegin(w)
      PROVE  OrderInv'
  BY <1>1 DEF AdvanceBegin, OrderInv, OnlyBegun, TypeOK, NoRun
<1>2. ASSUME NEW w \in Worker, AdvanceEmpty(w)
      PROVE  OrderInv'
  <2> SUFFICES ASSUME begun' \cap Clone = {} PROVE OrderInv'
    BY DEF OrderInv
  <2>1. begun' = begun /\ done' = done
    BY <1>2 DEF AdvanceEmpty
  <2>2. run'.graph \in {NoGraph, template}
    BY <1>2, <2>1 DEF AdvanceEmpty, OrderInv, TypeOK, RunRow
  <2>3. \A n \in begun' : Upstream(template, n) \subseteq done'
    BY <2>1 DEF OrderInv
  <2> QED BY <1>2, <2>1, <2>2, <2>3, EndTaskOrder
          DEF AdvanceEmpty, EndTask, OrderInv
<1>3. ASSUME NEW w \in Worker, AdvanceLoad(w)
      PROVE  OrderInv'
  BY <1>3 DEF AdvanceLoad, SnapshotGraph, GraphOf, OrderInv, OnlyBegun,
     TypeOK, NoRun
<1>4. ASSUME NEW w \in Worker, AdvanceJudge(w)
      PROVE  OrderInv'
  <2> SUFFICES ASSUME begun' \cap Clone = {} PROVE OrderInv'
    BY DEF OrderInv
  <2>1. begun' = begun /\ done' = done /\ node' = node
    BY <1>4 DEF AdvanceJudge
  <2>2. run'.graph \in {NoGraph, template}
    BY <1>4, <2>1 DEF AdvanceJudge, OrderInv, TypeOK, RunRow
  <2>3. \A n \in begun' : Upstream(template, n) \subseteq done'
    BY <2>1 DEF OrderInv
  <2>4. CASE EndTask(w)
    BY <2>1, <2>2, <2>3, <2>4, EndTaskOrder DEF EndTask, OrderInv
  <2>5. CASE ~EndTask(w)
    <3>1. seenRun[w].graph = template
      BY <1>4, <2>1 DEF AdvanceJudge, OrderInv
    <3>2. /\ todo' = [todo EXCEPT ![w] = Ready(template, seenNode[w])]
          /\ UNCHANGED <<seenRun, stop>>
          /\ \A v \in Worker : pc'[v] = "loaded" => pc[v] = "loaded"
      BY <1>4, <2>5, <3>1 DEF AdvanceJudge, TypeOK
    <3>3. \A n \in Ready(template, seenNode[w]) :
             Upstream(template, n) \subseteq done
      BY DEF Ready, Upstream, PassedRecorded, PassedIn
    <3>4. \A v \in Worker : \A n \in todo'[v] :
             Upstream(template, n) \subseteq done'
      BY <2>1, <3>2, <3>3 DEF OrderInv, TypeOK
    <3> QED BY <2>1, <2>2, <2>3, <3>2, <3>4 DEF OrderInv
  <2> QED BY <2>4, <2>5
<1>5. ASSUME NEW w \in Worker, NEW n \in Node, AdvanceDispatch(w, n)
      PROVE  OrderInv'
  <2> SUFFICES ASSUME begun' \cap Clone = {} PROVE OrderInv'
    BY DEF OrderInv
  <2>1. /\ begun \cap Clone = {}
        /\ done' = done /\ run' = run /\ begun' = begun \cup {n}
    BY <1>5 DEF AdvanceDispatch
  <2>2. Upstream(template, n) \subseteq done
    BY <1>5, <2>1 DEF AdvanceDispatch, OrderInv
  <2>3. \A m \in begun' : Upstream(template, m) \subseteq done'
    BY <2>1, <2>2 DEF OrderInv
  <2>4. CASE EndTask(w)
    BY <2>1, <2>3, <2>4, EndTaskOrder DEF EndTask, OrderInv
  <2>5. CASE ~EndTask(w)
    <3>1. /\ todo' = [todo EXCEPT ![w] = todo[w] \ {n}]
          /\ UNCHANGED <<seenRun, stop, pc>>
      BY <1>5, <2>5 DEF AdvanceDispatch
    <3> QED BY <2>1, <2>3, <3>1 DEF OrderInv, TypeOK
  <2> QED BY <2>4, <2>5
<1>6. ASSUME NEW w \in Worker, AdvanceFinalize(w)
      PROVE  OrderInv'
  <2> SUFFICES ASSUME begun' \cap Clone = {} PROVE OrderInv'
    BY DEF OrderInv
  <2>1. begun' = begun /\ done' = done
    BY <1>6 DEF AdvanceFinalize
  <2>2. run'.graph \in {NoGraph, template}
    BY <1>6, <2>1 DEF AdvanceFinalize, OrderInv, TypeOK, RunRow
  <2>3. \A n \in begun' : Upstream(template, n) \subseteq done'
    BY <2>1 DEF OrderInv
  <2> QED BY <1>6, <2>1, <2>2, <2>3, EndTaskOrder
          DEF AdvanceFinalize, EndTask, OrderInv
<1>7. ASSUME NEW w \in Worker, AdvanceFault(w)
      PROVE  OrderInv'
  <2> SUFFICES ASSUME begun' \cap Clone = {} PROVE OrderInv'
    BY DEF OrderInv
  <2>1. begun' = begun /\ done' = done
    BY <1>7 DEF AdvanceFault
  <2>2. run'.graph \in {NoGraph, template}
    BY <1>7, <2>1 DEF AdvanceFault, OrderInv, TypeOK, RunRow
  <2>3. \A n \in begun' : Upstream(template, n) \subseteq done'
    BY <2>1 DEF OrderInv
  <2> QED BY <1>7, <2>1, <2>2, <2>3, EndTaskOrder
          DEF AdvanceFault, EndTask, OrderInv
<1>8. ASSUME NEW w \in Worker, NEW n \in Node, NodeBegin(w, n)
      PROVE  OrderInv'
  BY <1>8 DEF NodeBegin, rows, OrderInv, OnlyBegun, TypeOK, NoRun
<1>9. ASSUME NEW w \in Worker, NodeRefuse(w)
      PROVE  OrderInv'
  <2> SUFFICES ASSUME begun' \cap Clone = {} PROVE OrderInv'
    BY DEF OrderInv
  <2>1. begun' = begun /\ done \subseteq done' /\ run' = run
    BY <1>9 DEF NodeRefuse, SaveNode
  <2>2. \A n \in begun' : Upstream(template, n) \subseteq done'
    BY <2>1 DEF OrderInv
  <2> QED BY <1>9, <2>1, <2>2, EndTaskOrder DEF NodeRefuse, EndTask, OrderInv
<1>10. ASSUME NEW w \in Worker, NodeStart(w)
      PROVE  OrderInv'
  BY <1>10 DEF NodeStart, SaveNode, Held, OrderInv, OnlyBegun, TypeOK,
     NoRun
<1>11. ASSUME NEW w \in Worker, NodeSave(w)
      PROVE  OrderInv'
  BY <1>11 DEF NodeSave, SaveNode, Held, local, OrderInv, OnlyBegun,
     TypeOK, NoRun
<1>12. ASSUME NEW w \in Worker, NEW yaml \in Yamls, NodeSyncYaml(w, yaml)
      PROVE  OrderInv'
  BY <1>12 DEF NodeSyncYaml, OrderInv, OnlyBegun, TypeOK, NoRun
<1>13. ASSUME NEW w \in Worker, NEW o \in {"success", "failed"},
              NodeFinish(w, o)
      PROVE  OrderInv'
  BY <1>13 DEF NodeFinish, SaveNode, Held, OrderInv, OnlyBegun, TypeOK,
     NoRun
<1>14. ASSUME NEW w \in Worker, NodeRetry(w)
      PROVE  OrderInv'
  <2> SUFFICES ASSUME begun' \cap Clone = {} PROVE OrderInv'
    BY DEF OrderInv
  <2>1. begun' = begun /\ done \subseteq done' /\ run' = run
    BY <1>14 DEF NodeRetry, SaveNode
  <2>2. \A n \in begun' : Upstream(template, n) \subseteq done'
    BY <2>1 DEF OrderInv
  <2> QED BY <1>14, <2>1, <2>2, EndTaskOrder DEF NodeRetry, OrderInv
<1>15. ASSUME NEW w \in Worker, NodeNotify(w)
      PROVE  OrderInv'
  <2> SUFFICES ASSUME begun' \cap Clone = {} PROVE OrderInv'
    BY DEF OrderInv
  <2>1. begun' = begun /\ done' = done
    BY <1>15 DEF NodeNotify
  <2>2. run'.graph \in {NoGraph, template}
    BY <1>15, <2>1 DEF NodeNotify, OrderInv, TypeOK, RunRow
  <2>3. \A n \in begun' : Upstream(template, n) \subseteq done'
    BY <2>1 DEF OrderInv
  <2> QED BY <1>15, <2>1, <2>2, <2>3, EndTaskOrder
          DEF NodeNotify, EndTask, OrderInv
<1>16. ASSUME NEW w \in Worker, TaskDies(w)
      PROVE  OrderInv'
  <2> SUFFICES ASSUME begun' \cap Clone = {} PROVE OrderInv'
    BY DEF OrderInv
  <2>1. begun' = begun /\ done' = done
    BY <1>16 DEF TaskDies
  <2>2. run'.graph \in {NoGraph, template}
    BY <1>16, <2>1 DEF TaskDies, OrderInv, TypeOK, RunRow
  <2>3. \A n \in begun' : Upstream(template, n) \subseteq done'
    BY <2>1 DEF OrderInv
  <2> QED BY <1>16, <2>1, <2>2, <2>3, EndTaskOrder
          DEF TaskDies, EndTask, OrderInv
<1>17. ASSUME StopBegin
      PROVE  OrderInv'
  BY <1>17 DEF StopBegin, rows, local, OrderInv, OnlyBegun, TypeOK, NoRun
<1>18. ASSUME StopMark
      PROVE  OrderInv'
  BY <1>18 DEF StopMark, local, OrderInv, OnlyBegun, TypeOK, NoRun
<1>19. ASSUME StopList
      PROVE  OrderInv'
  <2>1. UNCHANGED <<run, seenRun, pc, todo, begun, done>>
    BY <1>19 DEF StopList, rows, local
  <2>2. stop'.run \in {stop.run, NoRun}
    BY <1>19 DEF StopList, StopIdle, TypeOK, StopState
  <2> QED BY <2>1, <2>2 DEF OrderInv, NoRun
<1>20. ASSUME NEW n \in Node, StopNode(n)
      PROVE  OrderInv'
  <2>1. UNCHANGED <<run, seenRun, pc, todo, begun, done>>
    BY <1>20 DEF StopNode, local
  <2>2. stop'.run \in {stop.run, NoRun}
    BY <1>20 DEF StopNode, StopIdle, TypeOK, StopState
  <2> QED BY <2>1, <2>2 DEF OrderInv, NoRun
<1>21. ASSUME NEW a \in Approver, NEW n \in Node, ApproveBegin(a, n)
      PROVE  OrderInv'
  BY <1>21 DEF ApproveBegin, rows, local, OrderInv, OnlyBegun, TypeOK,
     NoRun
<1>22. ASSUME NEW a \in Approver, NEW o \in {"success", "failed"},
              ApproveSave(a, o)
      PROVE  OrderInv'
  BY <1>22 DEF ApproveSave, local, OrderInv, OnlyBegun, TypeOK, NoRun
<1>23. ASSUME NEW a \in Approver, ApproveAdvance(a)
      PROVE  OrderInv'
  BY <1>23 DEF ApproveAdvance, rows, local, OrderInv, OnlyBegun, TypeOK,
     NoRun
<1>24. ASSUME NEW a \in Approver, ApproveFault(a)
      PROVE  OrderInv'
  BY <1>24 DEF ApproveFault, rows, local, OrderInv, OnlyBegun, TypeOK,
     NoRun
<1>25. ASSUME NEW w \in Worker, NEW n \in Node, AdvanceLost(w, n)
      PROVE  OrderInv'
  <2> SUFFICES ASSUME begun' \cap Clone = {} PROVE OrderInv'
    BY DEF OrderInv
  <2>1. /\ begun \cap Clone = {}
        /\ done' = done /\ begun' = begun \cup {n}
    BY <1>25 DEF AdvanceLost
  <2>2. Upstream(template, n) \subseteq done
    BY <1>25, <2>1 DEF AdvanceLost, OrderInv
  <2>3. run'.graph \in {NoGraph, template}
    BY <1>25, <2>1 DEF AdvanceLost, OrderInv, TypeOK, RunRow
  <2>4. \A m \in begun' : Upstream(template, m) \subseteq done'
    BY <2>1, <2>2 DEF OrderInv
  <2> QED BY <1>25, <2>1, <2>3, <2>4, EndTaskOrder
          DEF AdvanceLost, EndTask, OrderInv
<1>26. ASSUME NEW w \in Worker, RetryLost(w)
      PROVE  OrderInv'
  <2> SUFFICES ASSUME begun' \cap Clone = {} PROVE OrderInv'
    BY DEF OrderInv
  <2>1. begun' = begun /\ done \subseteq done' /\ run' = run
    BY <1>26 DEF RetryLost, SaveNode
  <2>2. \A n \in begun' : Upstream(template, n) \subseteq done'
    BY <2>1 DEF OrderInv
  <2> QED BY <1>26, <2>1, <2>2, EndTaskOrder DEF RetryLost, OrderInv
<1>27. ASSUME StopFault
      PROVE  OrderInv'
  BY <1>27 DEF StopFault, StopIdle, rows, local, OrderInv, OnlyBegun, TypeOK,
     NoRun
<1>28. ASSUME Redeliver
      PROVE  OrderInv'
  BY <1>28 DEF Redeliver, rows, local, OrderInv, OnlyBegun, TypeOK,
     NoRun
<1>29. ASSUME UNCHANGED vars PROVE OrderInv'
  BY <1>29 DEF vars, OrderInv, OnlyBegun, TypeOK, NoRun
<1> QED BY <1>1, <1>2, <1>3, <1>4, <1>5, <1>6, <1>7, <1>8, <1>9, <1>10,
       <1>11, <1>12, <1>13, <1>14, <1>15, <1>16, <1>17, <1>18, <1>19,
       <1>20, <1>21, <1>22, <1>23, <1>24, <1>25,
       <1>26, <1>27, <1>28, <1>29 DEF Next, Over,
       EngineStep, NodeStep, StopStep, ApproveStep

\* What CreatedInv says of the snapshots survives the end of a task.
LEMMA EndTaskCreated ==
    ASSUME TypeOK, CreatedInv, NEW w \in Worker, NEW tid, EndTaskWith(w, tid)
    PROVE  /\ \A v \in Worker :
                 pc'[v] \in {"loaded", "dispatch", "finalize"} =>
                    /\ Exists(template, seenNode'[v])
                    /\ seenRun'[v].graph # NoGraph
           /\ \A v \in Worker : pc'[v] = "finalize" =>
                    ~HasStatus(seenNode'[v], {"running", "waiting"})
           /\ stop'.run = stop.run
           /\ \A v \in Worker :
                 seenRun'[v].graph \in {NoGraph, seenRun[v].graph}
<1>1. ASSUME NEW v \in Worker
      PROVE  /\ pc'[v] \in {"loaded", "dispatch", "finalize"} =>
                    /\ Exists(template, seenNode'[v])
                    /\ seenRun'[v].graph # NoGraph
             /\ pc'[v] = "finalize" =>
                    ~HasStatus(seenNode'[v], {"running", "waiting"})
             /\ seenRun'[v].graph \in {NoGraph, seenRun[v].graph}
  <2>1. CASE v = w
    BY <2>1, EndTaskEffect DEF NoRun
  <2>2. CASE v # w
    <3>1. /\ pc'[v] = pc[v] /\ seenNode'[v] = seenNode[v]
          /\ seenRun'[v] = seenRun[v]
      BY <2>2, EndTaskEffect
    <3> QED BY <3>1 DEF CreatedInv
  <2> QED BY <2>1, <2>2
<1> QED BY <1>1, EndTaskEffect

\* CreatedInv is kept by every step.
LEMMA CreatedStep ==
    ASSUME TypeOK, TypeOK', OnlyBegun, CreatedInv, [Next]_vars
    PROVE  CreatedInv'
<1> USE GraphAssumption, NodeAssumption, ActorAssumption
<1> template' = template
  BY TemplateKept
<1>1. ASSUME NEW w \in Worker, AdvanceBegin(w)
      PROVE  CreatedInv'
  <2>1. seenRun \in [Worker -> RunRow] /\ pc \in [Worker -> Pc]
    BY DEF TypeOK
  <2>2. UNCHANGED <<node, run, stop, seenNode, begun>>
    BY <1>1 DEF AdvanceBegin
  <2>3. \/ UNCHANGED <<pc, seenRun>>
        \/ /\ pc' = [pc EXCEPT ![w] = "read"]
           /\ seenRun' = [seenRun EXCEPT ![w] = run]
    BY <1>1 DEF AdvanceBegin
  <2> QED BY <2>1, <2>2, <2>3 DEF CreatedInv, Exists, HasStatus
<1>2. ASSUME NEW w \in Worker, AdvanceEmpty(w)
      PROVE  CreatedInv'
  <2>1. \/ Exists(template, node')
        \/ /\ run'.graph = NoGraph /\ stop.run.graph = NoGraph
           /\ \A v \in Worker : seenRun[v].graph = NoGraph
           /\ begun' = {}
    BY <1>2 DEF AdvanceEmpty, CreatedInv, Exists, GraphOf, TypeOK, RunRow
  <2>2. EndTaskWith(w, ids)
    BY <1>2 DEF AdvanceEmpty, EndTask
  <2> QED BY <2>1, <2>2, EndTaskCreated DEF CreatedInv
<1>3. ASSUME NEW w \in Worker, AdvanceLoad(w)
      PROVE  CreatedInv'
  <2>0. \A n \in Node :
          /\ n \in GraphOf(w).nodes => node'[n].status # "absent"
          /\ node[n].status # "absent" => node'[n].status # "absent"
    BY <1>3 DEF AdvanceLoad, TypeOK, NodeRow
  <2>1. Exists(template, node')
    <3>1. CASE seenRun[w].graph = NoGraph
      BY <2>0, <3>1 DEF GraphOf, Exists, Graph, TypeOK
    <3>2. CASE seenRun[w].graph # NoGraph
      <4>1. Exists(template, node)
        BY <3>2 DEF CreatedInv
      <4> QED BY <2>0, <4>1 DEF Exists, Graph, TypeOK
    <3> QED BY <3>1, <3>2
  <2>2. GraphOf(w) # NoGraph
    BY DEF GraphOf, TypeOK
  <2>3. /\ seenNode' = [seenNode EXCEPT ![w] = node']
        /\ pc' = [pc EXCEPT ![w] = "loaded"]
        /\ seenRun' = [seenRun EXCEPT ![w].graph = GraphOf(w)]
    BY <1>3 DEF AdvanceLoad
  <2>4. \A v \in Worker : seenRun'[v].graph = IF v = w THEN GraphOf(w)
                                         ELSE seenRun[v].graph
    BY <2>3 DEF TypeOK, RunRow
  <2> QED BY <2>1, <2>2, <2>3, <2>4 DEF CreatedInv, TypeOK
<1>4. ASSUME NEW w \in Worker, AdvanceJudge(w)
      PROVE  CreatedInv'
  <2>1. Exists(template, node') /\ node' = node /\ begun' = begun
    BY <1>4 DEF AdvanceJudge, CreatedInv
  <2>2. CASE EndTask(w)
    BY <2>1, <2>2, EndTaskCreated DEF EndTask, CreatedInv
  <2>3. CASE ~EndTask(w)
    <3>1. /\ UNCHANGED <<seenRun, seenNode, stop>>
          /\ \A v \in Worker \ {w} : pc'[v] = pc[v]
          /\ \/ pc'[w] = "dispatch"
             \/ /\ pc'[w] = "finalize"
                /\ ~HasStatus(seenNode[w], {"running", "waiting"})
      BY <1>4, <2>3 DEF AdvanceJudge, TypeOK
    <3>2. Exists(template, seenNode[w]) /\ seenRun[w].graph # NoGraph
      BY <1>4 DEF AdvanceJudge, CreatedInv
    <3> QED BY <2>1, <3>1, <3>2 DEF CreatedInv
  <2> QED BY <2>2, <2>3
<1>5. ASSUME NEW w \in Worker, NEW n \in Node, AdvanceDispatch(w, n)
      PROVE  CreatedInv'
  <2>1. Exists(template, node')
    <3>1. Exists(template, node)
      BY <1>5 DEF AdvanceDispatch, CreatedInv
    <3> QED BY <1>5, <3>1 DEF AdvanceDispatch, Exists, TypeOK, NodeRow
  <2>2. CASE EndTask(w)
    BY <2>1, <2>2, EndTaskCreated DEF EndTask, CreatedInv
  <2>3. CASE ~EndTask(w)
    <3>1. UNCHANGED <<seenRun, seenNode, stop, pc>>
      BY <1>5, <2>3 DEF AdvanceDispatch
    <3> QED BY <2>1, <3>1 DEF CreatedInv
  <2> QED BY <2>2, <2>3
<1>6. ASSUME NEW w \in Worker, AdvanceFinalize(w)
      PROVE  CreatedInv'
  <2>1. \/ Exists(template, node')
        \/ /\ run'.graph = NoGraph /\ stop.run.graph = NoGraph
           /\ \A v \in Worker : seenRun[v].graph = NoGraph
           /\ begun' = {}
    BY <1>6 DEF AdvanceFinalize, CreatedInv, Exists, TypeOK, RunRow
  <2>2. EndTaskWith(w, ids)
    BY <1>6 DEF AdvanceFinalize, EndTask
  <2> QED BY <2>1, <2>2, EndTaskCreated DEF CreatedInv
<1>7. ASSUME NEW w \in Worker, AdvanceFault(w)
      PROVE  CreatedInv'
  <2>1. \/ Exists(template, node')
        \/ /\ run'.graph = NoGraph /\ stop.run.graph = NoGraph
           /\ \A v \in Worker : seenRun[v].graph = NoGraph
           /\ begun' = {}
    BY <1>7 DEF AdvanceFault, CreatedInv, Exists, TypeOK, RunRow
  <2>2. EndTaskWith(w, ids)
    BY <1>7 DEF AdvanceFault, EndTask
  <2> QED BY <2>1, <2>2, EndTaskCreated DEF CreatedInv
<1>8. ASSUME NEW w \in Worker, NEW n \in Node, NodeBegin(w, n)
      PROVE  CreatedInv'
  BY <1>8 DEF NodeBegin, rows, CreatedInv, Exists, OnlyBegun, TypeOK,
     NoRun, Held
<1>9. ASSUME NEW w \in Worker, NodeRefuse(w)
      PROVE  CreatedInv'
  <2>1. Exists(template, node')
    <3>1. Exists(template, node)
      BY <1>9 DEF NodeRefuse, OnlyBegun, CreatedInv
    <3> QED BY <1>9, <3>1 DEF NodeRefuse, Exists, SaveNode, Held, TypeOK
  <2>2. EndTaskWith(w, ids)
    BY <1>9 DEF NodeRefuse, EndTask
  <2> QED BY <2>1, <2>2, EndTaskCreated DEF CreatedInv
<1>10. ASSUME NEW w \in Worker, NodeStart(w)
      PROVE  CreatedInv'
  BY <1>10 DEF NodeStart, SaveNode, Held, CreatedInv, Exists, OnlyBegun,
     TypeOK, NoRun, Held
<1>11. ASSUME NEW w \in Worker, NodeSave(w)
      PROVE  CreatedInv'
  BY <1>11 DEF NodeSave, SaveNode, Held, local, CreatedInv, Exists,
     OnlyBegun, TypeOK, NoRun, Held
<1>12. ASSUME NEW w \in Worker, NEW yaml \in Yamls, NodeSyncYaml(w, yaml)
      PROVE  CreatedInv'
  BY <1>12 DEF NodeSyncYaml, CreatedInv, Exists, OnlyBegun, TypeOK, NoRun,
     Held
<1>13. ASSUME NEW w \in Worker, NEW o \in {"success", "failed"},
              NodeFinish(w, o)
      PROVE  CreatedInv'
  BY <1>13 DEF NodeFinish, SaveNode, Held, CreatedInv, Exists, OnlyBegun,
     TypeOK, NoRun, Held
<1>14. ASSUME NEW w \in Worker, NodeRetry(w)
      PROVE  CreatedInv'
  <2>1. Exists(template, node')
    <3>1. Exists(template, node)
      BY <1>14 DEF NodeRetry, OnlyBegun, CreatedInv
    <3> QED BY <1>14, <3>1 DEF NodeRetry, Exists, SaveNode, Held, TypeOK
  <2>2. EndTaskWith(w, [ids EXCEPT !.node[job[w]] = w])
    BY <1>14 DEF NodeRetry, EndTask
  <2> QED BY <2>1, <2>2, EndTaskCreated DEF CreatedInv
<1>15. ASSUME NEW w \in Worker, NodeNotify(w)
      PROVE  CreatedInv'
  <2>1. \/ Exists(template, node')
        \/ /\ run'.graph = NoGraph /\ stop.run.graph = NoGraph
           /\ \A v \in Worker : seenRun[v].graph = NoGraph
           /\ begun' = {}
    BY <1>15 DEF NodeNotify, CreatedInv, Exists, TypeOK, RunRow
  <2>2. EndTaskWith(w, ids)
    BY <1>15 DEF NodeNotify, EndTask
  <2> QED BY <2>1, <2>2, EndTaskCreated DEF CreatedInv
<1>16. ASSUME NEW w \in Worker, TaskDies(w)
      PROVE  CreatedInv'
  <2>1. \/ Exists(template, node')
        \/ /\ run'.graph = NoGraph /\ stop.run.graph = NoGraph
           /\ \A v \in Worker : seenRun[v].graph = NoGraph
           /\ begun' = {}
    BY <1>16 DEF TaskDies, CreatedInv, Exists, TypeOK, RunRow
  <2>2. EndTaskWith(w, ids)
    BY <1>16 DEF TaskDies, EndTask
  <2> QED BY <2>1, <2>2, EndTaskCreated DEF CreatedInv
<1>17. ASSUME StopBegin
      PROVE  CreatedInv'
  BY <1>17 DEF StopBegin, rows, local, CreatedInv, Exists, OnlyBegun,
     TypeOK, NoRun, Held
<1>18. ASSUME StopMark
      PROVE  CreatedInv'
  BY <1>18 DEF StopMark, local, CreatedInv, Exists, OnlyBegun, TypeOK,
     NoRun, Held
<1>19. ASSUME StopList
      PROVE  CreatedInv'
  <2>1. UNCHANGED <<run, node, seenRun, seenNode, pc, begun>>
    BY <1>19 DEF StopList, rows, local
  <2>2. stop'.run \in {stop.run, NoRun}
    BY <1>19 DEF StopList, StopIdle, TypeOK, StopState
  <2> QED BY <2>1, <2>2 DEF CreatedInv, NoRun
<1>20. ASSUME NEW n \in Node, StopNode(n)
      PROVE  CreatedInv'
  <2>1. UNCHANGED <<run, seenRun, seenNode, pc, begun>>
    BY <1>20 DEF StopNode, local
  <2>2. stop'.run \in {stop.run, NoRun}
    BY <1>20 DEF StopNode, StopIdle, TypeOK, StopState
  <2>3. Exists(template, node) => Exists(template, node')
    BY <1>20 DEF StopNode, StoppedRow, Exists, TypeOK, StopState, NodeRow
  <2> QED BY <2>1, <2>2, <2>3 DEF CreatedInv, NoRun
<1>21. ASSUME NEW a \in Approver, NEW n \in Node, ApproveBegin(a, n)
      PROVE  CreatedInv'
  BY <1>21 DEF ApproveBegin, rows, local, CreatedInv, Exists, OnlyBegun,
     TypeOK, NoRun, Held
<1>22. ASSUME NEW a \in Approver, NEW o \in {"success", "failed"},
              ApproveSave(a, o)
      PROVE  CreatedInv'
  BY <1>22 DEF ApproveSave, local, CreatedInv, Exists, OnlyBegun, TypeOK,
     NoRun, Held
<1>23. ASSUME NEW a \in Approver, ApproveAdvance(a)
      PROVE  CreatedInv'
  BY <1>23 DEF ApproveAdvance, rows, local, CreatedInv, Exists, OnlyBegun,
     TypeOK, NoRun, Held
<1>24. ASSUME NEW a \in Approver, ApproveFault(a)
      PROVE  CreatedInv'
  BY <1>24 DEF ApproveFault, rows, local, CreatedInv, Exists, OnlyBegun,
     TypeOK, NoRun, Held
<1>25. ASSUME NEW w \in Worker, NEW n \in Node, AdvanceLost(w, n)
      PROVE  CreatedInv'
  <2>1. Exists(template, node')
    <3>1. Exists(template, node)
      BY <1>25 DEF AdvanceLost, CreatedInv
    <3> QED BY <1>25, <3>1 DEF AdvanceLost, Exists, TypeOK, NodeRow
  <2>2. EndTaskWith(w, ids)
    BY <1>25 DEF AdvanceLost, EndTask
  <2> QED BY <2>1, <2>2, EndTaskCreated DEF CreatedInv
<1>26. ASSUME NEW w \in Worker, RetryLost(w)
      PROVE  CreatedInv'
  <2>1. Exists(template, node')
    <3>1. Exists(template, node)
      BY <1>26 DEF RetryLost, OnlyBegun, CreatedInv
    <3> QED BY <1>26, <3>1 DEF RetryLost, Exists, SaveNode, Held, TypeOK
  <2>2. EndTaskWith(w, [ids EXCEPT !.node[job[w]] = w])
    BY <1>26 DEF RetryLost
  <2> QED BY <2>1, <2>2, EndTaskCreated DEF CreatedInv
<1>27. ASSUME StopFault
      PROVE  CreatedInv'
  BY <1>27 DEF StopFault, StopIdle, rows, local, CreatedInv, Exists, OnlyBegun,
     TypeOK, NoRun, Held
<1>28. ASSUME Redeliver
      PROVE  CreatedInv'
  BY <1>28 DEF Redeliver, rows, local, CreatedInv, Exists, OnlyBegun,
     TypeOK, NoRun, Held
<1>29. ASSUME UNCHANGED vars PROVE CreatedInv'
  BY <1>29 DEF vars, CreatedInv, Exists, OnlyBegun, TypeOK, NoRun, Held
<1> QED BY <1>1, <1>2, <1>3, <1>4, <1>5, <1>6, <1>7, <1>8, <1>9, <1>10,
       <1>11, <1>12, <1>13, <1>14, <1>15, <1>16, <1>17, <1>18, <1>19,
       <1>20, <1>21, <1>22, <1>23, <1>24, <1>25,
       <1>26, <1>27, <1>28, <1>29 DEF Next, Over,
       EngineStep, NodeStep, StopStep, ApproveStep

\* SuccessMeansPassed is kept by every step.
LEMMA SuccessStep ==
    ASSUME TypeOK, TypeOK', PassedRecorded, CreatedInv, SuccessMeansPassed,
           [Next]_vars
    PROVE  SuccessMeansPassed'
<1> USE GraphAssumption, NodeAssumption, ActorAssumption
<1> template' = template
  BY TemplateKept
<1>1. ASSUME NEW w \in Worker, AdvanceBegin(w)
      PROVE  SuccessMeansPassed'
  BY <1>1 DEF AdvanceBegin, SuccessMeansPassed, TypeOK, RunRow
<1>2. ASSUME NEW w \in Worker, AdvanceEmpty(w)
      PROVE  SuccessMeansPassed'
  BY <1>2, EndTaskEffect DEF AdvanceEmpty, EndTask, SuccessMeansPassed,
     TypeOK, RunRow
<1>3. ASSUME NEW w \in Worker, AdvanceLoad(w)
      PROVE  SuccessMeansPassed'
  BY <1>3 DEF AdvanceLoad, SnapshotGraph, GraphOf, SuccessMeansPassed,
     TypeOK, RunRow
<1>4. ASSUME NEW w \in Worker, AdvanceJudge(w)
      PROVE  SuccessMeansPassed'
  BY <1>4, EndTaskEffect DEF AdvanceJudge, EndTask, SuccessMeansPassed,
     TypeOK, RunRow
<1>5. ASSUME NEW w \in Worker, NEW n \in Node, AdvanceDispatch(w, n)
      PROVE  SuccessMeansPassed'
  BY <1>5, EndTaskEffect DEF AdvanceDispatch, EndTask, SuccessMeansPassed,
     TypeOK, RunRow
<1>6. ASSUME NEW w \in Worker, AdvanceFinalize(w)
      PROVE  SuccessMeansPassed'
  <2> SUFFICES ASSUME run'.status = "success"
               PROVE  template.nodes \subseteq done
    BY <1>6 DEF AdvanceFinalize, SuccessMeansPassed
  <2>1. Verdict(seenNode[w]) = "success"
    BY <1>6 DEF AdvanceFinalize, TypeOK, RunRow
  <2>2. /\ Exists(template, seenNode[w])
        /\ ~HasStatus(seenNode[w], {"running", "waiting"})
        /\ PassedIn(seenNode[w]) \subseteq done
    BY <1>6 DEF AdvanceFinalize, CreatedInv, PassedRecorded
  <2>3. /\ ~HasStatus(seenNode[w], {"failed"})
        /\ ~HasStatus(seenNode[w], {"cancelled"})
        /\ ~HasStatus(seenNode[w], {"pending"})
    BY <2>1 DEF Verdict
  <2>4. ASSUME NEW n \in template.nodes PROVE n \in done
    <3>1. n \in Node /\ seenNode[w][n].status \in NodeStatus
      BY DEF TypeOK, NodeRow, Graph
    <3>2. seenNode[w][n].status \in Passed
      BY <2>2, <2>3, <3>1 DEF Exists, HasStatus, NodeStatus, Passed
    <3> QED BY <2>2, <3>1, <3>2 DEF PassedIn
  <2> QED BY <2>4
<1>7. ASSUME NEW w \in Worker, AdvanceFault(w)
      PROVE  SuccessMeansPassed'
  BY <1>7, EndTaskEffect DEF AdvanceFault, EndTask, SuccessMeansPassed,
     TypeOK, RunRow
<1>8. ASSUME NEW w \in Worker, NEW n \in Node, NodeBegin(w, n)
      PROVE  SuccessMeansPassed'
  BY <1>8 DEF NodeBegin, rows, SuccessMeansPassed, TypeOK, RunRow
<1>9. ASSUME NEW w \in Worker, NodeRefuse(w)
      PROVE  SuccessMeansPassed'
  BY <1>9, EndTaskEffect DEF NodeRefuse, SaveNode, Held, EndTask,
     SuccessMeansPassed, TypeOK, RunRow
<1>10. ASSUME NEW w \in Worker, NodeStart(w)
      PROVE  SuccessMeansPassed'
  BY <1>10 DEF NodeStart, SaveNode, Held, SuccessMeansPassed, TypeOK,
     RunRow
<1>11. ASSUME NEW w \in Worker, NodeSave(w)
      PROVE  SuccessMeansPassed'
  BY <1>11 DEF NodeSave, SaveNode, Held, local, SuccessMeansPassed,
     TypeOK, RunRow
<1>12. ASSUME NEW w \in Worker, NEW yaml \in Yamls, NodeSyncYaml(w, yaml)
      PROVE  SuccessMeansPassed'
  BY <1>12 DEF NodeSyncYaml, SuccessMeansPassed, TypeOK, RunRow
<1>13. ASSUME NEW w \in Worker, NEW o \in {"success", "failed"},
              NodeFinish(w, o)
      PROVE  SuccessMeansPassed'
  BY <1>13 DEF NodeFinish, SaveNode, Held, SuccessMeansPassed, TypeOK,
     RunRow
<1>14. ASSUME NEW w \in Worker, NodeRetry(w)
      PROVE  SuccessMeansPassed'
  BY <1>14, EndTaskEffect DEF NodeRetry, SaveNode, Held,
     SuccessMeansPassed, TypeOK, RunRow
<1>15. ASSUME NEW w \in Worker, NodeNotify(w)
      PROVE  SuccessMeansPassed'
  BY <1>15, EndTaskEffect DEF NodeNotify, EndTask, SuccessMeansPassed,
     TypeOK, RunRow
<1>16. ASSUME NEW w \in Worker, TaskDies(w)
      PROVE  SuccessMeansPassed'
  BY <1>16, EndTaskEffect DEF TaskDies, EndTask, SuccessMeansPassed,
     TypeOK, RunRow
<1>17. ASSUME StopBegin
      PROVE  SuccessMeansPassed'
  BY <1>17 DEF StopBegin, rows, local, SuccessMeansPassed, TypeOK, RunRow
<1>18. ASSUME StopMark
      PROVE  SuccessMeansPassed'
  BY <1>18 DEF StopMark, local, SuccessMeansPassed, TypeOK, RunRow
<1>19. ASSUME StopList
      PROVE  SuccessMeansPassed'
  BY <1>19 DEF StopList, rows, local, SuccessMeansPassed, TypeOK, RunRow
<1>20. ASSUME NEW n \in Node, StopNode(n)
      PROVE  SuccessMeansPassed'
  BY <1>20 DEF StopNode, StoppedRow, local, SuccessMeansPassed, TypeOK,
     RunRow
<1>21. ASSUME NEW a \in Approver, NEW n \in Node, ApproveBegin(a, n)
      PROVE  SuccessMeansPassed'
  BY <1>21 DEF ApproveBegin, rows, local, SuccessMeansPassed, TypeOK,
     RunRow
<1>22. ASSUME NEW a \in Approver, NEW o \in {"success", "failed"},
              ApproveSave(a, o)
      PROVE  SuccessMeansPassed'
  BY <1>22 DEF ApproveSave, local, SuccessMeansPassed, TypeOK, RunRow
<1>23. ASSUME NEW a \in Approver, ApproveAdvance(a)
      PROVE  SuccessMeansPassed'
  BY <1>23 DEF ApproveAdvance, rows, local, SuccessMeansPassed, TypeOK,
     RunRow
<1>24. ASSUME NEW a \in Approver, ApproveFault(a)
      PROVE  SuccessMeansPassed'
  BY <1>24 DEF ApproveFault, rows, local, SuccessMeansPassed, TypeOK,
     RunRow
<1>25. ASSUME NEW w \in Worker, NEW n \in Node, AdvanceLost(w, n)
      PROVE  SuccessMeansPassed'
  BY <1>25, EndTaskEffect DEF AdvanceLost, EndTask, SuccessMeansPassed,
     TypeOK, RunRow
<1>26. ASSUME NEW w \in Worker, RetryLost(w)
      PROVE  SuccessMeansPassed'
  BY <1>26, EndTaskEffect DEF RetryLost, SaveNode, Held,
     SuccessMeansPassed, TypeOK, RunRow
<1>27. ASSUME StopFault
      PROVE  SuccessMeansPassed'
  BY <1>27 DEF StopFault, rows, local, SuccessMeansPassed, TypeOK
<1>28. ASSUME Redeliver
      PROVE  SuccessMeansPassed'
  BY <1>28 DEF Redeliver, rows, local, SuccessMeansPassed, TypeOK
<1>29. ASSUME UNCHANGED vars PROVE SuccessMeansPassed'
  BY <1>29 DEF vars, SuccessMeansPassed, TypeOK, RunRow
<1> QED BY <1>1, <1>2, <1>3, <1>4, <1>5, <1>6, <1>7, <1>8, <1>9, <1>10,
       <1>11, <1>12, <1>13, <1>14, <1>15, <1>16, <1>17, <1>18, <1>19,
       <1>20, <1>21, <1>22, <1>23, <1>24, <1>25,
       <1>26, <1>27, <1>28, <1>29 DEF Next, Over,
       EngineStep, NodeStep, StopStep, ApproveStep

\* IndInv holds in every reachable state: its parts are kept together.
THEOREM Inductive == Spec => []IndInv
<1>1. Init => IndInv
  <2> SUFFICES ASSUME Init PROVE IndInv
    OBVIOUS
  <2> USE GraphAssumption DEF Init
  <2>1. PassedRecorded
    BY DEF PassedRecorded, PassedIn, NoNodes, Absent, Passed
  <2>2. OnlyBegun
    BY DEF OnlyBegun
  <2>3. OrderInv
    BY DEF OrderInv, NoRun, StopIdle
  <2>4. CreatedInv
    BY DEF CreatedInv, NoRun, StopIdle
  <2>5. SuccessMeansPassed
    BY DEF SuccessMeansPassed, NoRun
  <2> QED BY <2>1, <2>2, <2>3, <2>4, <2>5 DEF IndInv
<1>2. TypeOK /\ TypeOK' /\ IndInv /\ [Next]_vars => IndInv'
  BY PassedStep, OnlyBegunStep, OrderStep, CreatedStep, SuccessStep DEF IndInv
<1> QED BY <1>1, <1>2, TypeCorrect, PTL DEF Spec

\* For every graph, pool, number of stops and of crashes: no node is
\* dispatched before its upstream nodes have passed (until a git_clone node
\* begins, whose repository may replace the graph).
THEOREM OrderKept == Spec => []DependencyOrder
<1>1. IndInv => DependencyOrder
  BY DEF IndInv, OrderInv, DependencyOrder
<1> QED BY <1>1, Inductive, PTL

\* A run is reported successful only when every node of its template has
\* passed, whatever races, stops and crashes happened on the way.
THEOREM SuccessSound == Spec => []SuccessMeansPassed
<1>1. IndInv => SuccessMeansPassed
  BY DEF IndInv
<1> QED BY <1>1, Inductive, PTL

\* A task that read a cancelled run refuses it and does nothing else.
CancelledRead ==
    \A w \in Worker : seenRun[w].status = "cancelled" => pc[w] = "refuse"

\* A task that ends holds no run any more.
LEMMA EndTaskRead ==
    ASSUME TypeOK, CancelledRead, NEW w \in Worker, NEW tid \in Ids,
           EndTaskWith(w, tid)
    PROVE  CancelledRead'
BY DEF EndTaskWith, CancelledRead, TypeOK, NoRun

\* CancelledRead is kept by every step.
LEMMA CancelledReadStep ==
    TypeOK /\ CancelledRead /\ [Next]_vars => CancelledRead'
<1> SUFFICES ASSUME TypeOK, CancelledRead, [Next]_vars
             PROVE  CancelledRead'
  OBVIOUS
<1> USE DEF CancelledRead
<1>0. ids \in Ids /\ seenRun \in [Worker -> RunRow] /\ pc \in [Worker -> Pc]
      /\ run \in RunRow
  BY DEF TypeOK
<1>1. ASSUME NEW w \in Worker, EndTask(w)
      PROVE  CancelledRead'
  BY <1>0, <1>1, EndTaskRead DEF EndTask
<1>2. ASSUME NEW w \in Worker, AdvanceBegin(w)
      PROVE  CancelledRead'
  BY <1>0, <1>2 DEF AdvanceBegin, Final
<1>3. ASSUME NEW w \in Worker, AdvanceLoad(w)
      PROVE  CancelledRead'
  BY <1>0, <1>3 DEF AdvanceLoad, RunRow
<1>4. ASSUME NEW w \in Worker, AdvanceJudge(w)
      PROVE  CancelledRead'
  <2>1. EndTask(w) \/ (seenRun' = seenRun /\ \E q \in Pc :
                          pc[w] = "loaded" /\ pc' = [pc EXCEPT ![w] = q])
    BY <1>4 DEF AdvanceJudge, Pc
  <2> QED BY <1>0, <1>1, <2>1
<1>5. ASSUME NEW w \in Worker, NEW n \in Node, AdvanceDispatch(w, n)
      PROVE  CancelledRead'
  BY <1>1, <1>5 DEF AdvanceDispatch
<1>6. ASSUME NEW w \in Worker, NEW n \in Node, NodeBegin(w, n)
      PROVE  CancelledRead'
  BY <1>0, <1>6 DEF NodeBegin, RunRow
<1>7. ASSUME NEW w \in Worker,
             \/ NodeStart(w)
             \/ \E yaml \in Yamls : NodeSyncYaml(w, yaml)
             \/ \E outcome \in {"success", "failed"} : NodeFinish(w, outcome)
      PROVE  CancelledRead'
  <2>1. seenRun' = seenRun /\ pc[w] # "refuse"
        /\ \E q \in Pc : pc' = [pc EXCEPT ![w] = q]
    BY <1>7 DEF NodeStart, NodeSyncYaml, NodeFinish, Pc
  <2> QED BY <1>0, <2>1
<1>8. ASSUME NEW w \in Worker,
             \/ AdvanceEmpty(w) \/ AdvanceFinalize(w) \/ AdvanceFault(w)
             \/ \E n \in Node : AdvanceLost(w, n)
             \/ NodeRefuse(w) \/ NodeNotify(w) \/ TaskDies(w)
      PROVE  CancelledRead'
  BY <1>1, <1>8 DEF AdvanceEmpty, AdvanceFinalize, AdvanceFault, AdvanceLost,
     NodeRefuse, NodeNotify, TaskDies
<1>9. ASSUME NEW w \in Worker, NodeRetry(w) \/ RetryLost(w)
      PROVE  CancelledRead'
  <2>1. job[w] \in Node
    BY <1>9 DEF NodeRetry, RetryLost, TypeOK
  <2>2. [ids EXCEPT !.node[job[w]] = w] \in Ids
    BY <1>0, <2>1, IdsType
  <2> QED BY <1>9, <2>2, EndTaskRead DEF NodeRetry, RetryLost
<1>10. ASSUME NEW w \in Worker, NodeSave(w)
       PROVE  CancelledRead'
  BY <1>10 DEF NodeSave, local
<1>11. ASSUME \/ StopBegin \/ StopStep \/ StopFault \/ Redeliver \/ Over
              \/ UNCHANGED vars
              \/ \E a \in Approver : ApproveStep(a) \/ ApproveFault(a)
       PROVE  CancelledRead'
  <2>1. UNCHANGED <<pc, seenRun>>
    BY <1>11 DEF StopBegin, StopStep, StopMark, StopList, StopNode, StopFault,
       Redeliver, Over, vars, local, ApproveStep, ApproveBegin, ApproveSave,
       ApproveAdvance, ApproveFault
  <2> QED BY <2>1
<1> QED BY <1>2, <1>3, <1>4, <1>5, <1>6, <1>7, <1>8, <1>9, <1>10, <1>11
        DEF Next, EngineStep, NodeStep

\* A cancelled run, once drained, takes no step that revives it or one of its
\* nodes: the stop endpoint's promise as far as the code keeps it.
THEOREM CancelHolds == Spec => CancelSticks
<1>1. ASSUME TypeOK, CancelledRead, [Next]_vars, CancelledAndDrained
      PROVE  /\ run'.status = "cancelled"
             /\ \A n \in Node : node'[n].status = "running" =>
                                 node[n].status = "running"
  <2>0. \A w \in Worker : pc[w] \in {"idle", "refuse", "notify"}
    BY <1>1 DEF CancelledAndDrained, CancelledRead
  <2> USE <1>1, <2>0 DEF CancelledAndDrained, TypeOK
  <2>1. ASSUME NEW w \in Worker, EngineStep(w)
        PROVE  UNCHANGED <<run, node>>
    <3>1. AdvanceBegin(w)
      BY <2>1 DEF EngineStep, AdvanceEmpty, AdvanceLoad, AdvanceJudge,
         AdvanceDispatch, AdvanceFinalize
    <3> QED BY <3>1 DEF AdvanceBegin
  <2>2. ASSUME NEW w \in Worker, NodeStep(w)
        PROVE  /\ run' = run
               /\ \A n \in Node : node'[n].status = "running" =>
                                   node[n].status = "running"
    <3>1. \/ \E n \in Node : NodeBegin(w, n)
          \/ NodeRefuse(w) \/ NodeNotify(w)
      BY <2>2 DEF NodeStep, NodeStart, NodeSyncYaml, NodeFinish, NodeRetry
    <3>2. CASE NodeRefuse(w)
      <4>1. seenNode[w][job[w]] \in NodeRow /\ job[w] \in Node
        BY <3>2 DEF NodeRefuse
      <4>2. node' = [node EXCEPT
                       ![job[w]] = [Held(w) EXCEPT !.status = "failed"]]
        BY <3>2 DEF NodeRefuse, SaveNode
      <4>3. [Held(w) EXCEPT !.status = "failed"].status = "failed"
        BY <4>1 DEF Held, NodeRow
      <4> QED BY <3>2, <4>1, <4>2, <4>3 DEF NodeRefuse
    <3> QED BY <3>1, <3>2 DEF NodeBegin, NodeNotify, rows
  <2>3. ASSUME NEW w \in Worker,
               \/ NodeSave(w) \/ AdvanceFault(w) \/ RetryLost(w) \/ TaskDies(w)
               \/ \E n \in Node : AdvanceLost(w, n)
        PROVE  UNCHANGED <<run, node>>
    BY <2>3 DEF NodeSave, AdvanceFault, RetryLost, TaskDies, AdvanceLost
  <2>4. /\ ~StopBegin /\ ~StopMark /\ ~StopList /\ ~StopFault
        /\ \A n \in Node : ~StopNode(n)
    BY DEF StopBegin, StopMark, StopList, StopNode, StopFault
  <2>5. ASSUME NEW a \in Approver, ApproveStep(a) \/ ApproveFault(a)
        PROVE  UNCHANGED <<run, node>>
    BY <2>5 DEF ApproveStep, ApproveFault, ApproveBegin, ApproveSave,
       ApproveAdvance, rows
  <2>6. ASSUME Redeliver
        PROVE  UNCHANGED <<run, node>>
    BY <2>6 DEF Redeliver, rows
  <2> QED BY <2>1, <2>2, <2>3, <2>4, <2>5, <2>6
          DEF Next, StopStep, Over, vars
<1>2. Init => CancelledRead
  BY DEF Init, CancelledRead, NoRun
<1>3. Spec => []CancelledRead
  BY <1>2, TypeCorrect, CancelledReadStep, PTL DEF Spec
<1> QED BY <1>1, <1>3, TypeCorrect, PTL DEF Spec, CancelSticks

-----------------------------------------------------------------------------
(* One node at a time.                                                     *)

\* A line: no node has two downstream nodes, and every node is reached from
\* the first one.
Line(g) ==
    /\ \A m, n1, n2 \in Node :
          m \in Upstream(g, n1) /\ m \in Upstream(g, n2) => n1 = n2
    /\ \A r, n \in g.nodes : Upstream(g, r) = {} => r \in Reached(g, n)

\* One node at a time: lines, no graph replaced, nobody stops the run, no
\* message delivered twice, one approver.  Tasks may die, messages get lost.
OneAtATime ==
    /\ \A g \in Templates : Line(g)
    /\ Clone = {} /\ MaxStops = 0 /\ MaxDoubles = 0
    /\ \A u, v \in Approver : u = v

EnginePc == {"read", "loaded", "dispatch", "finalize"}
NodePc   == {"start", "work", "retry", "notify"}

AllIdle   == \A w \in Worker : pc[w] = "idle" /\ job[w] = NoNode
NoMessage == \A n \in Node : nodeQ[n] = 0
Unasked   == \A u \in Approver : approval[u].pc = "idle"
Active(n) == node[n].status \in {"running", "waiting"}
NoActive  == \A n \in Node : ~Active(n)
OnlyActive(n) == \A m \in Node : Active(m) => m = n

\* There is one thing that can go on: the engine's message, a node's message,
\* a task, a wait for approval or an answer to it.
QueueAlone ==
    /\ engineQ > 0 =>
          /\ engineQ = 1 /\ AllIdle /\ NoMessage /\ Unasked /\ NoActive
          /\ run.status \in {"pending", "running"}
    /\ \A n \in Node : nodeQ[n] > 0 =>
          /\ nodeQ[n] = 1 /\ \A m \in Node : nodeQ[m] > 0 => m = n
          /\ AllIdle /\ Unasked /\ OnlyActive(n)
          /\ node[n].status = "running" /\ run.status = "running"
TaskAlone ==
    \A w \in Worker :
        IF pc[w] = "idle" THEN job[w] = NoNode
        ELSE /\ pc[w] \in EnginePc \cup NodePc
             /\ pc[w] \in EnginePc => job[w] = NoNode
             /\ \A v \in Worker : pc[v] # "idle" => v = w
             /\ NoMessage /\ Unasked
AnswerAlone ==
    /\ \A n \in Node : node[n].status = "waiting" =>
          AllIdle /\ NoMessage /\ OnlyActive(n) /\ run.status = "running"
    /\ \A u \in Approver :
          /\ approval[u].pc = "read" =>
                node[approval[u].node].status = "waiting"
          /\ approval[u].pc = "saved" => NoActive /\ run.status = "running"

\* What a task holds is what is stored.
EngineAt ==
    \A w \in Worker : pc[w] \in EnginePc =>
        /\ NoActive
        /\ run.status \in {"pending", "running"}
        /\ pc[w] \in {"read", "loaded"} => seenRun[w].status = run.status
        /\ pc[w] \in {"dispatch", "finalize"} => run.status = "running"
        /\ pc[w] # "read" => seenNode[w] = node /\ template.nodes # {}
        /\ pc[w] = "dispatch" => todo[w] = Ready(template, node)
        /\ pc[w] = "finalize" => Ready(template, node) = {}
NodeAt ==
    \A w \in Worker : pc[w] \in NodePc =>
        /\ OnlyActive(job[w]) /\ run.status = "running"
        /\ seenNode[w][job[w]].status = node[job[w]].status
        /\ pc[w] \in {"start", "work"} => node[job[w]].status = "running"
        /\ pc[w] = "retry" => node[job[w]].status = "failed"
        /\ pc[w] = "notify" => node[job[w]].status \in {"success", "failed"}

\* The histories say no more than the rows.
History ==
    /\ done = PassedIn(node)
    /\ \A n \in Node :
          /\ node[n].status # "absent" => n \in template.nodes
          /\ node[n].status # "cancelled"
          /\ n \in begun <=>
                node[n].status \in {"running", "waiting", "success", "failed"}

\* There is at most one node whose turn it is.
Front(passed) == {n \in template.nodes \ passed :
                    Upstream(template, n) \subseteq passed}
OneNext == \A m, n \in Front(done) : m = n

NotStopped == run.status # "cancelled" /\ stop.pc = "idle" /\ stopsLeft = 0
              /\ faultsLeft.doubled = 0

LineInv ==
    /\ QueueAlone /\ TaskAlone /\ AnswerAlone
    /\ EngineAt /\ NodeAt /\ History /\ OneNext /\ NotStopped

\* The walk backwards from s meets its start and every upstream node of what
\* it meets, and comes to a node only from one of its downstream nodes.
LEMMA ReachedWalk ==
    ASSUME NEW g \in Graph, NEW s \in Node
    PROVE  /\ s \in Reached(g, s) /\ Closed(g, Reached(g, s))
           /\ \A m \in Reached(g, s) \ {s} :
                 \E n \in Reached(g, s) : m \in Upstream(g, n)
<1> DEFINE R == Reached(g, s)
<1>1. s \in R
  BY DEF Reached
<1>2. Closed(g, R)
  <2> SUFFICES ASSUME NEW n \in R, NEW m \in Upstream(g, n),
                      NEW S \in SUBSET Node, s \in S, Closed(g, S)
               PROVE  m \in S
    BY DEF Closed, Reached, Upstream
  <2>1. n \in S
    BY DEF Reached
  <2> QED BY <2>1 DEF Closed
<1>3. ASSUME NEW m \in R \ {s}, \A n \in R : m \notin Upstream(g, n)
      PROVE  FALSE
  <2>1. R \ {m} \in SUBSET Node /\ s \in R \ {m}
    BY <1>1 DEF Reached
  <2>2. Closed(g, R \ {m})
    BY <1>2, <1>3 DEF Closed
  <2> QED BY <2>1, <2>2 DEF Reached
<1> QED BY <1>1, <1>2, <1>3

\* A retry of a line starts with one node whose turn it is: the start node.
LEMMA RetryFront ==
    ASSUME OneAtATime, template \in Templates, NEW s \in template.nodes,
           NEW n \in Front(Ancestors(template, s))
    PROVE  n = s
<1> DEFINE R == Reached(template, s)
<1>0. template \in Graph /\ Line(template) /\ s \in Node /\ n \in Node
      /\ n \in template.nodes /\ n \notin R \ {s}
      /\ Upstream(template, n) \subseteq R \ {s}
  BY GraphAssumption DEF OneAtATime, Graph, Front, Ancestors
<1>1. SUFFICES ASSUME n # s PROVE FALSE
  OBVIOUS
<1>2. CASE Upstream(template, n) = {}
  BY <1>0, <1>1, <1>2 DEF Line
<1>3. CASE Upstream(template, n) # {}
  <2>1. PICK m \in Upstream(template, n) : m \in R \ {s}
    BY <1>0, <1>3
  <2>2. PICK x \in R : m \in Upstream(template, x)
    BY <1>0, <2>1, ReachedWalk
  <2>3. m \in Node /\ x \in Node
    BY <2>1, <2>2 DEF Upstream, Reached
  <2>4. n = x
    BY <1>0, <2>1, <2>2, <2>3 DEF Line
  <2> QED BY <1>0, <1>1, <2>2, <2>4
<1> QED BY <1>2, <1>3

\* LineInv holds of a new run, and of a retry of a failed one.
LEMMA LineInit == ASSUME OneAtATime, Init PROVE LineInv
<1> USE NodeAssumption, ActorAssumption DEF Init
<1>0. \A n \in Node : node[n].status \in {"absent", "pending", "skipped"}
  BY DEF NoNodes, Absent, RetryNodes
<1>1. QueueAlone /\ TaskAlone
  <2>1. NoActive /\ AllIdle /\ NoMessage /\ Unasked
    BY <1>0 DEF NoActive, Active, AllIdle, NoMessage, Unasked, NoAnswer
  <2> QED BY <2>1 DEF QueueAlone, TaskAlone, AllIdle, NoMessage, NoRun
<1>2. AnswerAlone
  BY <1>0 DEF AnswerAlone, NoAnswer
<1>3. EngineAt /\ NodeAt
  BY DEF EngineAt, NodeAt, EnginePc, NodePc
<1>4. History
  BY DEF History, NoNodes, Absent, RetryNodes
<1>5. OneNext
  <2>1. CASE node = NoNodes
    <3>1. done = {}
      BY <2>1 DEF PassedIn, NoNodes, Absent, Passed
    <3>2. ASSUME NEW m \in Front(done), NEW n \in Front(done)
          PROVE  m = n
      <4>1. /\ m \in template.nodes /\ Upstream(template, m) = {}
            /\ n \in template.nodes /\ Upstream(template, n) = {}
        BY <3>1, <3>2 DEF Front
      <4>2. template \in Graph /\ Line(template) /\ m \in Node /\ n \in Node
        BY <4>1, GraphAssumption DEF OneAtATime, Graph
      <4>3. m \in Reached(template, n)
        BY <4>1, <4>2 DEF Line
      <4>4. {n} \in SUBSET Node /\ n \in {n} /\ Closed(template, {n})
        BY <4>1, <4>2 DEF Closed
      <4>5. m \in {n}
        BY <4>3, <4>4 DEF Reached
      <4> QED BY <4>5
    <3> QED BY <3>2 DEF OneNext
  <2>2. ASSUME NEW s \in RetryFrom \cap template.nodes, node = RetryNodes(s)
        PROVE  OneNext
    <3>1. done = Ancestors(template, s) \cap template.nodes
      BY <2>2 DEF RetryNodes, PassedIn, Passed, Ancestors, Reached
    <3>2. Front(done) \subseteq Front(Ancestors(template, s))
      BY <3>1 DEF Front
    <3> QED BY <3>2, <2>2, RetryFront DEF OneNext
  <2> QED BY <2>1, <2>2
<1>6. NotStopped
  BY DEF NotStopped, NoRun, StopIdle, OneAtATime
<1> QED BY <1>1, <1>2, <1>3, <1>4, <1>5, <1>6 DEF LineInv

\* A task ends: then no task is under way.
LEMMA EndAlone ==
    ASSUME TypeOK, LineInv, NEW w \in Worker, NEW tid, pc[w] # "idle",
           EndTaskWith(w, tid)
    PROVE  /\ AllIdle' /\ TaskAlone' /\ EngineAt' /\ NodeAt'
           /\ stop'.pc = stop.pc /\ NoMessage /\ Unasked
<1>1. \A v \in Worker \ {w} : pc[v] = "idle" /\ job[v] = NoNode
  BY DEF LineInv, TaskAlone
<1>2. AllIdle'
  BY <1>1, EndTaskEffect DEF AllIdle
<1>3. stop'.pc = stop.pc
  BY DEF EndTaskWith, TypeOK, StopState
<1>4. NoMessage /\ Unasked
  BY DEF LineInv, TaskAlone
<1> QED BY <1>2, <1>3, <1>4
        DEF AllIdle, TaskAlone, EngineAt, NodeAt, EnginePc, NodePc

\* The rows and histories are left alone.
LEMMA SameRows ==
    ASSUME LineInv, UNCHANGED <<template, node, begun, done>>
    PROVE  History' /\ OneNext'
BY DEF LineInv, History, OneNext, Front, PassedIn

\* A node whose turn it is passes: then it is at most one other's turn.
LEMMA PassFront ==
    ASSUME OneAtATime, TypeOK, LineInv, NEW n \in Front(done),
           template' = template, done' = done \cup {n}
    PROVE  OneNext'
<1>1. template \in Graph /\ Line(template)
  BY GraphAssumption DEF OneAtATime, TypeOK
<1>2. ASSUME NEW m \in Front(done')
      PROVE  m \in Node /\ n \in Upstream(template, m)
  <2>1. /\ m \in template.nodes /\ m \notin done /\ m # n
        /\ Upstream(template, m) \subseteq done \cup {n}
    BY <1>2 DEF Front
  <2>2. m \in Node
    BY <1>1, <2>1 DEF Graph
  <2>3. CASE n \notin Upstream(template, m)
    <3>1. m \in Front(done)
      BY <2>1, <2>3 DEF Front
    <3> QED BY <2>1, <3>1 DEF LineInv, OneNext
  <2> QED BY <2>2, <2>3
<1>3. n \in Node
  BY <1>1 DEF Front, Graph
<1>4. \A m1, m2 \in Front(done') : m1 = m2
  BY <1>1, <1>2, <1>3 DEF Line
<1> QED BY <1>4 DEF OneNext, Front

\* A node at work is the one whose turn it is, and so is a ready one.
LEMMA ActiveFront ==
    ASSUME OneAtATime, TypeOK, IndInv, LineInv, NEW n \in Node
    PROVE  /\ Active(n) => n \in Front(done)
           /\ n \in Ready(template, node) => n \in Front(done)
<1>1. /\ \A m \in begun : Upstream(template, m) \subseteq done
  BY DEF OneAtATime, IndInv, OrderInv
<1>2. CASE Active(n)
  <2>1. n \in begun /\ n \in template.nodes /\ n \notin done
    BY <1>2 DEF Active, LineInv, History, PassedIn, Passed
  <2>2. n \notin Ready(template, node)
    BY <1>2 DEF Active, Ready
  <2> QED BY <1>1, <2>1, <2>2 DEF Front
<1>3. CASE n \in Ready(template, node)
  <2>1. /\ n \in template.nodes /\ n \notin done /\ ~Active(n)
        /\ \A m \in Upstream(template, n) : m \in Node /\ m \in done
    BY <1>3 DEF LineInv, History, PassedIn, Ready, Passed, Active, Upstream
  <2> QED BY <2>1 DEF Front
<1> QED BY <1>2, <1>3

\* The engine task starts, reads and judges.
LEMMA EngineReads ==
    ASSUME OneAtATime, TypeOK, IndInv, LineInv, NEW w \in Worker,
           AdvanceBegin(w) \/ AdvanceLoad(w) \/ AdvanceJudge(w)
    PROVE  LineInv'
<1> USE DEF LineInv
<1>1. CASE AdvanceBegin(w)
  <2>1. /\ engineQ = 1 /\ AllIdle /\ NoMessage /\ Unasked /\ NoActive
        /\ run.status \in {"pending", "running"} /\ engineQ' = 0
    BY <1>1 DEF AdvanceBegin, QueueAlone
  <2>2. /\ pc' = [pc EXCEPT ![w] = "read"] /\ seenRun'[w] = run
        /\ UNCHANGED <<template, run, node, nodeQ, job, seenNode, todo, stop,
                       approval, stopsLeft, faultsLeft, begun, done>>
    BY <1>1, <2>1 DEF AdvanceBegin, Final, TypeOK
  <2>3. \A v \in Worker : pc'[v] = IF v = w THEN "read" ELSE "idle"
    BY <2>1, <2>2 DEF AllIdle, TypeOK
  <2>4. QueueAlone' /\ TaskAlone'
    BY <2>1, <2>2, <2>3 DEF QueueAlone, TaskAlone, AllIdle, NoMessage,
       Unasked, EnginePc
  <2>5. AnswerAlone'
    BY <2>1, <2>2 DEF AnswerAlone, NoActive, Active, Unasked
  <2>6. EngineAt' /\ NodeAt'
    BY <2>1, <2>2, <2>3 DEF EngineAt, NodeAt, EnginePc, NodePc, NoActive,
       Active
  <2>7. NotStopped'
    BY <2>1, <2>2 DEF NotStopped
  <2> QED BY <2>2, <2>4, <2>5, <2>6, <2>7, SameRows
<1>2. CASE AdvanceLoad(w)
  <2>1. /\ pc[w] = "read" /\ engineQ = 0 /\ NoActive /\ NoMessage /\ Unasked
        /\ \A v \in Worker \ {w} : pc[v] = "idle" /\ job[v] = NoNode
        /\ job[w] = NoNode /\ run.status \in {"pending", "running"}
        /\ seenRun[w].status = run.status
    BY <1>2 DEF AdvanceLoad, TaskAlone, QueueAlone, EngineAt, EnginePc,
       AllIdle, TypeOK
  <2>2. seenRun[w].graph \in {NoGraph, template} /\ GraphOf(w) = template
    BY DEF OneAtATime, IndInv, OrderInv, GraphOf
  <2>3. /\ pc' = [pc EXCEPT ![w] = "loaded"] /\ seenNode'[w] = node'
        /\ run'.status = run.status /\ seenRun'[w].status = run.status
        /\ template.nodes # {}
        /\ node' = [n \in Node |->
                      IF n \in template.nodes /\ node[n].status = "absent"
                      THEN [node[n] EXCEPT !.status = "pending"] ELSE node[n]]
        /\ UNCHANGED <<template, engineQ, nodeQ, job, stop, approval,
                       stopsLeft, faultsLeft, begun, done>>
    BY <1>2, <2>1, <2>2 DEF AdvanceLoad, SnapshotGraph, TypeOK, RunRow
  <2>4. \A n \in Node :
          \/ node'[n] = node[n]
          \/ node[n].status = "absent" /\ node'[n].status = "pending"
             /\ n \in template.nodes
    BY <2>3 DEF TypeOK, NodeRow
  <2>5. \A v \in Worker : pc'[v] = IF v = w THEN "loaded" ELSE "idle"
    BY <2>1, <2>3 DEF TypeOK
  <2>6. NoActive'
    BY <2>1, <2>4 DEF NoActive, Active
  <2>7. QueueAlone' /\ TaskAlone'
    BY <2>1, <2>3, <2>5 DEF QueueAlone, TaskAlone, NoMessage, Unasked,
       EnginePc
  <2>8. AnswerAlone'
    BY <2>1, <2>3, <2>6 DEF AnswerAlone, NoActive, Active, Unasked
  <2>9. EngineAt' /\ NodeAt'
    BY <2>1, <2>3, <2>5, <2>6 DEF EngineAt, NodeAt, EnginePc, NodePc
  <2>10. PassedIn(node') = PassedIn(node)
    BY <2>4 DEF PassedIn, Passed
  <2>11. History'
    BY <2>3, <2>4, <2>10 DEF History
  <2>12. OneNext' /\ NotStopped'
    BY <2>1, <2>3 DEF OneNext, Front, NotStopped
  <2> QED BY <2>7, <2>8, <2>9, <2>11, <2>12
<1>3. CASE AdvanceJudge(w)
  <2>1. /\ pc[w] = "loaded" /\ engineQ = 0 /\ NoActive /\ NoMessage /\ Unasked
        /\ \A v \in Worker \ {w} : pc[v] = "idle" /\ job[v] = NoNode
        /\ job[w] = NoNode /\ run.status \in {"pending", "running"}
        /\ seenRun[w].status = run.status /\ seenNode[w] = node
        /\ template.nodes # {}
    BY <1>3 DEF AdvanceJudge, TaskAlone, QueueAlone, EngineAt, EnginePc,
       AllIdle, TypeOK
  <2>2. seenRun[w].graph = template
    BY <2>1 DEF OneAtATime, IndInv, OrderInv
  <2>3. ~HasStatus(seenNode[w], {"running", "waiting"})
    BY <2>1 DEF HasStatus, NoActive, Active
  <2>4. /\ pc' = [pc EXCEPT ![w] = IF Ready(template, node) # {}
                                   THEN "dispatch" ELSE "finalize"]
        /\ todo'[w] = Ready(template, node)
        /\ run'.status = "running"
        /\ UNCHANGED <<template, node, engineQ, nodeQ, job, seenNode, stop,
                       approval, stopsLeft, faultsLeft, begun, done>>
    BY <1>3, <2>1, <2>2, <2>3 DEF AdvanceJudge, TypeOK, RunRow
  <2>5. \A v \in Worker : pc'[v] = IF v # w THEN "idle"
                            ELSE IF Ready(template, node) # {}
                            THEN "dispatch" ELSE "finalize"
    BY <2>1, <2>4 DEF TypeOK
  <2>6. QueueAlone' /\ TaskAlone'
    BY <2>1, <2>4, <2>5 DEF QueueAlone, TaskAlone, NoMessage, Unasked,
       EnginePc
  <2>7. AnswerAlone'
    BY <2>1, <2>4 DEF AnswerAlone, NoActive, Active, Unasked
  <2>8. EngineAt' /\ NodeAt'
    BY <2>1, <2>4, <2>5 DEF EngineAt, NodeAt, EnginePc, NodePc, NoActive,
       Active, Ready, Upstream
  <2>9. NotStopped'
    BY <2>4 DEF NotStopped
  <2> QED BY <2>4, <2>6, <2>7, <2>8, <2>9, SameRows
<1> QED BY <1>1, <1>2, <1>3

\* The engine task ends with a verdict, by a fault, or having dispatched the
\* one node that is ready.
LEMMA EngineEnds ==
    ASSUME OneAtATime, TypeOK, IndInv, LineInv, NEW w \in Worker,
           \/ AdvanceEmpty(w) \/ AdvanceFinalize(w) \/ AdvanceFault(w)
           \/ \E n \in Node : AdvanceDispatch(w, n) \/ AdvanceLost(w, n)
    PROVE  LineInv'
<1> USE DEF LineInv
<1>1. /\ pc[w] \in EnginePc /\ engineQ = 0 /\ NoActive /\ NoMessage /\ Unasked
      /\ run.status \in {"pending", "running"}
  <2>1. pc[w] \in EnginePc
    BY DEF AdvanceEmpty, AdvanceFinalize, AdvanceFault, AdvanceDispatch,
       AdvanceLost, EnginePc
  <2> QED BY <2>1 DEF TaskAlone, QueueAlone, EngineAt, EnginePc, AllIdle,
             TypeOK
<1>2. pc[w] # "idle"
  BY <1>1 DEF EnginePc
<1>3. ASSUME \/ AdvanceEmpty(w) \/ AdvanceFinalize(w) \/ AdvanceFault(w)
      PROVE  LineInv'
  <2>1. /\ EndTask(w) /\ run'.status \in {"success", "failed", "cancelled"}
        /\ UNCHANGED <<template, node, engineQ, nodeQ, approval, stopsLeft,
                       begun, done>>
        /\ faultsLeft'.doubled = faultsLeft.doubled
    BY <1>3 DEF AdvanceEmpty, AdvanceFinalize, AdvanceFault, Verdict, TypeOK,
       RunRow, Faults
  <2>2. run'.status # "cancelled"
    <3>1. CASE AdvanceFinalize(w)
      <4>1. seenNode[w] = node
        BY <3>1 DEF AdvanceFinalize, EngineAt, EnginePc
      <4>2. Verdict(node) # "cancelled"
        BY DEF Verdict, HasStatus, History
      <4> QED BY <3>1, <4>1, <4>2 DEF AdvanceFinalize, TypeOK, RunRow
    <3>2. CASE AdvanceEmpty(w) \/ AdvanceFault(w)
      BY <3>2 DEF AdvanceEmpty, AdvanceFault, TypeOK, RunRow
    <3> QED BY <1>3, <3>1, <3>2
  <2>3. QueueAlone'
    BY <1>1, <2>1 DEF QueueAlone, NoMessage
  <2>4. AnswerAlone'
    BY <1>1, <2>1 DEF AnswerAlone, NoActive, Active, Unasked
  <2>5. NotStopped' /\ TaskAlone' /\ EngineAt' /\ NodeAt'
    BY <1>2, <2>1, <2>2, EndAlone DEF EndTask, NotStopped
  <2> QED BY <2>1, <2>3, <2>4, <2>5, SameRows
<1>4. ASSUME NEW n \in Node, AdvanceDispatch(w, n) \/ AdvanceLost(w, n)
      PROVE  LineInv'
  <2>1. /\ pc[w] = "dispatch" /\ n \in todo[w] /\ run.status = "running"
        /\ todo[w] = Ready(template, node)
    BY <1>4 DEF AdvanceDispatch, AdvanceLost, EngineAt, EnginePc
  <2>2. todo[w] = {n} /\ n \in Front(done)
    BY <2>1, ActiveFront DEF OneNext, Ready
  <2>3. /\ EndTask(w) /\ begun' = begun \cup {n}
        /\ \E s \in {"running", "waiting"} :
              /\ node' = [node EXCEPT ![n].status = s]
              /\ \/ nodeQ' = nodeQ
                 \/ nodeQ' = [nodeQ EXCEPT ![n] = @ + 1] /\ s = "running"
                    /\ run' = run
              /\ s = "waiting" => run' = run
        /\ run'.status \in {"running", "failed"}
        /\ UNCHANGED <<template, engineQ, approval, stopsLeft, done>>
        /\ faultsLeft'.doubled = faultsLeft.doubled
    BY <1>4, <2>1, <2>2 DEF AdvanceDispatch, AdvanceLost, TypeOK, RunRow,
       Faults
  <2>4. AllIdle' /\ TaskAlone' /\ EngineAt' /\ NodeAt' /\ stop'.pc = stop.pc
    BY <1>2, <2>3, EndAlone DEF EndTask
  <2>5. /\ node'[n].status \in {"running", "waiting"}
        /\ nodeQ'[n] > 0 => node'[n].status = "running" /\ run' = run
        /\ nodeQ'[n] <= 1
        /\ node'[n].status = "waiting" => run' = run /\ nodeQ' = nodeQ
        /\ \A m \in Node \ {n} : node'[m] = node[m] /\ nodeQ'[m] = 0
    BY <1>1, <2>3 DEF NoMessage, TypeOK, NodeRow
  <2>6. OnlyActive(n)' /\ Unasked'
    BY <1>1, <2>3, <2>5 DEF OnlyActive, NoActive, Active, Unasked
  <2>7. QueueAlone'
    BY <1>1, <2>1, <2>3, <2>4, <2>5, <2>6 DEF QueueAlone, TypeOK
  <2>8. AnswerAlone'
    BY <1>1, <2>1, <2>3, <2>4, <2>5, <2>6
       DEF AnswerAlone, NoMessage, NoActive, Active, Unasked
  <2>9. PassedIn(node') = PassedIn(node)
    <3>1. node[n].status = "pending"
      BY <2>1 DEF Ready
    <3> QED BY <2>5, <3>1 DEF PassedIn, Passed
  <2>10. n \in template.nodes
    BY <2>2 DEF Front
  <2>11. History' /\ OneNext'
    BY <2>3, <2>5, <2>9, <2>10 DEF History, OneNext, Front
  <2>12. NotStopped'
    BY <2>3, <2>4 DEF NotStopped
  <2> QED BY <2>4, <2>7, <2>8, <2>11, <2>12
<1> QED BY <1>3, <1>4

\* A node's task starts, works and saves.
LEMMA NodeWorks ==
    ASSUME OneAtATime, TypeOK, TypeOK', IndInv, LineInv, NEW w \in Worker,
           \/ \E n \in Node : NodeBegin(w, n)
           \/ NodeStart(w) \/ NodeSave(w)
           \/ \E outcome \in {"success", "failed"} : NodeFinish(w, outcome)
    PROVE  LineInv'
<1> USE DEF LineInv
<1>1. ASSUME NEW n \in Node, NodeBegin(w, n)
      PROVE  LineInv'
  <2>1. /\ nodeQ[n] = 1 /\ \A m \in Node \ {n} : nodeQ[m] = 0
        /\ AllIdle /\ Unasked /\ OnlyActive(n) /\ engineQ = 0
        /\ node[n].status = "running" /\ run.status = "running"
    BY <1>1 DEF NodeBegin, QueueAlone, NoMessage, TypeOK
  <2>2. /\ pc' = [pc EXCEPT ![w] = "start"] /\ job' = [job EXCEPT ![w] = n]
        /\ seenNode'[w][n] = node[n] /\ nodeQ' = [nodeQ EXCEPT ![n] = 0]
        /\ UNCHANGED <<template, run, node, engineQ, todo, stop, approval,
                       stopsLeft, faultsLeft, begun, done>>
    BY <1>1, <2>1 DEF NodeBegin, rows, TypeOK
  <2>3. \A v \in Worker :
          IF v = w THEN pc'[v] = "start" /\ job'[v] = n
          ELSE pc'[v] = "idle" /\ job'[v] = NoNode
    BY <2>1, <2>2 DEF AllIdle, TypeOK
  <2>4. NoMessage'
    BY <2>1, <2>2 DEF NoMessage, TypeOK
  <2>5. QueueAlone' /\ TaskAlone'
    BY <2>1, <2>2, <2>3, <2>4 DEF QueueAlone, TaskAlone, NoMessage, Unasked,
       NodePc, EnginePc
  <2>6. AnswerAlone'
    BY <2>1, <2>2 DEF AnswerAlone, OnlyActive, Active, Unasked
  <2>7. EngineAt' /\ NodeAt'
    BY <2>1, <2>2, <2>3 DEF EngineAt, NodeAt, EnginePc, NodePc, OnlyActive,
       Active
  <2>8. NotStopped'
    BY <2>2 DEF NotStopped
  <2> QED BY <2>2, <2>5, <2>6, <2>7, <2>8, SameRows
<1>2. ASSUME NEW st \in {"running", "success", "failed"}, NEW q \in NodePc,
             pc[w] \in {"start", "work"},
             SaveNode(w, [Held(w) EXCEPT !.status = st]),
             seenNode'[w][job[w]].status = st,
             pc' = [pc EXCEPT ![w] = q],
             UNCHANGED <<template, run, engineQ, nodeQ, job, todo, stop,
                         approval, stopsLeft, faultsLeft, begun>>,
             q \in {"start", "work"} => st = "running",
             q = "retry" => st = "failed",
             q = "notify" => st \in {"success", "failed"}
      PROVE  LineInv'
  <2>1. /\ NoMessage /\ Unasked /\ engineQ = 0 /\ run.status = "running"
        /\ \A v \in Worker \ {w} : pc[v] = "idle" /\ job[v] = NoNode
        /\ OnlyActive(job[w]) /\ job[w] \in Node
        /\ node[job[w]].status = "running"
    BY <1>2 DEF TaskAlone, QueueAlone, NodeAt, NodePc, AllIdle, TypeOK
  <2>2. /\ node'[job[w]].status = st
        /\ \A n \in Node \ {job[w]} : node'[n] = node[n]
        /\ done' = IF st = "success" THEN done \cup {job[w]} ELSE done
    BY <1>2, <2>1 DEF SaveNode, Held, TypeOK, NodeRow, Passed
  <2>3. OnlyActive(job[w])'
    BY <1>2, <2>1, <2>2 DEF OnlyActive, Active
  <2>4. QueueAlone'
    BY <1>2, <2>1 DEF QueueAlone, NoMessage
  <2>5. TaskAlone'
    BY <1>2, <2>1 DEF TaskAlone, NoMessage, Unasked, NodePc, EnginePc, TypeOK
  <2>6. AnswerAlone'
    BY <1>2, <2>1, <2>2 DEF AnswerAlone, OnlyActive, Active, Unasked
  <2>7. EngineAt' /\ NodeAt'
    BY <1>2, <2>1, <2>2, <2>3 DEF EngineAt, NodeAt, EnginePc, NodePc, TypeOK
  <2>8. Active(job[w]) /\ job[w] \in Front(done)
    BY <2>1, ActiveFront DEF Active
  <2>9. PassedIn(node') =
          IF st = "success" THEN PassedIn(node) \cup {job[w]}
          ELSE PassedIn(node)
    BY <1>2, <2>1, <2>2 DEF PassedIn, Passed
  <2>10. History'
    BY <1>2, <2>1, <2>2, <2>9 DEF History
  <2>11. OneNext'
    BY <1>2, <2>2, <2>8, PassFront DEF OneNext, Front
  <2>12. NotStopped'
    BY <1>2 DEF NotStopped
  <2> QED BY <2>4, <2>5, <2>6, <2>7, <2>10, <2>11, <2>12
<1>3. CASE NodeStart(w)
  <2>1. job[w] \in Node /\ Held(w) \in NodeRow
    BY <1>3 DEF NodeStart, TypeOK, Held
  <2>2. seenNode'[w][job[w]].status = "running"
    BY <1>3, <2>1 DEF NodeStart, TypeOK, NodeRow
  <2> QED BY <1>2, <1>3, <2>2 DEF NodeStart, NodePc
<1>4. CASE NodeSave(w)
  <2>1. job[w] \in Node /\ Held(w) \in NodeRow /\ Held(w).status = "running"
    BY <1>4 DEF NodeSave, TypeOK, Held, NodeAt, NodePc
  <2>2. [Held(w) EXCEPT !.status = "running"] = Held(w)
    BY <2>1 DEF NodeRow
  <2>3. pc' = [pc EXCEPT ![w] = "work"]
    BY <1>4 DEF NodeSave, local, TypeOK
  <2>4. seenNode'[w][job[w]].status = "running"
    BY <1>4, <2>1 DEF NodeSave, local, Held
  <2> QED BY <1>2, <1>4, <2>2, <2>3, <2>4 DEF NodeSave, NodePc, local
<1>5. ASSUME NEW outcome \in {"success", "failed"}, NodeFinish(w, outcome)
      PROVE  LineInv'
  <2>1. pc[w] = "work"
    BY <1>5 DEF NodeFinish, TaskAlone, EnginePc, NodePc
  <2>2. job[w] \in Node /\ Held(w) \in NodeRow
    BY <2>1 DEF TypeOK, Held
  <2>3. seenNode'[w][job[w]].status = outcome
    BY <1>5, <2>2 DEF NodeFinish, TypeOK, NodeRow
  <2>4. \E q \in NodePc : /\ pc' = [pc EXCEPT ![w] = q]
                          /\ q = "retry" \/ q = "notify"
                          /\ q = "retry" => outcome = "failed"
    BY <1>5 DEF NodeFinish, NodePc
  <2> QED BY <1>2, <1>5, <2>1, <2>3, <2>4 DEF NodeFinish
<1> QED BY <1>1, <1>3, <1>4, <1>5

\* A task ends: the node is to be retried, or the engine is called, or the
\* task dies.
LEMMA NodeEnds ==
    ASSUME OneAtATime, TypeOK, TypeOK', IndInv, LineInv, NEW w \in Worker,
           NodeRetry(w) \/ RetryLost(w) \/ NodeNotify(w) \/ TaskDies(w)
    PROVE  LineInv'
<1> USE DEF LineInv
<1>1. pc[w] # "idle" /\ NoMessage /\ Unasked
  BY DEF NodeRetry, RetryLost, NodeNotify, TaskDies, TaskAlone
<1>2. engineQ = 0 /\ \A n \in Node : node[n].status # "waiting"
  BY <1>1 DEF QueueAlone, AnswerAlone, AllIdle, TypeOK
<1>3. ASSUME NodeRetry(w) \/ RetryLost(w)
      PROVE  LineInv'
  <2>1. /\ job[w] \in Node /\ node[job[w]].status = "failed"
        /\ OnlyActive(job[w]) /\ run.status = "running"
    BY <1>3 DEF NodeRetry, RetryLost, NodeAt, NodePc, TypeOK
  <2>2. /\ EndTaskWith(w, [ids EXCEPT !.node[job[w]] = w])
        /\ node' = [node EXCEPT ![job[w]] =
                      [status |-> "running", retries |-> Held(w).retries + 1]]
        /\ done' = done
        /\ \/ nodeQ' = nodeQ
           \/ nodeQ' = [nodeQ EXCEPT ![job[w]] = @ + 1]
        /\ UNCHANGED <<template, run, engineQ, approval, stopsLeft, begun>>
        /\ faultsLeft'.doubled = faultsLeft.doubled
    BY <1>3 DEF NodeRetry, RetryLost, SaveNode, Passed, TypeOK, Faults
  <2>3. AllIdle' /\ TaskAlone' /\ EngineAt' /\ NodeAt' /\ stop'.pc = stop.pc
    BY <1>1, <2>2, EndAlone
  <2>4. /\ node'[job[w]].status = "running" /\ nodeQ'[job[w]] <= 1
        /\ \A n \in Node \ {job[w]} : node'[n] = node[n] /\ nodeQ'[n] = 0
    BY <1>1, <2>1, <2>2 DEF NoMessage, TypeOK
  <2>5. (\A n \in Node : Active(n)' => n = job[w]) /\ Unasked'
    BY <1>1, <2>1, <2>2, <2>4 DEF OnlyActive, Active, Unasked
  <2>6. QueueAlone'
    BY <1>2, <2>1, <2>2, <2>3, <2>4, <2>5 DEF QueueAlone, OnlyActive, Active,
       TypeOK
  <2>7. AnswerAlone'
    BY <1>1, <1>2, <2>1, <2>2, <2>4 DEF AnswerAlone, Unasked
  <2>8. PassedIn(node') = PassedIn(node)
    BY <2>1, <2>4 DEF PassedIn, Passed
  <2>9. History'
    BY <2>1, <2>2, <2>4, <2>8 DEF History
  <2>10. OneNext' /\ NotStopped'
    BY <2>2, <2>3 DEF OneNext, Front, NotStopped
  <2> QED BY <2>3, <2>6, <2>7, <2>9, <2>10
<1>4. ASSUME NodeNotify(w) \/ TaskDies(w)
      PROVE  LineInv'
  <2>1. /\ EndTask(w)
        /\ engineQ' = IF NodeNotify(w) THEN 1 ELSE 0
        /\ UNCHANGED <<template, run, node, nodeQ, approval, stopsLeft, begun,
                       done>>
        /\ faultsLeft'.doubled = faultsLeft.doubled
    BY <1>2, <1>4 DEF NodeNotify, TaskDies, TypeOK, Faults
  <2>2. AllIdle' /\ TaskAlone' /\ EngineAt' /\ NodeAt' /\ stop'.pc = stop.pc
    BY <1>1, <2>1, EndAlone DEF EndTask
  <2>3. NodeNotify(w) => NoActive /\ run.status = "running"
    BY <1>2 DEF NodeNotify, NodeAt, NodePc, OnlyActive, NoActive, Active
  <2>4. NoMessage' /\ Unasked' /\ (NodeNotify(w) => NoActive')
    BY <1>1, <2>1, <2>3 DEF NoMessage, Unasked, NoActive, Active
  <2>5. QueueAlone'
    BY <2>1, <2>2, <2>3, <2>4 DEF QueueAlone, NoMessage
  <2>6. AnswerAlone'
    BY <1>1, <1>2, <2>1 DEF AnswerAlone, Unasked
  <2>7. NotStopped'
    BY <2>1, <2>2 DEF NotStopped
  <2> QED BY <2>1, <2>2, <2>5, <2>6, <2>7, SameRows
<1> QED BY <1>3, <1>4

\* The approver reads, answers and calls the engine.
LEMMA Answers ==
    ASSUME OneAtATime, TypeOK, TypeOK', IndInv, LineInv, NEW u \in Approver,
           ApproveStep(u) \/ ApproveFault(u)
    PROVE  LineInv'
<1> USE DEF LineInv
<1>0. \A v \in Approver : v = u
  BY DEF OneAtATime
<1>1. ASSUME NEW n \in Node, ApproveBegin(u, n)
      PROVE  LineInv'
  <2>1. /\ node[n].status = "waiting" /\ AllIdle /\ NoMessage /\ engineQ = 0
        /\ run.status = "running"
    BY <1>1 DEF ApproveBegin, AnswerAlone, QueueAlone, NoActive, Active,
       TypeOK
  <2>2. /\ approval'[u].pc = "read" /\ approval'[u].node = n
        /\ UNCHANGED <<template, run, node, engineQ, nodeQ, pc, job, seenRun,
                       seenNode, todo, stop, stopsLeft, faultsLeft, begun,
                       done>>
    BY <1>1 DEF ApproveBegin, TypeOK, rows, local
  <2>3. QueueAlone' /\ TaskAlone'
    BY <2>1, <2>2 DEF QueueAlone, TaskAlone, NoMessage, AllIdle
  <2>4. AnswerAlone'
    BY <1>0, <2>1, <2>2 DEF AnswerAlone, AllIdle, NoMessage, OnlyActive,
       Active
  <2>5. EngineAt' /\ NodeAt' /\ NotStopped'
    BY <2>1, <2>2 DEF EngineAt, NodeAt, NotStopped, AllIdle, EnginePc, NodePc
  <2> QED BY <2>2, <2>3, <2>4, <2>5, SameRows
<1>2. ASSUME NEW outcome \in {"success", "failed"}, ApproveSave(u, outcome)
      PROVE  LineInv'
  <2> DEFINE n == approval[u].node
  <2>1. /\ n \in Node /\ node[n].status = "waiting" /\ AllIdle /\ NoMessage
        /\ engineQ = 0 /\ run.status = "running" /\ OnlyActive(n)
    BY <1>2 DEF ApproveSave, AnswerAlone, QueueAlone, NoActive, Active,
       TypeOK
  <2>2. approval[u].row \in NodeRow
    BY DEF TypeOK, Answer
  <2>3. /\ node'[n].status = outcome
        /\ \A m \in Node \ {n} : node'[m] = node[m]
        /\ done' = IF outcome = "success" THEN done \cup {n} ELSE done
        /\ approval'[u].pc = "saved"
        /\ UNCHANGED <<template, run, engineQ, nodeQ, pc, job, seenRun,
                       seenNode, todo, stop, stopsLeft, faultsLeft, begun>>
    BY <1>2, <2>1, <2>2 DEF ApproveSave, TypeOK, NodeRow, local, NoAnswer
  <2>4. NoActive'
    BY <2>1, <2>3 DEF NoActive, OnlyActive, Active
  <2>5. QueueAlone' /\ TaskAlone'
    BY <2>1, <2>3 DEF QueueAlone, TaskAlone, NoMessage, AllIdle
  <2>6. AnswerAlone'
    BY <1>0, <2>1, <2>3, <2>4 DEF AnswerAlone, NoActive, Active
  <2>7. EngineAt' /\ NodeAt' /\ NotStopped'
    BY <2>1, <2>3 DEF EngineAt, NodeAt, NotStopped, AllIdle, EnginePc, NodePc
  <2>8. n \in Front(done)
    BY <2>1, ActiveFront DEF Active
  <2>9. PassedIn(node') = IF outcome = "success" THEN PassedIn(node) \cup {n}
                          ELSE PassedIn(node)
    BY <2>1, <2>3 DEF PassedIn, Passed
  <2>10. History'
    BY <2>1, <2>3, <2>9 DEF History
  <2>11. OneNext'
    BY <2>3, <2>8, PassFront DEF OneNext, Front
  <2> QED BY <2>5, <2>6, <2>7, <2>10, <2>11
<1>3. ASSUME ApproveAdvance(u) \/ ApproveFault(u)
      PROVE  LineInv'
  <2>1. /\ approval[u].pc = "saved" /\ NoActive /\ run.status = "running"
        /\ engineQ = 0 /\ NoMessage
        /\ \A w \in Worker : pc[w] = "idle" /\ job[w] = NoNode
    BY <1>3 DEF ApproveAdvance, ApproveFault, AnswerAlone, QueueAlone,
       TaskAlone, Unasked, NoMessage, TypeOK
  <2>2. /\ approval'[u].pc = "idle" /\ engineQ' \in {0, 1}
        /\ UNCHANGED <<template, run, node, nodeQ, pc, job, seenRun,
                       seenNode, todo, stop, stopsLeft, begun, done>>
        /\ faultsLeft'.doubled = faultsLeft.doubled
    BY <1>3, <2>1 DEF ApproveAdvance, ApproveFault, TypeOK, rows, local,
       NoAnswer, Faults
  <2>3. Unasked' /\ AllIdle' /\ NoActive' /\ NoMessage'
    BY <1>0, <2>1, <2>2 DEF Unasked, AllIdle, NoActive, Active, NoMessage
  <2>4. QueueAlone' /\ TaskAlone' /\ AnswerAlone'
    BY <2>1, <2>2, <2>3 DEF QueueAlone, TaskAlone, AnswerAlone, NoMessage,
       AllIdle, NoActive, Active, Unasked
  <2>5. EngineAt' /\ NodeAt' /\ NotStopped'
    BY <2>1, <2>2 DEF EngineAt, NodeAt, NotStopped, EnginePc, NodePc
  <2> QED BY <2>2, <2>4, <2>5, SameRows
<1> QED BY <1>1, <1>2, <1>3 DEF ApproveStep

\* Nothing else happens: the stop handler rests, no node is refused or
\* replaces the graph, and no message is doubled.
LEMMA NothingElse ==
    ASSUME OneAtATime, TypeOK, LineInv
    PROVE  /\ ~StopBegin /\ ~StopStep /\ ~StopFault /\ ~Redeliver
           /\ \A w \in Worker :
                 ~NodeRefuse(w) /\ \A yaml \in Yamls : ~NodeSyncYaml(w, yaml)
<1>1. ~StopBegin /\ ~StopStep /\ ~StopFault /\ ~Redeliver
  BY DEF LineInv, NotStopped, StopBegin, StopStep, StopMark, StopList,
     StopNode, StopFault, Redeliver
<1>2. ASSUME NEW w \in Worker, NodeRefuse(w) PROVE FALSE
  BY <1>2 DEF NodeRefuse, LineInv, TaskAlone, EnginePc, NodePc
<1>3. ASSUME NEW w \in Worker, NEW yaml \in Yamls, NodeSyncYaml(w, yaml)
      PROVE  FALSE
  BY <1>3 DEF NodeSyncYaml, OneAtATime
<1> QED BY <1>1, <1>2, <1>3

\* LineInv is kept by every step.
LEMMA LineStep ==
    ASSUME OneAtATime, TypeOK, TypeOK', IndInv, LineInv, [Next]_vars
    PROVE  LineInv'
<1>1. ASSUME NEW w \in Worker,
             \/ EngineStep(w) \/ AdvanceFault(w)
             \/ \E n \in Node : AdvanceLost(w, n)
      PROVE  LineInv'
  BY <1>1, EngineReads, EngineEnds DEF EngineStep
<1>2. ASSUME NEW w \in Worker,
             NodeStep(w) \/ NodeSave(w) \/ RetryLost(w) \/ TaskDies(w)
      PROVE  LineInv'
  BY <1>2, NodeWorks, NodeEnds, NothingElse DEF NodeStep
<1>3. ASSUME UNCHANGED vars
      PROVE  LineInv'
  <2>1. UNCHANGED <<template, run, node, engineQ, nodeQ, pc, job, seenRun,
                    seenNode, todo, stop, approval, stopsLeft, faultsLeft,
                    begun, done>>
    BY <1>3 DEF vars
  <2>2. QueueAlone' /\ TaskAlone' /\ AnswerAlone'
    BY <2>1 DEF LineInv, QueueAlone, TaskAlone, AnswerAlone, NoMessage,
       AllIdle, NoActive, OnlyActive, Active, Unasked
  <2>3. EngineAt' /\ NodeAt' /\ NotStopped'
    BY <2>1 DEF LineInv, EngineAt, NodeAt, NotStopped, NoActive, OnlyActive,
       Active, Ready, Upstream
  <2> QED BY <2>1, <2>2, <2>3, SameRows DEF LineInv
<1> QED BY <1>1, <1>2, <1>3, Answers, NothingElse DEF Next, Over

\* The inductive invariant of a run that does one thing at a time.
THEOREM LineInductive == ASSUME OneAtATime PROVE Spec => []LineInv
<1>1. Init => LineInv
  BY LineInit
<1>2. TypeOK /\ TypeOK' /\ IndInv /\ LineInv /\ [Next]_vars => LineInv'
  BY LineStep
<1> QED BY <1>1, <1>2, TypeCorrect, Inductive, PTL DEF Spec

\* On a line no node is executed twice at the same time, nor is one queued
\* while another is under way, although tasks die and messages get lost.
\* Code: pending rows are dispatched from a snapshot.
THEOREM OneExecution ==
    ASSUME OneAtATime PROVE Spec => []SingleExecution
<1>1. ASSUME TypeOK, LineInv PROVE SingleExecution
  <2> SUFFICES ASSUME NEW n \in Node PROVE Executions(n) <= 1
    BY DEF SingleExecution
  <2> DEFINE W == {w \in Worker : job[w] = n}
  <2>0. Executions(n) = nodeQ[n] + Cardinality(W) /\ nodeQ[n] \in 0..1
    BY <1>1 DEF Executions, LineInv, QueueAlone, TypeOK
  <2>1. CASE W = {}
    <3>1. Cardinality(W) = 0
      BY <2>1, FS_EmptySet
    <3> HIDE DEF W
    <3> QED BY <2>0, <3>1
  <2>2. CASE W # {}
    <3>1. PICK w \in Worker : job[w] = n
      BY <2>2
    <3>2. pc[w] # "idle"
      BY <1>1, <3>1, NodeAssumption DEF LineInv, TaskAlone
    <3>3. W = {w} /\ nodeQ[n] = 0
      BY <1>1, <3>1, <3>2, NodeAssumption DEF LineInv, TaskAlone, NoMessage
    <3>4. Cardinality(W) = 1
      BY <3>3, FS_Singleton
    <3> HIDE DEF W
    <3> QED BY <2>0, <3>3, <3>4
  <2> QED BY <2>1, <2>2
<1> QED BY <1>1, LineInductive, TypeCorrect, PTL

-----------------------------------------------------------------------------
(* The engine implements the abstract run.                                 *)

\* One thing at a time, and nothing dies or is lost.
Calm == OneAtATime /\ MaxFaults = 0

\* An engine's step opens the run, begins a node, gives the verdict the
\* abstract run allows, or changes nothing of what is promised.
LEMMA EngineRefines ==
    ASSUME Calm, TypeOK, IndInv, LineInv, NEW w \in Worker, EngineStep(w)
    PROVE  [Abstract!Next]_Abstract!dvars
<1> USE DEF LineInv, Abstract!dvars
<1>1. CASE AdvanceBegin(w) \/ AdvanceLoad(w)
  BY <1>1 DEF AdvanceBegin, AdvanceLoad, SnapshotGraph, TypeOK, RunRow
<1>2. CASE AdvanceJudge(w)
  <2>1. seenRun[w].status = run.status
        /\ run.status \in {"pending", "running"}
    BY <1>2 DEF AdvanceJudge, EngineAt, EnginePc
  <2>2. UNCHANGED <<template, begun, done>>
        /\ run'.status = "running"
    BY <1>2, <2>1 DEF AdvanceJudge, TypeOK, RunRow
  <2> QED BY <2>1, <2>2 DEF Abstract!Next, Abstract!Open
<1>3. CASE AdvanceEmpty(w)
  <2>1. GraphOf(w) = template
    BY DEF Calm, OneAtATime, IndInv, OrderInv, GraphOf
  <2>2. /\ run.status \in {"pending", "running"} /\ template.nodes = {}
        /\ run'.status = "failed" /\ UNCHANGED <<template, begun, done>>
    BY <1>3, <2>1 DEF AdvanceEmpty, EngineAt, EnginePc
  <2> QED BY <2>2 DEF Abstract!Next, Abstract!Fail
<1>4. ASSUME NEW n \in Node, AdvanceDispatch(w, n)
      PROVE  [Abstract!Next]_Abstract!dvars
  <2>1. /\ run.status = "running" /\ n \in Ready(template, node)
        /\ UNCHANGED <<template, run, done>> /\ begun' = begun \cup {n}
    BY <1>4 DEF AdvanceDispatch, EngineAt, EnginePc
  <2>2. n \in Front(done) /\ node[n].status = "pending"
    BY <2>1, ActiveFront DEF Calm, Ready
  <2>3. n \notin begun
    BY <2>2 DEF History
  <2>4. Abstract!Needs(n) \subseteq Upstream(template, n)
    BY GraphAssumption DEF Abstract!Needs, Upstream, TypeOK, Graph
  <2> QED BY <2>1, <2>2, <2>3, <2>4 DEF Abstract!Next, Abstract!Begin, Front
<1>5. CASE AdvanceFinalize(w)
  <2>1. /\ run.status = "running" /\ seenNode[w] = node /\ NoActive
        /\ template.nodes # {} /\ Exists(template, node)
    BY <1>5 DEF AdvanceFinalize, EngineAt, EnginePc, IndInv, CreatedInv
  <2>2. /\ run'.status = Verdict(node) /\ UNCHANGED <<template, begun, done>>
    BY <1>5, <2>1 DEF AdvanceFinalize, TypeOK, RunRow
  <2>3. template.nodes \subseteq Node /\ done \subseteq template.nodes
    BY GraphAssumption DEF TypeOK, Graph, History, PassedIn, Passed
  <2>4. CASE \E n \in Node : node[n].status \in {"failed", "pending"}
    <3>1. Verdict(node) = "failed"
      BY <2>4 DEF Verdict, HasStatus, History
    <3>2. done # template.nodes
      BY <2>4 DEF History, PassedIn, Passed
    <3> QED BY <2>1, <2>2, <3>1, <3>2 DEF Abstract!Next, Abstract!Fail
  <2>5. CASE \A n \in Node : node[n].status \notin {"failed", "pending"}
    <3>1. Verdict(node) = "success"
      BY <2>5 DEF Verdict, HasStatus, History
    <3>2. ASSUME NEW n \in template.nodes PROVE n \in done
      <4>1. node[n].status \in NodeStatus
        BY <2>3 DEF TypeOK, NodeRow
      <4>2. node[n].status \notin {"absent", "running", "waiting",
                                   "cancelled", "failed", "pending"}
        BY <2>1, <2>3, <2>5 DEF Exists, NoActive, Active, History
      <4> QED BY <2>3, <4>1, <4>2 DEF History, PassedIn, Passed, NodeStatus
    <3> QED BY <2>1, <2>2, <2>3, <3>1, <3>2
            DEF Abstract!Next, Abstract!Succeed
  <2> QED BY <2>4, <2>5
<1> QED BY <1>1, <1>2, <1>3, <1>4, <1>5 DEF EngineStep

\* A node that passes, by its task or by an answer, has begun and has not
\* passed before.
LEMMA PassRefines ==
    ASSUME Calm, TypeOK, IndInv, LineInv, NEW n \in Node, Active(n),
           UNCHANGED <<template, run, begun>>, done' \in {done, done \cup {n}}
    PROVE  [Abstract!Next]_Abstract!dvars
<1>1. n \in template.nodes \ done /\ n \in begun
  BY ActiveFront DEF Front, Calm, LineInv, History, Active
<1> QED BY <1>1 DEF Abstract!Next, Abstract!Pass, Abstract!dvars

\* Every step is one of the abstract run, or changes nothing of it.
LEMMA RefineStep ==
    ASSUME Calm, TypeOK, IndInv, LineInv, [Next]_vars
    PROVE  [Abstract!Next]_Abstract!dvars
<1>0. ~ \E w \in Worker : AdvanceFault(w) \/ \E n \in Node : AdvanceLost(w, n)
  BY DEF Calm, AdvanceFault, AdvanceLost, TypeOK, Faults
<1>1. ASSUME NEW w \in Worker, EngineStep(w)
      PROVE  [Abstract!Next]_Abstract!dvars
  BY <1>1, EngineRefines
<1>2. ASSUME NEW w \in Worker, NodeStart(w) \/ NodeSave(w)
             \/ \E outcome \in {"success", "failed"} : NodeFinish(w, outcome)
      PROVE  [Abstract!Next]_Abstract!dvars
  <2>1. pc[w] \in {"start", "work"}
    BY <1>2 DEF NodeStart, NodeSave, NodeFinish, LineInv, TaskAlone, EnginePc,
       NodePc
  <2>2. job[w] \in Node /\ Active(job[w])
    BY <2>1 DEF TypeOK, LineInv, NodeAt, NodePc, Active
  <2>3. UNCHANGED <<template, run, begun>>
        /\ done' \in {done, done \cup {job[w]}}
    BY <1>2 DEF NodeStart, NodeSave, NodeFinish, SaveNode
  <2> QED BY <2>2, <2>3, PassRefines
<1>3. ASSUME NEW w \in Worker,
             \/ NodeRetry(w) \/ RetryLost(w) \/ NodeNotify(w) \/ TaskDies(w)
             \/ \E n \in Node : NodeBegin(w, n)
      PROVE  UNCHANGED <<template, run, begun, done>>
  BY <1>3 DEF NodeRetry, RetryLost, NodeNotify, TaskDies, NodeBegin, SaveNode,
     Passed, rows
<1>4. ASSUME NEW u \in Approver, NEW outcome \in {"success", "failed"},
             ApproveSave(u, outcome)
      PROVE  [Abstract!Next]_Abstract!dvars
  <2> DEFINE n == approval[u].node
  <2>1. n \in Node /\ Active(n)
    BY <1>4 DEF ApproveSave, TypeOK, LineInv, AnswerAlone, Active
  <2>2. UNCHANGED <<template, run, begun>> /\ done' \in {done, done \cup {n}}
    BY <1>4 DEF ApproveSave
  <2> QED BY <2>1, <2>2, PassRefines
<1>5. ASSUME NEW u \in Approver,
             \/ \E n \in Node : ApproveBegin(u, n)
             \/ ApproveAdvance(u) \/ ApproveFault(u)
      PROVE  UNCHANGED <<template, run, begun, done>>
  BY <1>5 DEF ApproveBegin, ApproveAdvance, ApproveFault, rows
<1>6. ASSUME UNCHANGED <<template, run, begun, done>>
      PROVE  UNCHANGED Abstract!dvars
  BY <1>6 DEF Abstract!dvars
<1> QED BY <1>0, <1>1, <1>2, <1>3, <1>4, <1>5, <1>6, NothingElse
        DEF Calm, Next, NodeStep, ApproveStep, Over, vars

\* On a line the engine implements the abstract run: nodes begin in the order
\* of the edges while the run is open, pass once, and the verdict is success
\* exactly when all have passed.  Code: advance_pipeline_engine and
\* execute_pipeline_node, whatever the worker processes interleave.
THEOREM Refinement == ASSUME Calm PROVE Spec => ImplementsDagRun
<1>1. ASSUME TypeOK, Init PROVE Abstract!Init
  <2>1. template \in Templates /\ begun = {} /\ run.status = "pending"
    BY <1>1 DEF Init, NoRun
  <2>2. done \subseteq template.nodes
    BY <1>1, LineInit DEF Calm, LineInv, History, PassedIn, Passed
  <2> QED BY <2>1, <2>2 DEF Abstract!Init
<1>2. TypeOK /\ IndInv /\ LineInv /\ [Next]_vars
         => [Abstract!Next]_Abstract!dvars
  BY RefineStep
<1>3. OneAtATime
  BY DEF Calm
<1>4. Spec => []LineInv
  BY <1>3, LineInductive
<1> QED BY <1>1, <1>2, <1>4, TypeCorrect, Inductive, PTL
        DEF Spec, ImplementsDagRun, Abstract!Spec

\* A verdict is final on a line: no node is running or queued, in particular
\* none is between a failure and its retry.
\* Code: a node is retried "until it has really failed", tasks.py l. 690.
THEOREM VerdictHolds == ASSUME Calm PROVE Spec => []VerdictIsFinal
<1>1. ASSUME Init PROVE VerdictIsFinal
  BY <1>1 DEF Init, NoRun, VerdictIsFinal
<1>2. ASSUME TypeOK, TypeOK', IndInv, LineInv, VerdictIsFinal, [Next]_vars
      PROVE  VerdictIsFinal'
  <2> USE <1>2
  <2>0. ~ \E w \in Worker : \/ AdvanceFault(w)
                           \/ \E n \in Node : AdvanceLost(w, n)
    BY DEF Calm, AdvanceFault, AdvanceLost, TypeOK, Faults
  <2>1. ASSUME NEW w \in Worker, AdvanceEmpty(w) \/ AdvanceFinalize(w)
        PROVE  VerdictIsFinal'
    <3>1. NoActive /\ node' = node
      BY <2>1 DEF AdvanceEmpty, AdvanceFinalize, LineInv, EngineAt, EnginePc
    <3> QED BY <3>1 DEF VerdictIsFinal, NoActive, Active
  <2>2. ASSUME NEW w \in Worker,
               \/ AdvanceLoad(w) \/ AdvanceJudge(w)
               \/ \E n \in Node : AdvanceDispatch(w, n)
        PROVE  VerdictIsFinal'
    <3>1. pc[w] \in EnginePc
      BY <2>2 DEF AdvanceLoad, AdvanceJudge, AdvanceDispatch, EnginePc
    <3>2. run'.status \in {"pending", "running"}
      BY <2>2, <3>1 DEF LineInv, EngineAt, AdvanceLoad, SnapshotGraph,
         AdvanceJudge, AdvanceDispatch, TypeOK, RunRow
    <3> QED BY <3>2 DEF VerdictIsFinal
  <2>3. ASSUME NEW w \in Worker,
               \/ NodeStep(w) \/ NodeSave(w) \/ RetryLost(w) \/ TaskDies(w)
        PROVE  VerdictIsFinal'
    <3>1. CASE TaskDies(w)
      BY <3>1 DEF TaskDies, VerdictIsFinal
    <3>2. CASE \E n \in Node : NodeBegin(w, n)
      BY <3>2 DEF NodeBegin, rows, VerdictIsFinal
    <3>3. CASE ~TaskDies(w) /\ ~ \E n \in Node : NodeBegin(w, n)
      <4>1. pc[w] \in NodePc /\ run' = run
        BY <2>3, <3>3, NothingElse DEF Calm, NodeStep, NodeStart, NodeSave,
           NodeFinish, NodeRetry, RetryLost, NodeNotify, NodePc, LineInv,
           TaskAlone, EnginePc
      <4> QED BY <4>1 DEF LineInv, NodeAt, VerdictIsFinal
    <3> QED BY <3>1, <3>2, <3>3
  <2>4. ASSUME NEW u \in Approver, ApproveStep(u) \/ ApproveFault(u)
        PROVE  VerdictIsFinal'
    <3>1. CASE \E outcome \in {"success", "failed"} : ApproveSave(u, outcome)
      <4>1. run' = run /\ run.status = "running"
        BY <3>1 DEF ApproveSave, LineInv, AnswerAlone, TypeOK
      <4> QED BY <4>1 DEF VerdictIsFinal
    <3>2. CASE UNCHANGED <<run, node>>
      BY <3>2 DEF VerdictIsFinal
    <3> QED BY <2>4, <3>1, <3>2 DEF ApproveStep, ApproveBegin,
            ApproveAdvance, ApproveFault, rows
  <2>5. ASSUME UNCHANGED <<run, node>> PROVE VerdictIsFinal'
    BY <2>5 DEF VerdictIsFinal
  <2>6. ASSUME NEW w \in Worker, AdvanceBegin(w)
        PROVE  UNCHANGED <<run, node>>
    BY <2>6 DEF AdvanceBegin
  <2> QED BY <2>0, <2>1, <2>2, <2>3, <2>4, <2>5, <2>6, NothingElse
          DEF Calm, Next, EngineStep, Over, vars
<1>3. OneAtATime
  BY DEF Calm
<1>4. Spec => []LineInv
  BY <1>3, LineInductive
<1> QED BY <1>1, <1>2, <1>4, TypeCorrect, Inductive, PTL DEF Spec

-----------------------------------------------------------------------------
(* A graph that .ansflow-ci.yml replaces.                                  *)

\* The run starts with its git_clone node and everything else waits for it;
\* the repository's graph does not come back to that node.  Nobody stops the
\* run and no message is delivered twice.  Tasks may die, messages get lost,
\* nodes are retried, also the git_clone node, with another YAML.
CloneLeads ==
    /\ \A g \in Templates : \A c \in g.nodes \cap Clone :
          Upstream(g, c) = {} /\ \A n \in g.nodes : c \in Reached(g, n)
    /\ \A g \in Yamls : \A c \in Clone :
           c \notin g.nodes /\ Upstream(g, c) = {}
    /\ Clone \cap Approval = {}
    /\ MaxStops = 0 /\ MaxDoubles = 0

Judging(w) == pc[w] \in {"loaded", "dispatch", "finalize"}
NoEngine == engineQ = 0 /\ \A w \in Worker : pc[w] \notin EnginePc

Unstopped == stop.pc = "idle" /\ stopsLeft = 0 /\ faultsLeft.doubled = 0

\* Only what was dispatched is active.
ActiveBegun ==
    /\ \A n \in Node : /\ Active(n) => n \in begun
                       /\ node[n].status = "waiting" => n \in Approval
    /\ \A u \in Approver : approval[u].pc = "read" =>
           approval[u].node \in begun

\* Before the first node is dispatched there is one engine and nothing else.
FirstEngine == begun = {} =>
    /\ Unasked
    /\ engineQ > 0 => engineQ = 1 /\ \A w \in Worker : pc[w] = "idle"
    /\ \A w \in Worker : pc[w] # "idle" =>
          pc[w] \in EnginePc /\ \A v \in Worker : pc[v] # "idle" => v = w

\* Every engine holds the graph of the run.
GraphHeld ==
    /\ run.graph \in {NoGraph, template} \cup Yamls
    /\ run.graph = NoGraph => begun = {}
    /\ \A w \in Worker :
          /\ pc[w] \in EnginePc => seenRun[w].graph = run.graph
          /\ Judging(w) =>
                 run.graph # NoGraph /\ Exists(run.graph, seenNode[w])

\* A git_clone node of another graph has no row; one of the template is the
\* first to begin; once it has, it never becomes ready again.
Foreign(c) ==
    /\ c \notin begun /\ node[c].status = "absent"
    /\ \A w \in Worker : /\ Judging(w) => seenNode[w][c].status = "absent"
                         /\ pc[w] = "dispatch" => c \notin todo[w]
Ahead(c) ==
    /\ begun = {} /\ done = {} /\ run.graph \in {NoGraph, template}
    /\ \A n \in Node \ template.nodes :
          /\ node[n].status = "absent"
          /\ \A w \in Worker : Judging(w) => seenNode[w][n].status = "absent"
    /\ \A w \in Worker : pc[w] = "dispatch" => todo[w] \subseteq {c}
Behind(c) ==
    /\ node[c].status \notin {"absent", "pending"}
    /\ \A w \in Worker :
          /\ Judging(w) => seenNode[w][c].status \notin {"absent", "pending"}
          /\ pc[w] = "dispatch" => c \notin todo[w]
CloneWaits ==
    \A c \in Clone : /\ c \notin template.nodes => Foreign(c)
                     /\ c \in template.nodes \ (begun \cup done) => Ahead(c)
                     /\ c \in begun \cup done => Behind(c)

\* While a git_clone node is queued or at work nothing else is.
Alone(c) == begun = {c} /\ c \notin done /\ NoEngine /\ Unasked
CloneAlone ==
    \A c \in Clone :
        /\ nodeQ[c] > 0 =>
              Alone(c) /\ nodeQ[c] = 1 /\ \A w \in Worker : job[w] # c
        /\ \A w \in Worker : job[w] = c /\ pc[w] # "notify" =>
              Alone(c) /\ nodeQ[c] = 0 /\ \A v \in Worker : job[v] = c => v = w

\* The graph of the run is followed.
Followed ==
    /\ run.graph # NoGraph => \A n \in begun :
           Upstream(run.graph, n) \subseteq done
    /\ \A w \in Worker : pc[w] = "dispatch" =>
          \A n \in todo[w] : Upstream(run.graph, n) \subseteq done
    /\ run.status = "success" => run.graph.nodes \subseteq done

YamlInv == /\ Unstopped /\ ActiveBegun /\ FirstEngine /\ GraphHeld
           /\ CloneWaits /\ CloneAlone /\ Followed

\* What the steps do, worker by worker and row by row.
Others(w) ==
    \A v \in Worker \ {w} :
        /\ pc'[v] = pc[v] /\ job'[v] = job[v] /\ todo'[v] = todo[v]
        /\ seenRun'[v] = seenRun[v] /\ seenNode'[v] = seenNode[v]
Gone(w) == pc'[w] = "idle" /\ job'[w] = NoNode /\ Others(w)

\* The end of a task that names the worker's task id.
LEMMA GoneWith ==
    ASSUME TypeOK, NEW w \in Worker, NEW tid, EndTaskWith(w, tid)
    PROVE  Gone(w) /\ stop'.pc = stop.pc
BY EndTaskEffect DEF Gone, Others, EndTaskWith, TypeOK, StopState

\* Steps that end a task and save no node.
LEMMA EndsOnly ==
    ASSUME TypeOK, NEW w \in Worker,
           \/ AdvanceEmpty(w) \/ AdvanceFinalize(w) \/ AdvanceFault(w)
           \/ NodeNotify(w) \/ TaskDies(w)
           \/ AdvanceJudge(w) /\ pc'[w] = "idle"
    PROVE  /\ Gone(w) /\ pc[w] # "idle"
           /\ UNCHANGED <<node, nodeQ, begun, done, approval>>
           /\ \/ engineQ' = engineQ
              \/ engineQ' = engineQ + 1 /\ pc[w] = "notify"
           /\ \/ run'.graph = run.graph
              \/ /\ pc[w] = "read" /\ seenRun[w].graph = NoGraph
                 /\ run'.graph = template
           /\ run'.status = "success" =>
                 \/ run.status = "success" /\ run' = run
                 \/ pc[w] = "finalize" /\ Verdict(seenNode[w]) = "success"
           /\ Unstopped => Unstopped'
<1> USE GoneWith DEF EndTask, TypeOK, RunRow, Unstopped, Faults
<1>1. CASE AdvanceEmpty(w) BY <1>1 DEF AdvanceEmpty
<1>2. CASE AdvanceFinalize(w) BY <1>2 DEF AdvanceFinalize
<1>3. CASE AdvanceFault(w) BY <1>3 DEF AdvanceFault
<1>4. CASE NodeNotify(w) BY <1>4 DEF NodeNotify
<1>5. CASE TaskDies(w) BY <1>5 DEF TaskDies
<1>6. CASE AdvanceJudge(w) /\ pc'[w] = "idle"
  <2>1. EndTask(w)
    BY <1>6 DEF AdvanceJudge
  <2> QED BY <1>6, <2>1 DEF AdvanceJudge
<1> QED BY <1>1, <1>2, <1>3, <1>4, <1>5, <1>6

\* The engine goes on with the nodes that are ready in its snapshot.
LEMMA Judges ==
    ASSUME TypeOK, NEW w \in Worker, AdvanceJudge(w), pc'[w] # "idle"
    PROVE  /\ pc[w] = "loaded" /\ pc'[w] \in {"dispatch", "finalize"}
           /\ todo'[w] = Ready(seenRun[w].graph, seenNode[w])
           /\ Others(w)
           /\ job'[w] = job[w] /\ seenRun'[w] = seenRun[w]
           /\ seenNode'[w] = seenNode[w]
           /\ UNCHANGED <<node, nodeQ, begun, done, approval, engineQ>>
           /\ run'.graph = run.graph /\ run'.status \in {run.status, "running"}
           /\ Unstopped => Unstopped'
<1>1. ~EndTask(w)
  BY GoneWith DEF EndTask, Gone
<1> QED BY <1>1 DEF AdvanceJudge, TypeOK, RunRow, Others, Unstopped

\* A node is dispatched, its message sent or lost.
LEMMA Dispatches ==
    ASSUME TypeOK, NEW w \in Worker, NEW n \in Node,
           AdvanceDispatch(w, n) \/ AdvanceLost(w, n)
    PROVE  /\ pc[w] = "dispatch" /\ n \in todo[w]
           /\ \/ Gone(w)
              \/ /\ Others(w) /\ todo'[w] = todo[w] \ {n} /\ todo[w] # {n}
                 /\ pc'[w] = pc[w] /\ job'[w] = job[w]
                 /\ seenRun'[w] = seenRun[w] /\ seenNode'[w] = seenNode[w]
           /\ begun' = begun \cup {n}
           /\ UNCHANGED <<done, approval, engineQ>>
           /\ run'.graph = run.graph /\ run'.status \in {run.status, "failed"}
           /\ \A m \in Node \ {n} : node'[m] = node[m] /\ nodeQ'[m] = nodeQ[m]
           /\ node'[n].status = IF n \in Approval THEN "waiting" ELSE "running"
           /\ nodeQ'[n] \in {nodeQ[n], nodeQ[n] + 1}
           /\ Unstopped => Unstopped'
<1> USE GoneWith DEF EndTask, TypeOK, RunRow, NodeRow, Unstopped, Faults
<1>1. CASE AdvanceDispatch(w, n) /\ EndTask(w)
  BY <1>1 DEF AdvanceDispatch
<1>2. CASE AdvanceDispatch(w, n) /\ ~EndTask(w)
  BY <1>2 DEF AdvanceDispatch, Others
<1>3. CASE AdvanceLost(w, n)
  BY <1>3 DEF AdvanceLost
<1> QED BY <1>1, <1>2, <1>3

\* An executor saves the row of its own node and goes on.
LEMMA Saves ==
    ASSUME TypeOK, OnlyBegun, NEW w \in Worker,
           \/ NodeStart(w) \/ NodeSave(w)
           \/ \E o \in {"success", "failed"} : NodeFinish(w, o)
    PROVE  /\ pc[w] \in {"start", "work", "synced"}
           /\ pc'[w] \in {"work", "retry", "notify"}
           /\ job[w] \in begun /\ Others(w) /\ job'[w] = job[w]
           /\ UNCHANGED <<run, nodeQ, begun, approval, engineQ>>
           /\ \A m \in Node \ {job[w]} : node'[m] = node[m]
           /\ node'[job[w]].status \in {"running", "success", "failed"}
           /\ \/ done' = done
              \/ done' = done \cup {job[w]} /\ pc'[w] = "notify"
           /\ Unstopped => Unstopped'
<1> USE DEF TypeOK, NodeRow, SaveNode, Held, Others, Passed, local, Unstopped
<1>1. CASE NodeStart(w)
  BY <1>1 DEF NodeStart, OnlyBegun
<1>2. CASE NodeSave(w)
  BY <1>2 DEF NodeSave, OnlyBegun
<1>3. CASE \E o \in {"success", "failed"} : NodeFinish(w, o)
  BY <1>3 DEF NodeFinish, OnlyBegun
<1> QED BY <1>1, <1>2, <1>3

\* An executor saves the row of its own node and ends.
LEMMA SavesAndGoes ==
    ASSUME TypeOK, OnlyBegun, NEW w \in Worker,
           NodeRefuse(w) \/ NodeRetry(w) \/ RetryLost(w)
    PROVE  /\ pc[w] \in {"refuse", "retry"} /\ Gone(w) /\ job[w] \in begun
           /\ UNCHANGED <<run, begun, approval, engineQ, done>>
           /\ \A m \in Node \ {job[w]} :
                  node'[m] = node[m] /\ nodeQ'[m] = nodeQ[m]
           /\ node'[job[w]].status \in {"running", "failed"}
           /\ nodeQ'[job[w]] \in {nodeQ[job[w]], nodeQ[job[w]] + 1}
           /\ Unstopped => Unstopped'
<1> USE GoneWith
        DEF TypeOK, NodeRow, SaveNode, Held, Passed, EndTask, Unstopped,
      OnlyBegun, Faults
<1>1. CASE NodeRefuse(w)
  BY <1>1 DEF NodeRefuse
<1>2. CASE NodeRetry(w)
  BY <1>2 DEF NodeRetry
<1>3. CASE RetryLost(w)
  BY <1>3 DEF RetryLost
<1> QED BY <1>1, <1>2, <1>3

\* An engine begins, or finds the run over.
LEMMA Begins ==
    ASSUME TypeOK, NEW w \in Worker, AdvanceBegin(w)
    PROVE  /\ pc[w] = "idle" /\ engineQ > 0 /\ engineQ' = engineQ - 1
           /\ Others(w) /\ job'[w] = job[w]
           /\ \/ pc'[w] = "idle"
              \/ pc'[w] = "read" /\ seenRun'[w] = run
           /\ UNCHANGED <<run, node, nodeQ, begun, done, approval>>
           /\ Unstopped => Unstopped'
BY DEF AdvanceBegin, TypeOK, Others, Unstopped

\* An engine reads the rows, and creates those that its graph lacks.
LEMMA Loads ==
    ASSUME TypeOK, NEW w \in Worker, AdvanceLoad(w)
    PROVE  /\ pc[w] = "read" /\ pc'[w] = "loaded"
           /\ Others(w) /\ job'[w] = job[w]
           /\ seenRun'[w].graph = GraphOf(w) /\ seenNode'[w] = node'
           /\ run'.status = run.status
           /\ run'.graph = IF seenRun[w].graph = NoGraph THEN template
                           ELSE run.graph
           /\ \A n \in Node : node'[n].status =
                 IF n \in GraphOf(w).nodes /\ node[n].status = "absent"
                 THEN "pending" ELSE node[n].status
           /\ UNCHANGED <<nodeQ, begun, done, approval, engineQ>>
           /\ Unstopped => Unstopped'
BY DEF AdvanceLoad, SnapshotGraph, TypeOK, RunRow, NodeRow, Others, Unstopped

\* An executor begins with a message.
LEMMA Starts ==
    ASSUME TypeOK, OnlyBegun, NEW w \in Worker, NEW n \in Node, NodeBegin(w, n)
    PROVE  /\ pc[w] = "idle" /\ pc'[w] \in {"refuse", "start"}
           /\ nodeQ[n] > 0 /\ nodeQ'[n] = nodeQ[n] - 1 /\ n \in begun
           /\ \A m \in Node \ {n} : nodeQ'[m] = nodeQ[m]
           /\ Others(w) /\ job'[w] = n
           /\ UNCHANGED <<run, node, begun, done, approval, engineQ>>
           /\ Unstopped => Unstopped'
BY DEF NodeBegin, TypeOK, Others, OnlyBegun, Unstopped, rows

\* A git_clone node puts the graph of the YAML in place.
LEMMA Replaces ==
    ASSUME TypeOK, OnlyBegun, NEW w \in Worker, NEW g \in Yamls,
           NodeSyncYaml(w, g)
    PROVE  /\ pc[w] = "work" /\ pc'[w] = "synced"
           /\ job[w] \in Clone \cap begun
           /\ Others(w) /\ job'[w] = job[w]
           /\ run'.graph = g /\ run'.status = run.status
           /\ UNCHANGED <<node, nodeQ, begun, done, approval, engineQ>>
           /\ Unstopped => Unstopped'
BY DEF NodeSyncYaml, TypeOK, RunRow, Others, OnlyBegun, Unstopped

\* A step of an approver.
LEMMA Decides ==
    ASSUME TypeOK, NEW u \in Approver, ApproveStep(u) \/ ApproveFault(u)
    PROVE  /\ UNCHANGED <<run, nodeQ, begun, local>>
           /\ Unstopped => Unstopped'
           /\ \A v \in Approver \ {u} : approval'[v] = approval[v]
           /\ \/ /\ UNCHANGED <<node, engineQ, done>>
                 /\ \E n \in Node : /\ node[n].status = "waiting"
                                    /\ approval'[u].node = n
              \/ /\ approval[u].pc = "read" /\ approval'[u].pc = "saved"
                 /\ engineQ' = engineQ
                 /\ \A m \in Node \ {approval[u].node} : node'[m] = node[m]
                 /\ node'[approval[u].node].status \in {"success", "failed"}
                 /\ done' \in {done, done \cup {approval[u].node}}
              \/ /\ approval[u].pc = "saved" /\ approval'[u].pc = "idle"
                 /\ UNCHANGED <<node, done>>
                 /\ engineQ' \in {engineQ, engineQ + 1}
<1> USE DEF TypeOK, Answer, NodeRow, NoAnswer, rows, Faults, Unstopped
<1>1. CASE \E n \in Node : ApproveBegin(u, n)
  BY <1>1 DEF ApproveBegin
<1>2. CASE \E o \in {"success", "failed"} : ApproveSave(u, o)
  BY <1>2 DEF ApproveSave
<1>3. CASE ApproveAdvance(u) \/ ApproveFault(u)
  BY <1>3 DEF ApproveAdvance, ApproveFault
<1> QED BY <1>1, <1>2, <1>3 DEF ApproveStep

\* The walk from a node without upstream nodes ends there.
LEMMA RootReached ==
    ASSUME NEW g, NEW n \in Node, Upstream(g, n) = {}
    PROVE  Reached(g, n) = {n}
<1>1. {n} \in SUBSET Node /\ n \in {n} /\ Closed(g, {n})
  BY DEF Closed
<1>2. Reached(g, n) \subseteq {n}
  BY <1>1 DEF Reached
<1> QED BY <1>2 DEF Reached

\* Nobody stops the run and nothing is delivered twice.
LEMMA UnstoppedStep ==
    ASSUME CloneLeads, TypeOK, TypeOK', IndInv, YamlInv, [Next]_vars
    PROVE  Unstopped'
<1>0. /\ template' = template /\ template \in Graph /\ Yamls \subseteq Graph
      /\ NoGraph \notin Yamls
      /\ template # NoGraph /\ OnlyBegun
      /\ job \in [Worker -> Node \cup {NoNode}]
      /\ approval \in [Approver -> Answer] /\ nodeQ \in [Node -> Nat]
      /\ engineQ \in Nat
  BY TemplateKept, GraphAssumption DEF IndInv, TypeOK
<1> USE <1>0, NodeAssumption DEF YamlInv
<1>1. ASSUME NEW w \in Worker, AdvanceBegin(w)
      PROVE  Unstopped'
  BY <1>1, Begins DEF Unstopped
<1>2. ASSUME NEW w \in Worker,
             \/ AdvanceEmpty(w) \/ AdvanceFinalize(w) \/ AdvanceFault(w)
             \/ NodeNotify(w) \/ TaskDies(w)
             \/ AdvanceJudge(w) /\ pc'[w] = "idle"
      PROVE  Unstopped'
  BY <1>2, EndsOnly DEF Unstopped
<1>3. ASSUME NEW w \in Worker, AdvanceLoad(w)
      PROVE  Unstopped'
  BY <1>3, Loads DEF Unstopped
<1>4. ASSUME NEW w \in Worker, AdvanceJudge(w), pc'[w] # "idle"
      PROVE  Unstopped'
  BY <1>4, Judges DEF Unstopped
<1>5. ASSUME NEW w \in Worker, NEW n \in Node,
             AdvanceDispatch(w, n) \/ AdvanceLost(w, n)
      PROVE  Unstopped'
  BY <1>5, Dispatches DEF Unstopped
<1>6. ASSUME NEW w \in Worker, NEW n \in Node, NodeBegin(w, n)
      PROVE  Unstopped'
  BY <1>6, Starts DEF Unstopped
<1>7. ASSUME NEW w \in Worker,
             \/ NodeStart(w) \/ NodeSave(w)
             \/ \E o \in {"success", "failed"} : NodeFinish(w, o)
      PROVE  Unstopped'
  BY <1>7, Saves DEF Unstopped
<1>8. ASSUME NEW w \in Worker, NodeRefuse(w) \/ NodeRetry(w) \/ RetryLost(w)
      PROVE  Unstopped'
  BY <1>8, SavesAndGoes DEF Unstopped
<1>9. ASSUME NEW w \in Worker, NEW g \in Yamls, NodeSyncYaml(w, g)
      PROVE  Unstopped'
  BY <1>9, Replaces DEF Unstopped
<1>10. ASSUME NEW u \in Approver, ApproveStep(u) \/ ApproveFault(u)
      PROVE  Unstopped'
  BY <1>10, Decides DEF Unstopped
<1>11. ASSUME UNCHANGED vars PROVE Unstopped'
  BY <1>11 DEF vars, Unstopped
<1>12. ~StopBegin /\ ~StopStep /\ ~StopFault /\ ~Redeliver
  BY DEF Unstopped, StopBegin, StopStep, StopMark, StopList, StopNode,
     StopFault, Redeliver
<1> QED BY <1>1, <1>2, <1>3, <1>4, <1>5, <1>6, <1>7, <1>8, <1>9, <1>10, <1>11,
           <1>12
       DEF Next, Over, EngineStep, NodeStep

\* Rows become active when their nodes are dispatched.
LEMMA ActiveBegunStep ==
    ASSUME CloneLeads, TypeOK, TypeOK', IndInv, YamlInv, [Next]_vars
    PROVE  ActiveBegun'
<1>0. /\ template' = template /\ template \in Graph /\ Yamls \subseteq Graph
      /\ NoGraph \notin Yamls
      /\ template # NoGraph /\ OnlyBegun
      /\ job \in [Worker -> Node \cup {NoNode}]
      /\ approval \in [Approver -> Answer] /\ nodeQ \in [Node -> Nat]
      /\ engineQ \in Nat
  BY TemplateKept, GraphAssumption DEF IndInv, TypeOK
<1> USE <1>0, NodeAssumption DEF YamlInv
<1>1. ASSUME NEW w \in Worker, AdvanceBegin(w)
      PROVE  ActiveBegun'
  BY <1>1, Begins DEF ActiveBegun, Active
<1>2. ASSUME NEW w \in Worker,
             \/ AdvanceEmpty(w) \/ AdvanceFinalize(w) \/ AdvanceFault(w)
             \/ NodeNotify(w) \/ TaskDies(w)
             \/ AdvanceJudge(w) /\ pc'[w] = "idle"
      PROVE  ActiveBegun'
  BY <1>2, EndsOnly DEF ActiveBegun, Active
<1>3. ASSUME NEW w \in Worker, AdvanceLoad(w)
      PROVE  ActiveBegun'
  BY <1>3, Loads DEF ActiveBegun, Active
<1>4. ASSUME NEW w \in Worker, AdvanceJudge(w), pc'[w] # "idle"
      PROVE  ActiveBegun'
  BY <1>4, Judges DEF ActiveBegun, Active
<1>5. ASSUME NEW w \in Worker, NEW n \in Node,
             AdvanceDispatch(w, n) \/ AdvanceLost(w, n)
      PROVE  ActiveBegun'
  BY <1>5, Dispatches DEF ActiveBegun, Active
<1>6. ASSUME NEW w \in Worker, NEW n \in Node, NodeBegin(w, n)
      PROVE  ActiveBegun'
  BY <1>6, Starts DEF ActiveBegun, Active
<1>7. ASSUME NEW w \in Worker,
             \/ NodeStart(w) \/ NodeSave(w)
             \/ \E o \in {"success", "failed"} : NodeFinish(w, o)
      PROVE  ActiveBegun'
  BY <1>7, Saves DEF ActiveBegun, Active
<1>8. ASSUME NEW w \in Worker, NodeRefuse(w) \/ NodeRetry(w) \/ RetryLost(w)
      PROVE  ActiveBegun'
  BY <1>8, SavesAndGoes DEF ActiveBegun, Active
<1>9. ASSUME NEW w \in Worker, NEW g \in Yamls, NodeSyncYaml(w, g)
      PROVE  ActiveBegun'
  BY <1>9, Replaces DEF ActiveBegun, Active
<1>10. ASSUME NEW u \in Approver, ApproveStep(u) \/ ApproveFault(u)
      PROVE  ActiveBegun'
  BY <1>10, Decides DEF ActiveBegun, Active
<1>11. ASSUME UNCHANGED vars PROVE ActiveBegun'
  BY <1>11 DEF vars, ActiveBegun, Active
<1>12. ~StopBegin /\ ~StopStep /\ ~StopFault /\ ~Redeliver
  BY DEF Unstopped, StopBegin, StopStep, StopMark, StopList, StopNode,
     StopFault, Redeliver
<1> QED BY <1>1, <1>2, <1>3, <1>4, <1>5, <1>6, <1>7, <1>8, <1>9, <1>10, <1>11,
           <1>12 DEF Next, Over, EngineStep, NodeStep

\* Until a node is dispatched the first engine is alone.
LEMMA FirstEngineStep ==
    ASSUME CloneLeads, TypeOK, TypeOK', IndInv, YamlInv, [Next]_vars
    PROVE  FirstEngine'
<1>0. /\ template' = template /\ template \in Graph /\ Yamls \subseteq Graph
      /\ NoGraph \notin Yamls
      /\ template # NoGraph /\ OnlyBegun
      /\ job \in [Worker -> Node \cup {NoNode}]
      /\ approval \in [Approver -> Answer] /\ nodeQ \in [Node -> Nat]
      /\ engineQ \in Nat
  BY TemplateKept, GraphAssumption DEF IndInv, TypeOK
<1> USE <1>0, NodeAssumption DEF YamlInv
<1>1. ASSUME NEW w \in Worker, AdvanceBegin(w)
      PROVE  FirstEngine'
  BY <1>1, Begins DEF FirstEngine, Unasked, EnginePc, Others
<1>2. ASSUME NEW w \in Worker,
             \/ AdvanceEmpty(w) \/ AdvanceFinalize(w) \/ AdvanceFault(w)
             \/ NodeNotify(w) \/ TaskDies(w)
             \/ AdvanceJudge(w) /\ pc'[w] = "idle"
      PROVE  FirstEngine'
  BY <1>2, EndsOnly DEF FirstEngine, Unasked, Gone, Others
<1>3. ASSUME NEW w \in Worker, AdvanceLoad(w)
      PROVE  FirstEngine'
  BY <1>3, Loads DEF FirstEngine, Unasked, EnginePc, Others
<1>4. ASSUME NEW w \in Worker, AdvanceJudge(w), pc'[w] # "idle"
      PROVE  FirstEngine'
  BY <1>4, Judges DEF FirstEngine, Unasked, EnginePc, Others
<1>5. ASSUME NEW w \in Worker, NEW n \in Node,
             AdvanceDispatch(w, n) \/ AdvanceLost(w, n)
      PROVE  FirstEngine'
  BY <1>5, Dispatches DEF FirstEngine
<1>6. ASSUME NEW w \in Worker, NEW n \in Node, NodeBegin(w, n)
      PROVE  FirstEngine'
  BY <1>6, Starts DEF FirstEngine
<1>7. ASSUME NEW w \in Worker,
             \/ NodeStart(w) \/ NodeSave(w)
             \/ \E o \in {"success", "failed"} : NodeFinish(w, o)
      PROVE  FirstEngine'
  BY <1>7, Saves DEF FirstEngine
<1>8. ASSUME NEW w \in Worker, NodeRefuse(w) \/ NodeRetry(w) \/ RetryLost(w)
      PROVE  FirstEngine'
  BY <1>8, SavesAndGoes DEF FirstEngine
<1>9. ASSUME NEW w \in Worker, NEW g \in Yamls, NodeSyncYaml(w, g)
      PROVE  FirstEngine'
  BY <1>9, Replaces DEF FirstEngine
<1>10. ASSUME NEW u \in Approver, ApproveStep(u) \/ ApproveFault(u)
      PROVE  FirstEngine'
  BY <1>10, Decides DEF FirstEngine, Unasked, ActiveBegun, Active
<1>11. ASSUME UNCHANGED vars PROVE FirstEngine'
  BY <1>11 DEF vars, FirstEngine, Unasked
<1>12. ~StopBegin /\ ~StopStep /\ ~StopFault /\ ~Redeliver
  BY DEF Unstopped, StopBegin, StopStep, StopMark, StopList, StopNode,
     StopFault, Redeliver
<1> QED BY <1>1, <1>2, <1>3, <1>4, <1>5, <1>6, <1>7, <1>8, <1>9, <1>10, <1>11,
           <1>12 DEF Next, Over, EngineStep, NodeStep

\* The graph changes only while no engine is at work.
LEMMA GraphHeldStep ==
    ASSUME CloneLeads, TypeOK, TypeOK', IndInv, YamlInv, [Next]_vars
    PROVE  GraphHeld'
<1>0. /\ template' = template /\ template \in Graph /\ Yamls \subseteq Graph
      /\ NoGraph \notin Yamls
      /\ template # NoGraph /\ OnlyBegun
      /\ job \in [Worker -> Node \cup {NoNode}]
      /\ approval \in [Approver -> Answer] /\ nodeQ \in [Node -> Nat]
      /\ engineQ \in Nat
  BY TemplateKept, GraphAssumption DEF IndInv, TypeOK
<1> USE <1>0, NodeAssumption DEF YamlInv
<1>1. ASSUME NEW w \in Worker, AdvanceBegin(w)
      PROVE  GraphHeld'
  BY <1>1, Begins DEF GraphHeld, Judging, EnginePc, Others
<1>2. ASSUME NEW w \in Worker,
             \/ AdvanceEmpty(w) \/ AdvanceFinalize(w) \/ AdvanceFault(w)
             \/ NodeNotify(w) \/ TaskDies(w)
             \/ AdvanceJudge(w) /\ pc'[w] = "idle"
      PROVE  GraphHeld'
  BY <1>2, EndsOnly DEF GraphHeld, Judging, EnginePc, FirstEngine, Gone, Others
<1>3. ASSUME NEW w \in Worker, AdvanceLoad(w)
      PROVE  GraphHeld'
  <2>1. /\ seenRun[w].graph = run.graph /\ run'.graph = GraphOf(w)
        /\ GraphOf(w) \in {template} \cup Yamls
    BY <1>3, Loads DEF GraphHeld, EnginePc, GraphOf
  <2>2. ASSUME NEW v \in Worker \ {w}, pc[v] \in EnginePc
        PROVE  run'.graph = run.graph /\ pc'[v] = pc[v]
               /\ seenRun'[v] = seenRun[v] /\ seenNode'[v] = seenNode[v]
    <3>1. pc[v] # "idle" /\ pc[w] # "idle"
      BY <1>3, <2>2, Loads DEF EnginePc
    <3>2. run.graph # NoGraph
      BY <3>1 DEF GraphHeld, FirstEngine
    <3> QED BY <1>3, <2>1, <2>2, <3>2, Loads DEF Others
  <2>3. Exists(GraphOf(w), node')
    BY <1>3, <2>1, Loads DEF Exists, Graph
  <2>4. \A v \in Worker \ {w} : pc'[v] = pc[v]
    BY <1>3, Loads DEF Others
  <2> QED BY <1>3, <2>1, <2>2, <2>3, <2>4, Loads
          DEF GraphHeld, Judging, EnginePc
<1>4. ASSUME NEW w \in Worker, AdvanceJudge(w), pc'[w] # "idle"
      PROVE  GraphHeld'
  BY <1>4, Judges DEF GraphHeld, Judging, EnginePc, Others
<1>5. ASSUME NEW w \in Worker, NEW n \in Node,
             AdvanceDispatch(w, n) \/ AdvanceLost(w, n)
      PROVE  GraphHeld'
  BY <1>5, Dispatches DEF GraphHeld, Judging, EnginePc, Gone, Others
<1>6. ASSUME NEW w \in Worker, NEW n \in Node, NodeBegin(w, n)
      PROVE  GraphHeld'
  BY <1>6, Starts DEF GraphHeld, Judging, EnginePc, Others
<1>7. ASSUME NEW w \in Worker,
             \/ NodeStart(w) \/ NodeSave(w)
             \/ \E o \in {"success", "failed"} : NodeFinish(w, o)
      PROVE  GraphHeld'
  BY <1>7, Saves DEF GraphHeld, Judging, EnginePc, Others
<1>8. ASSUME NEW w \in Worker, NodeRefuse(w) \/ NodeRetry(w) \/ RetryLost(w)
      PROVE  GraphHeld'
  BY <1>8, SavesAndGoes DEF GraphHeld, Judging, EnginePc, Gone, Others
<1>9. ASSUME NEW w \in Worker, NEW g \in Yamls, NodeSyncYaml(w, g)
      PROVE  GraphHeld'
  BY <1>9, Replaces
  DEF GraphHeld, Judging, EnginePc, CloneAlone, NoEngine, Alone, Others
<1>10. ASSUME NEW u \in Approver, ApproveStep(u) \/ ApproveFault(u)
      PROVE  GraphHeld'
  BY <1>10, Decides DEF GraphHeld, Judging, local
<1>11. ASSUME UNCHANGED vars PROVE GraphHeld'
  BY <1>11 DEF vars, GraphHeld, Judging
<1>12. ~StopBegin /\ ~StopStep /\ ~StopFault /\ ~Redeliver
  BY DEF Unstopped, StopBegin, StopStep, StopMark, StopList, StopNode,
     StopFault, Redeliver
<1> QED BY <1>1, <1>2, <1>3, <1>4, <1>5, <1>6, <1>7, <1>8, <1>9, <1>10, <1>11,
           <1>12 DEF Next, Over, EngineStep, NodeStep

\* The git_clone node begins first and is never ready again.
LEMMA CloneWaitsStep ==
    ASSUME CloneLeads, TypeOK, TypeOK', IndInv, YamlInv, [Next]_vars
    PROVE  CloneWaits'
<1>0. /\ template' = template /\ template \in Graph /\ Yamls \subseteq Graph
      /\ NoGraph \notin Yamls
      /\ template # NoGraph /\ OnlyBegun
      /\ job \in [Worker -> Node \cup {NoNode}]
      /\ approval \in [Approver -> Answer] /\ nodeQ \in [Node -> Nat]
      /\ engineQ \in Nat
  BY TemplateKept, GraphAssumption DEF IndInv, TypeOK
<1> USE <1>0, NodeAssumption DEF YamlInv
<1>1. ASSUME NEW w \in Worker, AdvanceBegin(w)
      PROVE  CloneWaits'
  BY <1>1, Begins DEF CloneWaits, Foreign, Ahead, Behind, Judging, Others
<1>2. ASSUME NEW w \in Worker,
             \/ AdvanceEmpty(w) \/ AdvanceFinalize(w) \/ AdvanceFault(w)
             \/ NodeNotify(w) \/ TaskDies(w)
             \/ AdvanceJudge(w) /\ pc'[w] = "idle"
      PROVE  CloneWaits'
  BY <1>2, EndsOnly
  DEF CloneWaits, Foreign, Ahead, Behind, Judging, Gone, Others
<1>3. ASSUME NEW w \in Worker, AdvanceLoad(w)
      PROVE  CloneWaits'
  <2>1. /\ run'.graph = GraphOf(w) /\ GraphOf(w) \in {template} \cup Yamls
        /\ run.graph = template => GraphOf(w) = template
        /\ run.graph = NoGraph => GraphOf(w) = template
    BY <1>3, Loads DEF GraphHeld, EnginePc, GraphOf
  <2>2. ASSUME NEW n \in Node, n \notin GraphOf(w).nodes
        PROVE  node'[n].status = node[n].status
    BY <1>3, <2>2, Loads
  <2> SUFFICES ASSUME NEW c \in Clone
               PROVE  /\ c \notin template.nodes => Foreign(c)'
                      /\ c \in template.nodes \ (begun' \cup done') =>
                             Ahead(c)'
                      /\ c \in begun' \cup done' => Behind(c)'
    BY DEF CloneWaits
  <2>3. ASSUME c \notin template.nodes PROVE Foreign(c)'
    <3>1. node'[c].status = node[c].status
      BY <2>1, <2>2, <2>3 DEF CloneLeads
    <3>2. /\ Others(w) /\ begun' = begun /\ pc'[w] = "loaded"
          /\ seenNode'[w] = node'
      BY <1>3, Loads
    <3>3. Foreign(c)
      BY <2>3 DEF CloneWaits
    <3> QED BY <3>1, <3>2, <3>3 DEF Foreign, Judging, Others
  <2>4. ASSUME c \in template.nodes \ (begun' \cup done')
        PROVE  Ahead(c)'
    <3>1. Ahead(c)
      BY <1>3, <2>4, Loads DEF CloneWaits
    <3>2. \A n \in Node \ template.nodes : node'[n].status = "absent"
      BY <2>1, <2>2, <3>1 DEF Ahead
    <3> QED BY <1>3, <2>1, <3>1, <3>2, Loads DEF Ahead, Judging, Others
  <2>5. ASSUME c \in begun' \cup done'
        PROVE  Behind(c)'
    BY <1>3, <2>5, Loads DEF CloneWaits, Behind, Judging, Others
  <2> QED BY <2>3, <2>4, <2>5
<1>4. ASSUME NEW w \in Worker, AdvanceJudge(w), pc'[w] # "idle"
      PROVE  CloneWaits'
  <2>1. todo'[w] = Ready(run.graph, seenNode[w])
    BY <1>4, Judges DEF GraphHeld, EnginePc
  <2>2. \A n \in todo'[w] : n \in Node /\ seenNode[w][n].status = "pending"
    BY <2>1 DEF Ready
  <2> SUFFICES ASSUME NEW c \in Clone
               PROVE  /\ c \notin template.nodes => Foreign(c)'
                      /\ c \in template.nodes \ (begun' \cup done') =>
                             Ahead(c)'
                      /\ c \in begun' \cup done' => Behind(c)'
    BY DEF CloneWaits
  <2>3. ASSUME c \notin template.nodes PROVE Foreign(c)'
    BY <1>4, <2>2, <2>3, Judges DEF CloneWaits, Foreign, Judging, Others
  <2>4. ASSUME c \in template.nodes \ (begun' \cup done')
        PROVE  Ahead(c)'
    <3>1. Ahead(c) /\ Judging(w) /\ run.graph = template
      BY <1>4, <2>4, Judges DEF CloneWaits, Judging, GraphHeld, Ahead
    <3>2. ASSUME NEW n \in todo'[w] PROVE n = c
      <4>1. n \in Node /\ n \in template.nodes
        BY <2>2, <3>1 DEF Ahead
      <4>2. Upstream(template, n) = {}
        BY <2>1, <3>1, <3>2
        DEF Ready, Upstream, Ahead, IndInv, PassedRecorded, PassedIn
      <4>3. c \in Reached(template, n)
        BY <2>4, <4>1 DEF CloneLeads, TypeOK
      <4> QED BY <4>1, <4>2, <4>3, RootReached
    <3> QED BY <1>4, <3>1, <3>2, Judges DEF Ahead, Judging, Others
  <2>5. ASSUME c \in begun' \cup done'
        PROVE  Behind(c)'
    BY <1>4, <2>2, <2>5, Judges DEF CloneWaits, Behind, Judging, Others
  <2> QED BY <2>3, <2>4, <2>5
<1>5. ASSUME NEW w \in Worker, NEW n \in Node,
             AdvanceDispatch(w, n) \/ AdvanceLost(w, n)
      PROVE  CloneWaits'
  <2> SUFFICES ASSUME NEW c \in Clone
               PROVE  /\ c \notin template.nodes => Foreign(c)'
                      /\ c \in template.nodes \ (begun' \cup done') =>
                             Ahead(c)'
                      /\ c \in begun' \cup done' => Behind(c)'
    BY DEF CloneWaits
  <2>1. CASE n = c
    <3>1. Ahead(c) /\ c \in template.nodes
      BY <1>5, <2>1, Dispatches DEF CloneWaits, Foreign, Behind
    <3>2. \A v \in Worker : pc'[v] = "idle"
      <4>1. todo[w] = {n}
        BY <1>5, <2>1, <3>1, Dispatches DEF Ahead
      <4>2. \A v \in Worker \ {w} : pc[v] = "idle"
        BY <1>5, <3>1, Dispatches DEF Ahead, FirstEngine
      <4> QED BY <1>5, <4>1, <4>2, Dispatches DEF Gone, Others
    <3> QED BY <1>5, <2>1, <3>1, <3>2, Dispatches DEF Behind, Judging
  <2>2. CASE n # c
    <3>1. /\ node'[c] = node[c] /\ done' = done /\ begun' = begun \cup {n}
      BY <1>5, <2>2, Dispatches
    <3>2. \A v \in Worker : \/ pc'[v] = "idle"
                            \/ /\ pc'[v] = pc[v] /\ seenNode'[v] = seenNode[v]
                               /\ todo'[v] \subseteq todo[v]
      BY <1>5, Dispatches DEF Gone, Others
    <3>3. ~Ahead(c)
      BY <1>5, <2>2, Dispatches DEF Ahead
    <3> QED BY <2>2, <3>1, <3>2, <3>3 DEF CloneWaits, Foreign, Behind, Judging
  <2> QED BY <2>1, <2>2
<1>6. ASSUME NEW w \in Worker, NEW n \in Node, NodeBegin(w, n)
      PROVE  CloneWaits'
  BY <1>6, Starts DEF CloneWaits, Foreign, Ahead, Behind, Judging, Others
<1>7. ASSUME NEW w \in Worker,
             \/ NodeStart(w) \/ NodeSave(w)
             \/ \E o \in {"success", "failed"} : NodeFinish(w, o)
      PROVE  CloneWaits'
  BY <1>7, Saves DEF CloneWaits, Foreign, Ahead, Behind, Judging, Others
<1>8. ASSUME NEW w \in Worker, NodeRefuse(w) \/ NodeRetry(w) \/ RetryLost(w)
      PROVE  CloneWaits'
  BY <1>8, SavesAndGoes
  DEF CloneWaits, Foreign, Ahead, Behind, Judging, Gone, Others
<1>9. ASSUME NEW w \in Worker, NEW g \in Yamls, NodeSyncYaml(w, g)
      PROVE  CloneWaits'
  BY <1>9, Replaces DEF CloneWaits, Foreign, Ahead, Behind, Judging, Others
<1>10. ASSUME NEW u \in Approver, ApproveStep(u) \/ ApproveFault(u)
      PROVE  CloneWaits'
  <2>1. CASE UNCHANGED <<node, done>>
    BY <1>10, <2>1, Decides
    DEF CloneWaits, Foreign, Ahead, Behind, Judging, local
  <2>2. CASE approval[u].pc = "read" /\ ~UNCHANGED <<node, done>>
    <3> DEFINE m == approval[u].node
    <3>1. m \in begun
      BY <2>2 DEF ActiveBegun
    <3>2. /\ UNCHANGED <<run, begun, pc, seenNode, todo>>
          /\ \A n \in Node \ {m} : node'[n] = node[n]
          /\ node'[m].status \in {"success", "failed"}
          /\ done' \in {done, done \cup {m}}
      BY <1>10, <2>2, Decides DEF local
    <3> HIDE DEF m
    <3> QED BY <3>1, <3>2 DEF CloneWaits, Foreign, Ahead, Behind, Judging
  <2> QED BY <1>10, <2>1, <2>2, Decides
<1>11. ASSUME UNCHANGED vars PROVE CloneWaits'
  BY <1>11 DEF vars, CloneWaits, Foreign, Ahead, Behind, Judging
<1>12. ~StopBegin /\ ~StopStep /\ ~StopFault /\ ~Redeliver
  BY DEF Unstopped, StopBegin, StopStep, StopMark, StopList, StopNode,
     StopFault, Redeliver
<1> QED BY <1>1, <1>2, <1>3, <1>4, <1>5, <1>6, <1>7, <1>8, <1>9, <1>10, <1>11,
           <1>12 DEF Next, Over, EngineStep, NodeStep

\* Nothing else moves while the git_clone node does.
LEMMA CloneAloneStep ==
    ASSUME CloneLeads, TypeOK, TypeOK', IndInv, YamlInv, [Next]_vars
    PROVE  CloneAlone'
<1>0. /\ template' = template /\ template \in Graph /\ Yamls \subseteq Graph
      /\ NoGraph \notin Yamls
      /\ template # NoGraph /\ OnlyBegun
      /\ job \in [Worker -> Node \cup {NoNode}]
      /\ approval \in [Approver -> Answer] /\ nodeQ \in [Node -> Nat]
      /\ engineQ \in Nat
  BY TemplateKept, GraphAssumption DEF IndInv, TypeOK
<1> USE <1>0, NodeAssumption DEF YamlInv
<1>1. ASSUME NEW w \in Worker, AdvanceBegin(w)
      PROVE  CloneAlone'
  BY <1>1, Begins DEF CloneAlone, Alone, NoEngine, Others
<1>2. ASSUME NEW w \in Worker,
             \/ AdvanceEmpty(w) \/ AdvanceFinalize(w) \/ AdvanceFault(w)
             \/ NodeNotify(w) \/ TaskDies(w)
             \/ AdvanceJudge(w) /\ pc'[w] = "idle"
      PROVE  CloneAlone'
  BY <1>2, EndsOnly
  DEF CloneAlone, Alone, NoEngine, Unasked, EnginePc, OnlyBegun, Gone, Others
<1>3. ASSUME NEW w \in Worker, AdvanceLoad(w)
      PROVE  CloneAlone'
  BY <1>3, Loads DEF CloneAlone, Alone, NoEngine, EnginePc, Others
<1>4. ASSUME NEW w \in Worker, AdvanceJudge(w), pc'[w] # "idle"
      PROVE  CloneAlone'
  BY <1>4, Judges DEF CloneAlone, Alone, NoEngine, EnginePc, Others
<1>5. ASSUME NEW w \in Worker, NEW n \in Node,
             AdvanceDispatch(w, n) \/ AdvanceLost(w, n)
      PROVE  CloneAlone'
  <2> SUFFICES ASSUME NEW c \in Clone
               PROVE  /\ nodeQ'[c] > 0 => /\ Alone(c)' /\ nodeQ'[c] = 1
                                          /\ \A v \in Worker : job'[v] # c
                      /\ \A v \in Worker : job'[v] = c => pc'[v] = "notify"
    BY DEF CloneAlone
  <2>1. CASE n = c
    <3>1. Ahead(c)
      BY <1>5, <2>1, Dispatches DEF CloneWaits, Foreign, Behind
    <3>2. /\ nodeQ[c] = 0 /\ engineQ = 0 /\ Unasked
          /\ \A v \in Worker : v # w => pc[v] = "idle"
      BY <1>5, <3>1, Dispatches DEF Ahead, OnlyBegun, FirstEngine
    <3>3. \A v \in Worker : job[v] # c
      BY <1>5, <3>1, <3>2, Dispatches DEF Ahead, CloneAlone, Alone
    <3>4. Gone(w)
      BY <1>5, <2>1, <3>1, Dispatches DEF Ahead
    <3>5. \A v \in Worker : pc'[v] = "idle" /\ job'[v] # c
      BY <3>2, <3>3, <3>4 DEF Gone, Others
    <3> QED BY <1>5, <2>1, <3>1, <3>2, <3>5, Dispatches
            DEF Ahead, Alone, NoEngine, Unasked, EnginePc
  <2>2. CASE n # c
    <3>1. ~Alone(c)
      BY <1>5, Dispatches DEF Alone, NoEngine, EnginePc
    <3>2. nodeQ[c] = 0 /\ \A v \in Worker : job[v] = c => pc[v] = "notify"
      BY <3>1 DEF CloneAlone
    <3> QED BY <1>5, <2>2, <3>2, Dispatches DEF Gone, Others
  <2> QED BY <2>1, <2>2
<1>6. ASSUME NEW w \in Worker, NEW n \in Node, NodeBegin(w, n)
      PROVE  CloneAlone'
  BY <1>6, Starts DEF CloneAlone, Alone, NoEngine, Unasked, EnginePc, Others
<1>7. ASSUME NEW w \in Worker,
             \/ NodeStart(w) \/ NodeSave(w)
             \/ \E o \in {"success", "failed"} : NodeFinish(w, o)
      PROVE  CloneAlone'
  BY <1>7, Saves DEF CloneAlone, Alone, NoEngine, Unasked, EnginePc, Others
<1>8. ASSUME NEW w \in Worker, NodeRefuse(w) \/ NodeRetry(w) \/ RetryLost(w)
      PROVE  CloneAlone'
  BY <1>8, SavesAndGoes
  DEF CloneAlone, Alone, NoEngine, Unasked, EnginePc, Gone, Others
<1>9. ASSUME NEW w \in Worker, NEW g \in Yamls, NodeSyncYaml(w, g)
      PROVE  CloneAlone'
  BY <1>9, Replaces DEF CloneAlone, Alone, NoEngine, Unasked, EnginePc, Others
<1>10. ASSUME NEW u \in Approver, ApproveStep(u) \/ ApproveFault(u)
      PROVE  CloneAlone'
  <2> SUFFICES ASSUME NEW c \in Clone, Alone(c) PROVE FALSE
    BY <1>10, Decides DEF CloneAlone, local
  <2>1. approval[u].pc = "idle"
    BY DEF Alone, Unasked
  <2>2. PICK n \in Node : node[n].status = "waiting"
    BY <1>10, <2>1, Decides
  <2>3. n = c /\ n \in Approval
    BY <2>2 DEF ActiveBegun, Active, Alone
  <2> QED BY <2>3 DEF CloneLeads
<1>11. ASSUME UNCHANGED vars PROVE CloneAlone'
  BY <1>11 DEF vars, CloneAlone, Alone, NoEngine, Unasked
<1>12. ~StopBegin /\ ~StopStep /\ ~StopFault /\ ~Redeliver
  BY DEF Unstopped, StopBegin, StopStep, StopMark, StopList, StopNode,
     StopFault, Redeliver
<1> QED BY <1>1, <1>2, <1>3, <1>4, <1>5, <1>6, <1>7, <1>8, <1>9, <1>10, <1>11,
           <1>12 DEF Next, Over, EngineStep, NodeStep

\* What is dispatched has its upstream nodes passed, in the graph of the run.
LEMMA FollowedStep ==
    ASSUME CloneLeads, TypeOK, TypeOK', IndInv, YamlInv, [Next]_vars
    PROVE  Followed'
<1>0. /\ template' = template /\ template \in Graph /\ Yamls \subseteq Graph
      /\ NoGraph \notin Yamls
      /\ template # NoGraph /\ OnlyBegun
      /\ job \in [Worker -> Node \cup {NoNode}]
      /\ approval \in [Approver -> Answer] /\ nodeQ \in [Node -> Nat]
      /\ engineQ \in Nat
  BY TemplateKept, GraphAssumption DEF IndInv, TypeOK
<1> USE <1>0, NodeAssumption DEF YamlInv
<1>1. ASSUME NEW w \in Worker, AdvanceBegin(w)
      PROVE  Followed'
  BY <1>1, Begins DEF Followed, Others
<1>2. ASSUME NEW w \in Worker,
             \/ AdvanceEmpty(w) \/ AdvanceFinalize(w) \/ AdvanceFault(w)
             \/ NodeNotify(w) \/ TaskDies(w)
             \/ AdvanceJudge(w) /\ pc'[w] = "idle"
      PROVE  Followed'
  <2>1. CASE run'.graph # run.graph
    <3>1. /\ run.graph = NoGraph /\ begun = {} /\ run'.status # "success"
          /\ \A v \in Worker : pc'[v] = "idle"
      BY <1>2, <2>1, EndsOnly
      DEF GraphHeld, EnginePc, FirstEngine, Gone, Others
    <3> QED BY <1>2, <2>1, <3>1, EndsOnly DEF Followed
  <2>2. CASE run'.graph = run.graph
    <3>1. ASSUME pc[w] = "finalize", Verdict(seenNode[w]) = "success",
                 NEW n \in run.graph.nodes
          PROVE  n \in done
      <4>1. n \in Node /\ seenNode[w][n].status \in NodeStatus
        BY <3>1 DEF GraphHeld, Judging, Graph, TypeOK, NodeRow
      <4>2. seenNode[w][n].status \in Passed
        BY <3>1, <4>1
        DEF Verdict, HasStatus, GraphHeld, Judging, Exists, IndInv, CreatedInv,
            NodeStatus, Passed
      <4> QED BY <4>1, <4>2 DEF IndInv, PassedRecorded, PassedIn
    <3> QED BY <1>2, <2>2, <3>1, EndsOnly DEF Followed, Gone, Others
  <2> QED BY <2>1, <2>2
<1>3. ASSUME NEW w \in Worker, AdvanceLoad(w)
      PROVE  Followed'
  <2>1. CASE run.graph = NoGraph
    <3>1. begun = {} /\ run'.graph = template
      BY <1>3, <2>1, Loads DEF GraphHeld, EnginePc
    <3>2. \A v \in Worker \ {w} : pc[v] = "idle"
      BY <1>3, <3>1, Loads DEF FirstEngine
    <3>3. run.status = "success" => template.nodes \subseteq done
      BY DEF IndInv, SuccessMeansPassed
    <3> QED BY <1>3, <3>1, <3>2, <3>3, Loads DEF Followed, Others
  <2>2. CASE run.graph # NoGraph
    <3>1. run'.graph = run.graph
      BY <1>3, <2>2, Loads DEF GraphHeld, EnginePc
    <3> QED BY <1>3, <2>2, <3>1, Loads DEF Followed, Others
  <2> QED BY <2>1, <2>2
<1>4. ASSUME NEW w \in Worker, AdvanceJudge(w), pc'[w] # "idle"
      PROVE  Followed'
  <2>1. todo'[w] = Ready(run.graph, seenNode[w])
    BY <1>4, Judges DEF GraphHeld, EnginePc
  <2>2. \A n \in todo'[w] : Upstream(run.graph, n) \subseteq done
    BY <2>1 DEF Ready, Upstream, IndInv, PassedRecorded, PassedIn
  <2> QED BY <1>4, <2>2, Judges DEF Followed, Others
<1>5. ASSUME NEW w \in Worker, NEW n \in Node,
             AdvanceDispatch(w, n) \/ AdvanceLost(w, n)
      PROVE  Followed'
  BY <1>5, Dispatches DEF Followed, Gone, Others
<1>6. ASSUME NEW w \in Worker, NEW n \in Node, NodeBegin(w, n)
      PROVE  Followed'
  BY <1>6, Starts DEF Followed, Others
<1>7. ASSUME NEW w \in Worker,
             \/ NodeStart(w) \/ NodeSave(w)
             \/ \E o \in {"success", "failed"} : NodeFinish(w, o)
      PROVE  Followed'
  BY <1>7, Saves DEF Followed, Others
<1>8. ASSUME NEW w \in Worker, NodeRefuse(w) \/ NodeRetry(w) \/ RetryLost(w)
      PROVE  Followed'
  BY <1>8, SavesAndGoes DEF Followed, Gone, Others
<1>9. ASSUME NEW w \in Worker, NEW g \in Yamls, NodeSyncYaml(w, g)
      PROVE  Followed'
  <2> DEFINE c == job[w]
  <2>1. c \in Clone /\ c \in begun /\ Alone(c)
    BY <1>9, Replaces DEF CloneAlone
  <2>2. run.status # "success"
    BY <2>1 DEF IndInv, SuccessMeansPassed, CloneWaits, Foreign, Alone
  <2>3. Upstream(g, c) = {}
    BY <2>1 DEF CloneLeads
  <2>4. begun' = {c} /\ run'.graph = g /\ run'.status = run.status
    BY <1>9, <2>1, Replaces DEF Alone
  <2>5. \A v \in Worker : pc'[v] # "dispatch"
    BY <1>9, <2>1, Replaces DEF Others, Alone, NoEngine, EnginePc
  <2> QED BY <2>2, <2>3, <2>4, <2>5 DEF Followed
<1>10. ASSUME NEW u \in Approver, ApproveStep(u) \/ ApproveFault(u)
      PROVE  Followed'
  BY <1>10, Decides DEF Followed, local
<1>11. ASSUME UNCHANGED vars PROVE Followed'
  BY <1>11 DEF vars, Followed
<1>12. ~StopBegin /\ ~StopStep /\ ~StopFault /\ ~Redeliver
  BY DEF Unstopped, StopBegin, StopStep, StopMark, StopList, StopNode,
     StopFault, Redeliver
<1> QED BY <1>1, <1>2, <1>3, <1>4, <1>5, <1>6, <1>7, <1>8, <1>9, <1>10, <1>11,
           <1>12 DEF Next, Over, EngineStep, NodeStep

\* YamlInv holds of a new run, and of a retry: its start node is the
\* git_clone node or the git_clone node is skipped.
LEMMA YamlInit == ASSUME CloneLeads, Init PROVE YamlInv
<1> USE NodeAssumption, ActorAssumption DEF Init
<1>1. /\ template \in Graph /\ node \in [Node -> NodeRow]
      /\ \A n \in Node : /\ node[n].status \in {"absent", "pending", "skipped"}
                         /\ n \notin template.nodes =>
                                node[n].status = "absent"
                         /\ n \in done <=> node[n].status = "skipped"
  BY GraphAssumption
  DEF NoNodes, Absent, RetryNodes, PassedIn, Passed, NodeRow, NodeStatus
<1>2. Unstopped /\ ActiveBegun
  BY <1>1 DEF Unstopped, StopIdle, ActiveBegun, Active, NoAnswer, CloneLeads
<1>3. FirstEngine /\ GraphHeld /\ Followed
  BY DEF FirstEngine, Unasked, NoAnswer, GraphHeld, NoRun, Judging, Followed
<1>4. CloneAlone
  BY DEF CloneAlone
<1>5. CloneWaits
  <2> SUFFICES ASSUME NEW c \in Clone
               PROVE  /\ c \notin template.nodes => Foreign(c)
                      /\ c \in template.nodes \ (begun \cup done) => Ahead(c)
                      /\ c \in begun \cup done => Behind(c)
    BY DEF CloneWaits
  <2>1. (c \notin template.nodes => Foreign(c))
            /\ (c \in begun \cup done => Behind(c))
    BY <1>1 DEF Foreign, Behind, Judging
  <2>2. ASSUME c \in template.nodes \ (begun \cup done) PROVE done = {}
    <3>1. CASE node = NoNodes
      BY <3>1 DEF NoNodes, Absent, PassedIn, Passed
    <3>2. CASE node # NoNodes
      <4>1. PICK s \in RetryFrom \cap template.nodes : node = RetryNodes(s)
        BY <3>2
      <4>2. c \in Reached(template, s) /\ Upstream(template, c) = {}
        BY <2>2, <4>1 DEF CloneLeads
      <4>3. c \notin Ancestors(template, s)
        BY <1>1, <2>2, <4>1 DEF RetryNodes
      <4>4. c = s
        BY <4>2, <4>3 DEF Ancestors
      <4>5. Ancestors(template, s) = {}
        BY <4>2, <4>4, RootReached DEF Ancestors
      <4> QED BY <4>1, <4>5 DEF RetryNodes, PassedIn, Passed
    <3> QED BY <3>1, <3>2
  <2>3. ASSUME c \in template.nodes \ (begun \cup done) PROVE Ahead(c)
    BY <1>1, <2>2, <2>3 DEF Ahead, Judging, NoRun
  <2> QED BY <2>1, <2>3
<1> QED BY <1>2, <1>3, <1>4, <1>5 DEF YamlInv

\* The graph an .ansflow-ci.yml puts in place is followed when everything
\* waits for the git_clone node, whatever is retried, dies or gets lost: its
\* jobs begin after what they need, and a successful run has passed them all.
\* Code: "prefer the run's own graph", tasks.py l. 743.
THEOREM YamlKept == ASSUME CloneLeads PROVE Spec => []YamlFollowed
<1>1. Init => YamlInv
  BY YamlInit
<1>2. TypeOK /\ TypeOK' /\ IndInv /\ YamlInv /\ [Next]_vars => YamlInv'
  BY UnstoppedStep, ActiveBegunStep, FirstEngineStep, GraphHeldStep,
     CloneWaitsStep, CloneAloneStep, FollowedStep DEF YamlInv
<1>3. YamlInv => YamlFollowed
  BY GraphAssumption
  DEF YamlInv, Followed, YamlFollowed, YamlNeeds, YamlComplete
<1> QED BY <1>1, <1>2, <1>3, TypeCorrect, Inductive, PTL DEF Spec

=============================================================================
