------------------------------- MODULE DagRun -------------------------------
(***************************************************************************)
(* What the pipeline engine promises of one run, without workers, copies   *)
(* or messages: nodes begin in the order of the edges, only while the run  *)
(* is open, and the run succeeds only when every node has passed.          *)
(***************************************************************************)
CONSTANT Graphs        \* graphs the run may be about: [nodes, edges]

VARIABLES graph, status, begun, done

dvars == <<graph, status, begun, done>>

Needs(n) == {m \in graph.nodes : <<m, n>> \in graph.edges}

\* A retry run starts with nodes it takes as passed.
Init ==
    /\ graph \in Graphs
    /\ status = "pending"
    /\ begun = {}
    /\ done \in SUBSET graph.nodes

Open ==
    /\ status = "pending" /\ status' = "running"
    /\ UNCHANGED <<graph, begun, done>>

Begin(n) ==
    /\ status = "running" /\ n \notin begun \cup done
    /\ Needs(n) \subseteq done
    /\ begun' = begun \cup {n}
    /\ UNCHANGED <<graph, status, done>>

Pass(n) ==
    /\ n \in begun \ done
    /\ done' = done \cup {n}
    /\ UNCHANGED <<graph, status, begun>>

Succeed ==
    /\ status = "running" /\ graph.nodes # {} /\ done = graph.nodes
    /\ status' = "success"
    /\ UNCHANGED <<graph, begun, done>>

\* A run fails only with something left that has not passed, or with nothing
\* to do at all.
Fail ==
    /\ status \in {"pending", "running"}
    /\ done # graph.nodes \/ graph.nodes = {}
    /\ status' = "failed"
    /\ UNCHANGED <<graph, begun, done>>

Next ==
    \/ Open \/ Succeed \/ Fail
    \/ \E n \in graph.nodes : Begin(n) \/ Pass(n)

Spec == Init /\ [][Next]_dvars

=============================================================================
