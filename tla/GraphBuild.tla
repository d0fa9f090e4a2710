----------------------------- MODULE GraphBuild -----------------------------
(***************************************************************************)
(* How graphs that no user drew become pipeline graphs: the draft of an    *)
(* analysis is filtered by normalize_and_filter_ai_dag, which bypasses the *)
(* nodes that are no actions, and .ansflow-ci.yml is read by               *)
(* YAMLToGraphParser.  Both lay the nodes out in levels.                   *)
(***************************************************************************)
EXTENDS Integers, FiniteSetsExt

CONSTANTS
    Item,       \* ids of nodes, names of jobs
    Arrows      \* bound: the edges a graph may have, a subset of Item \X Item

VARIABLES
    origin,     \* "ai" or "yaml"
    given,      \* edges of the input, between any ids
    nodes,      \* the nodes still in the graph
    excluded,   \* nodes of a type or with a label that is no action
    edges,      \* edges of the graph being built
    level,      \* level given to a node, NoLevel before
    frontier,   \* breadth-first search of the layout
    phase

vars == <<origin, given, nodes, excluded, edges, level, frontier, phase>>

NoLevel == 0 - 1
Levels  == {level[n] : n \in nodes}

\* Types are mapped first (manual -> approval, trigger -> input, ...), so
\* excluded is whatever is_excluded says after that.
Init ==
    /\ origin \in {"ai", "yaml"}
    /\ given \in SUBSET Arrows
    /\ nodes \in (SUBSET Item) \ {{}}
    /\ excluded \in IF origin = "ai" THEN SUBSET nodes ELSE {{}}
    /\ edges = given
    /\ level = [n \in Item |-> NoLevel]
    /\ frontier = {} /\ phase = "filter"

Sources(n) == {a \in Item : <<a, n>> \in edges}
Targets(n) == {b \in Item : <<n, b>> \in edges}

-----------------------------------------------------------------------------
(* The draft of an analysis.                                               *)

\* One round of the filter: every source of u is joined to every target of u,
\* but never to itself, and u disappears with its edges.
BypassOne(u) ==                \* variant: only when u has one source
    /\ phase = "filter" /\ u \in nodes \cap excluded
    /\ nodes' = nodes \ {u}
    /\ edges' = {e \in edges \cup
                     (IF Cardinality(Sources(u)) = 1
                      THEN {e \in Sources(u) \X Targets(u) : e[1] # e[2]}
                      ELSE {}) : u \notin {e[1], e[2]}}
    /\ UNCHANGED <<origin, given, excluded, level, frontier, phase>>
Bypass(u) ==
    /\ phase = "filter" /\ u \in nodes \cap excluded
    /\ nodes' = nodes \ {u}
    /\ edges' = {e \in edges \cup {e \in Sources(u) \X Targets(u) :
                                      e[1] # e[2]} : u \notin {e[1], e[2]}}
    /\ UNCHANGED <<origin, given, excluded, level, frontier, phase>>

\* The levels are distances from the nodes without a source; a graph without
\* any starts at its first node.
LayoutBegin ==
    LET roots == {n \in nodes : Sources(n) \cap nodes = {}}
    IN  /\ phase = "filter" /\ origin = "ai" /\ nodes \cap excluded = {}
        /\ phase' = "layout"
        /\ IF roots # {} \/ nodes = {} THEN frontier' = roots
           ELSE \E first \in nodes : frontier' = {first}
        /\ UNCHANGED <<origin, given, nodes, excluded, edges, level>>

LayoutStep ==
    LET next    == Max(Levels) + 1
        reached == {n \in Item : n \in frontier \/ level[n] # NoLevel}
    IN  /\ phase = "layout" /\ frontier # {}
        /\ level' = [n \in Item |-> IF n \in frontier THEN next ELSE level[n]]
        /\ frontier' = {m \in nodes \ reached :
                          \E n \in frontier : m \in Targets(n)}
        /\ UNCHANGED <<origin, given, nodes, excluded, edges, phase>>

\* Nodes never reached get the level after the last.
LayoutEnd ==
    /\ phase = "layout" /\ frontier = {}
    /\ level' = [n \in Item |->
                   IF n \in nodes /\ level[n] = NoLevel
                   THEN Max(Levels \cup {0}) + 1 ELSE level[n]]
    /\ phase' = "done"
    /\ UNCHANGED <<origin, given, nodes, excluded, edges, frontier>>

-----------------------------------------------------------------------------
(* .ansflow-ci.yml: an edge for each need that names a job.                *)

ParseJobs ==
    /\ phase = "filter" /\ origin = "yaml"
    /\ edges' = edges \cap (nodes \X nodes)
    /\ phase' = "levels"
    /\ UNCHANGED <<origin, given, nodes, excluded, level, frontier>>

\* get_level: one more than the highest level of the needs; on a cycle the
\* recursion ends in an exception and the graph is not used.
GetLevel(n) ==
    /\ phase = "levels" /\ n \in nodes /\ level[n] = NoLevel
    /\ \A a \in Sources(n) : level[a] # NoLevel
    /\ level' = [level EXCEPT ![n] =
                   Max({level[a] : a \in Sources(n)} \cup {NoLevel}) + 1]
    /\ phase' = IF NoLevel \in {level'[m] : m \in nodes} THEN "levels"
                ELSE "done"
    /\ UNCHANGED <<origin, given, nodes, excluded, edges, frontier>>
Recursion ==
    /\ phase = "levels"
    /\ \A n \in nodes : level[n] = NoLevel =>
           \E a \in Sources(n) : level[a] = NoLevel
    /\ phase' = "failed"
    /\ UNCHANGED <<origin, given, nodes, excluded, edges, level, frontier>>

Next ==
    \/ \E n \in Item : Bypass(n) \/ GetLevel(n)
    \/ LayoutBegin \/ LayoutStep \/ LayoutEnd
    \/ ParseJobs \/ Recursion

Spec == Init /\ [][Next]_vars

-----------------------------------------------------------------------------
(* Properties.                                                             *)

GraphTypeOK ==
    /\ origin \in {"ai", "yaml"} /\ given \subseteq Arrows
    /\ nodes \subseteq Item /\ excluded \subseteq Item
    /\ edges \subseteq Item \X Item
    /\ level \in [Item -> (NoLevel)..Cardinality(Item)]
    /\ frontier \subseteq nodes
    /\ phase \in {"filter", "layout", "levels", "done", "failed"}

\* b lies in every set that holds the targets of a and of its own members.
Reaches(arrows, a, b) ==
    \A S \in SUBSET Item :
        (\A e \in arrows : (e[1] = a \/ e[1] \in S) => e[2] \in S) => b \in S

\* Whatever was filtered out and in whatever order, an action waits for
\* exactly the actions it waited for in the input, and every action has its
\* place; in a graph read from YAML a job's level is above its needs', and a
\* graph with a cycle is refused.  Code: the bypass of approvals and inputs in
\* drafts, the needs of jobs.
GraphFaithful ==
    /\ origin = "ai" =>
          \A a, b \in nodes :
              a # b => (Reaches(edges, a, b) <=> Reaches(given, a, b))
    /\ phase = "done" =>
          /\ \A n \in nodes : level[n] # NoLevel
          /\ origin = "yaml" => \A e \in edges : level[e[1]] < level[e[2]]
    /\ phase = "failed" => \E n \in nodes : Reaches(edges, n, n)
=============================================================================
