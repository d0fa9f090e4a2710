----------------------------- MODULE MCDelivery -----------------------------
(* DeliverySystem for TLC.  p1 and p2 are processes, d1..d3 rows; what a     *)
(* component has to compare with its own strings is a string.                *)
EXTENDS DeliverySystem, Sequences, FiniteSets, TLC

CONSTANTS p1, p2, d1, d2, d3

Processes == {p1, p2}
OneProcess == {p1}
OneRow == {d1}
TwoRows == {d1, d2}
ThreeRows == {d1, d2, d3}
FourItems == 1..4

\* PipelineVersions: what the requests that update the template send.
Send(graph, expr, on) == [graph |-> graph, expr |-> expr, on |-> on]
VersionEdits == {Send("g1", "c1", TRUE), Send("g2", "c2", TRUE),
                 Send("g1", "c2", FALSE), Send("g2", "blank", TRUE),
                 Send("empty", "bad", TRUE)}

\* GraphBuild: a diamond with a cycle, a way back to the root and a loop.
DiamondArrows == {<<1, 2>>, <<1, 3>>, <<2, 3>>, <<2, 4>>, <<3, 4>>, <<4, 2>>,
                  <<3, 1>>, <<1, 1>>}

\* NodeWork: three runs of one kind, whose nodes may name a fixed tag, or two
\* of every kind with a fault, whose nodes may also name a tag that is a run's.
Plans == {[runs |-> {"r1", "r2", "r3"}, targets |-> {"k8s"},
           tags |-> {"latest"}, faults |-> 0, rounds |-> 0],
          [runs |-> {"r1", "r2"}, tags |-> {"latest", "r1"},
           targets |-> {"k8s", "hosts", "ansible", "webhook"},
           faults |-> 1, rounds |-> 3]}

\* HelmReleases: c1, c3 and g1 are builds of the same name and version.
ChartName(c) == IF c \in {"c1", "c3", "g1"} THEN "web-1" ELSE "web-2"
HelmBudget(r, s, c, e, f) ==
    [requests |-> r, syncs |-> s, commits |-> c, edits |-> e, faults |-> f]
HelmBudgets == {HelmBudget(3, 0, 0, 0, 0), HelmBudget(1, 2, 0, 0, 0),
                HelmBudget(0, 1, 0, 1, 1), HelmBudget(0, 2, 1, 0, 1)}

\* HostChecks: clause c1 has the clauses c2, which b1 covers, and c3, which
\* both baselines cover.
ParentOf == [k \in {"c1", "c2", "c3"} |-> IF k = "c1" THEN "top" ELSE "c1"]
CoversOf == [k \in {"c1", "c2", "c3"} |->
               CASE k = "c1" -> {} [] k = "c2" -> {"b1"}
                 [] OTHER -> {"b1", "b2"}]

\* HostInventory: two reports, the second with the names exchanged.
Asset(i, n, s) == [ip |-> i, name |-> n, status |-> s]
Reports == {<<Asset("i1", "n1", 1), Asset("i2", "n2", 0)>>,
            <<Asset("i2", "n1", 1), Asset("i1", "n2", 1)>>}
SyncBudget(s, p, e) == [syncs |-> s, probes |-> p, edits |-> e]
SyncBudgets == {SyncBudget(2, 0, 1), SyncBudget(1, 1, 2)}

Symmetry == Permutations({p1, p2}) \cup Permutations({d1, d2, d3})
=============================================================================
