-------------------------- MODULE MCPipelineEngine --------------------------
(* Graphs and node sets for the runs of PipelineEngine.                    *)
EXTENDS PipelineEngine

CONSTANTS a, b, c, d,     \* ordinary nodes
          p,              \* an approval node
          k               \* a git_clone node

\* a -> b -> c
Chain == [nodes |-> {a, b, c}, edges |-> {<<a, b>>, <<b, c>>}]
\* a -> b, a -> c, b -> d, c -> d
Diamond == [nodes |-> {a, b, c, d},
            edges |-> {<<a, b>>, <<a, c>>, <<b, d>>, <<c, d>>}]
\* a -> d, a -> b <-> c: b and c can never become ready
Cycle == [nodes |-> {a, b, c, d},
          edges |-> {<<a, d>>, <<a, b>>, <<b, c>>, <<c, b>>}]
\* a -> p -> c
Gate == [nodes |-> {a, p, c}, edges |-> {<<a, p>>, <<p, c>>}]
\* a -> b, a -> p
Branches == [nodes |-> {a, b, p}, edges |-> {<<a, b>>, <<a, p>>}]
\* a -> b, a -> c
Fork == [nodes |-> {a, b, c}, edges |-> {<<a, b>>, <<a, c>>}]
\* k -> b
CloneFirst == [nodes |-> {k, b}, edges |-> {<<k, b>>}]
\* a -> k, a -> b
CloneBeside == [nodes |-> {a, b, k}, edges |-> {<<a, k>>, <<a, b>>}]
\* the jobs of an .ansflow-ci.yml: d needs c
YamlJobs == [nodes |-> {c, d}, edges |-> {<<c, d>>}]
YamlNoJobs == [nodes |-> {}, edges |-> {}]
\* a template without nodes
Nothing == [nodes |-> {}, edges |-> {}]

\* Templates and YAML graphs of the runs.
None      == {}
Schedules == {Diamond, Cycle, Branches, CloneFirst}
Lines     == {Chain, Gate, Nothing}
Joins     == {Branches, Diamond, Gate}
OneFork   == {Fork}
OneChain  == {Chain}
OneBeside == {CloneBeside}
AnyYaml   == {YamlJobs, YamlNoJobs}
OneYaml   == {YamlJobs}

NoRetries == [n \in Node |-> 0]
RetryC    == [n \in Node |-> IF n = c THEN 1 ELSE 0]
RetryB    == [n \in Node |-> IF n = b THEN 1 ELSE 0]

\* A stop request and a fault meet concurrent branches, one of them a wait
\* for approval; a message delivered twice meets the other graphs.
MixedInit ==
    /\ Init
    /\ IF template = Branches
       THEN stopsLeft = 1 /\ faultsLeft = [lost |-> 1, doubled |-> 0]
       ELSE stopsLeft = 0 /\ faultsLeft = [lost |-> 0, doubled |-> 1]
MixedSpec == MixedInit /\ [][Next]_vars
=============================================================================
