--------------------------- MODULE MCDiagnosisRun ---------------------------
(* An instance of DiagnosisRun for TLC, under every kind of fault.         *)
EXTENDS DiagnosisRun, TLC

Symmetry == Permutations(Task) \cup Permutations(Worker)
            \cup Permutations(Caller)

AnyFault == [crashed |-> 1, lost |-> 1, doubled |-> 1]
=============================================================================
