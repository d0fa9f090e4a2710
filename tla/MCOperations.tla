---------------------------- MODULE MCOperations ----------------------------
(* OperationsSystem for TLC.  p1..p4 are processes, the other model values   *)
(* rows; what a component has to compare with its own strings is a string.   *)
EXTENDS OperationsSystem, SequencesExt, TLC

CONSTANTS p1, p2, p3, p4, d1, d2, n1, n2

Processes == {p1, p2}
Workers == {p3, p4}
OneProcess == {p1}
SecondProcess == {p2}
OneRow == {d1}
TwoRows == {d1, d2}
Runs == {n1, n2}
TrimmedLists == <<"evidence", "failed_nodes">>
UntrimmedLists == <<"ansflow_alerts">>
RawLists == <<"raw_log_items">>
ResourceCode == <<"app", "res">>

\* AlertHealing: webhooks with a fault, requests of users, or three webhooks
\* of an alert whose name is ignored.  Faults meet the open gate here; MCLives
\* has them with a closed one.
AlertBudget(w, v, f) == [webhooks |-> w, views |-> v, faults |-> f]
AlertBudgets == {AlertBudget(2, 0, 1), AlertBudget(1, 2, 0),
                 AlertBudget(3, 0, 0)}

\* DiagnosisTemplates: changes and faults.
TemplateBudget == {<<3, 0>>, <<2, 1>>, <<1, 3>>}

\* DiagnosisContext: two metrics, which may share a name, and a log line of
\* each log source.
LineBounds == [s \in TwoRows \cup {"m1"} |-> IF s = "m1" THEN 2 ELSE 1]

\* DiagnosisPrompt: lists of items that fit, items that do not, and the
\* length of everything else within the budget of 5 and beyond it.
Rooms == [evidence |-> 3, failed_nodes |-> 3, ansflow_alerts |-> 2]
Entry(s, n) == [score |-> s, length |-> n]
EntryLists == BoundedSeq({Entry(1, 1), Entry(2, 2), Entry(1, 2)}, 2)
              \cup {<<Entry(2, 4), Entry(1, 1)>>, <<Entry(1, 1), Entry(2, 4)>>}
ContextsOf ==
    {c \in [{"evidence", "failed_nodes", "ansflow_alerts", "raw_log_items"}
              -> EntryLists] :
        /\ c["raw_log_items"] \in {<<>>, <<Entry(1, 1)>>}
        /\ Len(c["ansflow_alerts"]) < 2
        /\ c["raw_log_items"] # <<>> => Len(c["failed_nodes"]) < 2}
Forms(f, m, c, i) ==
    [full |-> f, minimal |-> m, compacted |-> c, identifiers |-> i]
FormLengths == {Forms(2, 1, 1, 1), Forms(6, 5, 4, 2), Forms(6, 6, 6, 6)}

\* Accounts: what user name an identity gives.  An LDAP uid is its own, one
\* of them that of an account with a password; names at GitHub pass on.
NameOf(p, i) == CASE p = "ldap"   -> IF i = "i1" THEN "ann" ELSE "bob"
                  [] p = "github" -> "gh_ann"
                  [] OTHER        -> "wx_ann"
AccountBudget == {[calls |-> 3, edits |-> 0], [calls |-> 2, edits |-> 1]}

\* ProjectAccess: u1 may edit assets and manages a2, u2 may do everything in
\* the application and uses a1.
HomeOf == [a \in {"a1", "a2"} |-> IF a = "a1" THEN "p1" ELSE "p2"]
CreatorOf == [a \in {"a1", "a2"} |-> IF a = "a1" THEN "u1" ELSE "u2"]
Codes == [u \in {"u1", "u2"} |-> IF u = "u1" THEN {<<"app", "res", "edit">>}
                                ELSE {<<"app", "*">>}]
Scopes == [u \in {"u1", "u2"} |->
             [use |-> IF u = "u2" THEN {"a1"} ELSE {},
              manage |-> IF u = "u1" THEN {"a2"} ELSE {}]]

Symmetry == Permutations({p1, p2}) \cup Permutations({p3, p4})
            \cup Permutations({d1, d2}) \cup Permutations({n1, n2})

-----------------------------------------------------------------------------
\* The behaviours considered: faults and a third webhook under these policies
\* only; a category outside the registry that exists, and two changes or one
\* and a failure of Redis; a share of an asset with a natural key, and another
\* asset missing or without its foreign key.
MCInit ==
    /\ Init
    /\ part = "alerts" => /\ alertsLeft.webhooks = 3 => policy.ignored
                          /\ alertsLeft.faults > 0 => policy.gate = "open"
    /\ part = "config" => /\ "c1" \in categories
                          /\ configLeft + configFaultsLeft = 2
                          /\ configLeft > 0
    /\ part = "restore" =>
          /\ backup.ref = 1 /\ backup.share # 3 /\ backup.orphans # Restore!Olds
          /\ IF backup.share = 0 THEN sharing[1] = 0
             ELSE backup.match = "key" /\ backup.fk = 1
MCSpec == MCInit /\ [][Next]_vars
=============================================================================
