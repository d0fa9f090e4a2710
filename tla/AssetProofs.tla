---------------------------- MODULE AssetProofs ----------------------------
(***************************************************************************)
(* Proofs about the template versions, the drafts and the graphs of        *)
(* DeliverySystem, for every number of savers, edits, drafts and shared    *)
(* tasks, and every graph.                                                 *)
(***************************************************************************)
EXTENDS DeliverySystem, FiniteSetTheorems, WellFoundedInduction, TLAPS

\* A behaviour stays with its component.
LEMMA PartStays == [Next]_vars => part' = part
BY DEF Next, vars

\* A set of natural numbers has a least element, ...
LEMMA Least ==
    ASSUME NEW T \in SUBSET Nat, T # {}
    PROVE  \E n \in T : \A m \in T : n <= m
<1> DEFINE R == OpToRel(<, Nat)
<1>1. IsWellFoundedOn(R, Nat)
  BY NatLessThanWellFounded
<1> HIDE DEF R
<1>2. PICK x \in T : \A y \in T : ~(<<y, x>> \in R)
  BY <1>1, WFMin
<1>3. \A y \in T : y < x => <<y, x>> \in R
  BY DEF R, OpToRel
<1>4. ASSUME NEW y \in T PROVE x <= y
  <2>1. x \in Nat /\ y \in Nat
    BY <1>2
  <2>2. ~(y < x)
    BY <1>2, <1>3
  <2> QED BY <2>1, <2>2
<1> QED BY <1>2, <1>4

\* ... and a greatest one when it is bounded.
LEMMA MaxFound ==
    ASSUME NEW S \in SUBSET Nat, S # {}, NEW N \in Nat, \A x \in S : x <= N
    PROVE  Versions!Max(S) \in S /\ \A x \in S : x <= Versions!Max(S)
<1> DEFINE T == {n \in Nat : \A x \in S : x <= n}
<1>2. PICK n \in T : \A m \in T : n <= m
  <2>1. T # {} /\ T \in SUBSET Nat
    OBVIOUS
  <2> HIDE DEF T
  <2> QED BY <2>1, Least
<1>3. n \in S
  <2> SUFFICES ASSUME n \notin S PROVE FALSE
    OBVIOUS
  <2>1. \A x \in S : x < n
    BY <1>2
  <2>2. PICK y \in S : TRUE
    OBVIOUS
  <2>3. n - 1 \in T
    BY <2>1, <2>2
  <2> QED BY <1>2, <2>3
<1>4. \E x \in S : \A y \in S : x >= y
  BY <1>2, <1>3
<1> QED BY <1>4 DEF Versions!Max

-----------------------------------------------------------------------------
RowShape == [there : BOOLEAN, graph : Graph \cup {Versions!Empty},
             expr : Expr \cup {Versions!Blank, Versions!BadExpr},
             on : BOOLEAN, bound : Nat]
EntryShape ==
    [id : Nat, on : BOOLEAN,
     expr : Expr \cup {Versions!Blank, Versions!BadExpr}]
SaveFields ==
    [pc : {"idle", "row", "number", "unmark", "insert", "cron", "entry",
           "bind"},
     copy : RowShape, number : Nat, found : EntryShape,
     alone : BOOLEAN, snapshot : BOOLEAN]
SaveShape ==
    {r \in SaveFields : r.pc \in {"number", "unmark", "insert"} =>
                            r.copy.graph \in Graph}
VersionShape == [number : Nat, graph : Graph, current : BOOLEAN]

VersionShapes ==
    /\ template \in RowShape /\ versions \in SUBSET VersionShape
    /\ entry \in EntryShape /\ nextId \in Nat
    /\ save \in [Handler -> SaveShape]
    /\ revived \in BOOLEAN /\ settled \in BOOLEAN
    /\ \E N \in Nat : \A v \in versions : v.number <= N

\* The numbers of the versions have no gaps, ...
NumbersCounted ==
    /\ ~template.there => versions = {}
    /\ \A v, w \in versions : v.number = w.number => v = w
    /\ \A v \in versions : \A n \in 1..v.number : n \in Versions!Numbers
    /\ \A v \in versions : v.number >= 1
    /\ \A v \in versions :
          v.current => \A w \in versions : w.number <= v.number
\* ... a save that has its number has counted all that are not newer, and one
\* that is about to insert has removed the marks of all that are older.
AheadOf(h) ==
    /\ save[h].pc # "idle" => save[h].copy.there
    /\ save[h].pc \in {"unmark", "insert"} =>
          /\ save[h].number >= 1
          /\ template.there =>
                 \A n \in 1..(save[h].number - 1) : n \in Versions!Numbers
    /\ save[h].pc = "insert" =>
          \A v \in versions : v.number < save[h].number => ~v.current
VersionsCounted == ~revived => NumbersCounted /\ \A h \in Handler : AheadOf(h)

CronWanted(copy) == copy.on /\ copy.expr \in Expr

\* What a save that is alone has done so far.
SaveDone(h) ==
    LET copy == save[h].copy
    IN  /\ save[h].pc \in {"row", "number", "unmark", "insert"} =>
              ~save[h].snapshot
        /\ save[h].pc # "row" /\ template.there => template = copy
        /\ save[h].snapshot /\ template.there /\ ~revived =>
              \E v \in versions : v.current /\ v.graph = copy.graph
        /\ save[h].pc = "entry" /\ CronWanted(copy) => save[h].found = entry
        /\ save[h].pc = "bind" /\ CronWanted(copy) =>
              entry.on /\ entry.expr = copy.expr
AloneDone ==
    \A h \in Handler :
        save[h].pc # "idle" /\ save[h].alone =>
            /\ \A g \in Handler \ {h} : save[g].pc = "idle"
            /\ SaveDone(h)
SettledRests == settled => \A h \in Handler : save[h].pc \in {"idle", "row"}

VersionsInv ==
    /\ VersionShapes /\ VersionsCounted /\ AloneDone /\ SettledRests
    /\ Versions!OneCurrent /\ Versions!CronFollows

-----------------------------------------------------------------------------
(* Steps. *)

\* Every statement keeps the types.
LEMMA VersionShapesStep == ASSUME VersionShapes, [Versions!Next]_versionVars
                           PROVE  VersionShapes'
<1> USE DEF VersionShapes
<1>0. /\ Versions!NoEntry \in EntryShape /\ Versions!NoRow \in RowShape
      /\ \A h \in Handler : save[h] \in SaveShape
  BY DEF Versions!NoEntry, Versions!NoRow, Versions!NoId, EntryShape, RowShape
<1>i. Versions!Idle \in SaveShape
  BY <1>0 DEF Versions!Idle, SaveShape, SaveFields
<1>a. ASSUME NEW h \in Handler, Versions!End(h)
      PROVE  save' \in [Handler -> SaveShape]
  BY <1>a, <1>i DEF Versions!End
<1>b. ASSUME NEW h \in Handler,
             NEW pc \in {"number", "cron", "insert", "bind"},
             Versions!Goto(h, pc),
             pc \in {"number", "insert"} => save[h].copy.graph \in Graph
      PROVE  save' \in [Handler -> SaveShape]
  <2>1. save[h] \in SaveFields
    BY <1>0 DEF SaveShape
  <2>2. [save[h] EXCEPT !.pc = pc] \in SaveShape
    BY <1>b, <2>1 DEF SaveShape, SaveFields
  <2> QED BY <1>b, <2>2 DEF Versions!Goto
<1>c. ASSUME NEW h \in Handler, Versions!Finish(h)
      PROVE  save' \in [Handler -> SaveShape] /\ settled' \in BOOLEAN
  <2>1. settled' \in BOOLEAN
    BY <1>c, <1>0 DEF Versions!Finish, SaveShape, SaveFields
  <2> QED BY <1>c, <1>a, <2>1 DEF Versions!Finish
<1>d. ASSUME NEW h \in Handler, NEW copy \in RowShape, Versions!Load(h, copy)
      PROVE  VersionShapes'
  <2>1. [Versions!Idle EXCEPT !.pc = "row", !.copy = copy,
            !.alone = (Versions!Busy = {})]
           \in SaveShape
    BY <1>i DEF SaveShape, SaveFields, Versions!Idle
  <2>2. \A g \in Handler : [save[g] EXCEPT !.alone = FALSE] \in SaveShape
    <3> TAKE g \in Handler
    <3>1. save[g] \in SaveShape
      BY <1>0
    <3> QED BY <3>1 DEF SaveShape, SaveFields
  <2> QED BY <1>d, <2>1, <2>2 DEF Versions!Load
<1>1. ASSUME NEW h \in Handler, Versions!Update(h) PROVE VersionShapes'
  <2>1. PICK edit \in Edits :
           Versions!Load(h,
               [template EXCEPT !.graph = edit.graph, !.expr = edit.expr,
                               !.on = edit.on])
    BY <1>1 DEF Versions!Update
  <2>2. [template EXCEPT !.graph = edit.graph, !.expr = edit.expr,
                    !.on = edit.on] \in RowShape
    BY EditTypes DEF RowShape
  <2> QED BY <2>1, <2>2, <1>d
<1>2. ASSUME NEW h \in Handler, Versions!Rollback(h) PROVE VersionShapes'
  <2>1. PICK v \in versions :
            Versions!Load(h, [template EXCEPT !.graph = v.graph])
    BY <1>2 DEF Versions!Rollback
  <2>2. v.graph \in Graph
    BY DEF VersionShape
  <2>3. [template EXCEPT !.graph = v.graph] \in RowShape
    BY <2>2 DEF RowShape
  <2> QED BY <2>1, <2>3, <1>d
<1>3. ASSUME NEW h \in Handler, Versions!SaveRow(h) PROVE VersionShapes'
  <2>1. save[h].copy \in RowShape
    BY <1>0 DEF SaveShape, SaveFields
  <2>2. template' \in RowShape /\ revived' \in BOOLEAN /\ settled' \in BOOLEAN
    BY <1>3, <2>1 DEF Versions!SaveRow, RowShape
  <2>3. save[h].copy.graph # Versions!Empty => save[h].copy.graph \in Graph
    BY <2>1 DEF RowShape
  <2>4. save' \in [Handler -> SaveShape]
    BY <1>3, <1>b, <2>3 DEF Versions!SaveRow
  <2> QED BY <1>3, <2>2, <2>4 DEF Versions!SaveRow
<1>4. ASSUME NEW h \in Handler, Versions!SnapshotNumber(h) PROVE VersionShapes'
  <2>0. \A v \in versions : v.number \in Nat
    BY DEF VersionShape
  <2>1. /\ Versions!Numbers \cup {0} \in SUBSET Nat
        /\ \E N \in Nat : \A n \in Versions!Numbers \cup {0} : n <= N
    BY <2>0 DEF Versions!Numbers
  <2>2. Versions!Max(Versions!Numbers \cup {0}) \in Nat
    <3>1. PICK N \in Nat : \A n \in Versions!Numbers \cup {0} : n <= N
      BY <2>1
    <3>2. Versions!Max(Versions!Numbers \cup {0}) \in Versions!Numbers \cup {0}
      BY <2>1, <3>1, MaxFound
    <3> QED BY <2>1, <3>2
  <2>3. save[h] \in SaveFields /\ save[h].copy.graph \in Graph
    BY <1>4, <1>0 DEF Versions!SnapshotNumber, SaveShape
  <2>4. \A m \in Nat : [save[h] EXCEPT !.pc = "unmark", !.number = m]
                         \in SaveShape
    BY <2>3 DEF SaveShape, SaveFields
  <2>5. Versions!Max(Versions!Numbers \cup {0}) + 1 \in Nat
    BY <2>2
  <2> QED BY <1>4, <2>4, <2>5 DEF Versions!SnapshotNumber
<1>5. ASSUME NEW h \in Handler, Versions!SnapshotUnmark(h) PROVE VersionShapes'
  <2>0. \A v \in versions : /\ [v EXCEPT !.current = FALSE] \in VersionShape
                            /\ [v EXCEPT !.current = FALSE].number = v.number
    BY DEF VersionShape
  <2>1. /\ versions' \in SUBSET VersionShape
        /\ \E N \in Nat : \A v \in versions' : v.number <= N
    BY <1>5, <2>0 DEF Versions!SnapshotUnmark
  <2>2. save[h].copy.graph \in Graph
    BY <1>5, <1>0 DEF Versions!SnapshotUnmark, SaveShape
  <2> QED BY <1>5, <1>b, <2>1, <2>2 DEF Versions!SnapshotUnmark
<1>6. ASSUME NEW h \in Handler, Versions!SnapshotInsert(h) PROVE VersionShapes'
  <2>0. /\ save[h] \in SaveFields /\ save[h].copy.graph \in Graph
        /\ save[h].number \in Nat
    BY <1>6, <1>0 DEF Versions!SnapshotInsert, SaveShape, SaveFields
  <2>1. CASE UNCHANGED versions /\ Versions!End(h)
    BY <1>6, <1>a, <2>1 DEF Versions!SnapshotInsert
  <2>2. CASE /\ versions' = versions \cup
                   {[number |-> save[h].number, graph |-> save[h].copy.graph,
                     current |-> TRUE]}
             /\ save' = [save EXCEPT ![h].pc = "cron", ![h].snapshot = TRUE]
    <3>1. [number |-> save[h].number, graph |-> save[h].copy.graph,
           current |-> TRUE] \in VersionShape
      BY <2>0 DEF VersionShape
    <3>2. \E N \in Nat : \A v \in versions' : v.number <= N
      <4>1. PICK N \in Nat : \A v \in versions : v.number <= N
        OBVIOUS
      <4>2. \A v \in versions : v.number \in Nat
        BY DEF VersionShape
      <4>3. ASSUME NEW v \in versions'
            PROVE  v.number <= N + save[h].number
        <5>1. CASE v \in versions
          BY <5>1, <2>0, <4>1, <4>2
        <5>2. CASE v = [number |-> save[h].number,
                        graph |-> save[h].copy.graph, current |-> TRUE]
          BY <5>2, <2>0
        <5> QED BY <2>2, <5>1, <5>2
      <4> QED BY <2>0, <4>3
    <3>3. [save[h] EXCEPT !.pc = "cron", !.snapshot = TRUE] \in SaveShape
      BY <2>0 DEF SaveShape, SaveFields
    <3>4. save' \in [Handler -> SaveShape]
      BY <2>2, <3>3
    <3> QED BY <1>6, <2>2, <3>1, <3>2, <3>4 DEF Versions!SnapshotInsert
  <2> QED BY <1>6, <2>1, <2>2 DEF Versions!SnapshotInsert
<1>7. ASSUME NEW h \in Handler, Versions!CronFind(h) PROVE VersionShapes'
  <2>1. PICK e \in {entry, Versions!NoEntry} :
           \/ save' = [save EXCEPT ![h].pc = "entry", ![h].found = e]
              /\ UNCHANGED settled
           \/ Versions!Finish(h)
    BY <1>7 DEF Versions!CronFind
  <2>2. [save[h] EXCEPT !.pc = "entry", !.found = e] \in SaveShape
    BY <1>0 DEF SaveShape, SaveFields
  <2>3. save' \in [Handler -> SaveShape] /\ settled' \in BOOLEAN
    BY <2>1, <2>2, <1>c
  <2> QED BY <1>7, <2>3 DEF Versions!CronFind
<1>8. ASSUME NEW h \in Handler, Versions!CronSave(h) PROVE VersionShapes'
  <2>0. save[h].found \in EntryShape /\ save[h].copy \in RowShape
    BY <1>0 DEF SaveShape, SaveFields
  <2>1. entry' \in EntryShape
    <3>1. /\ [save[h].found EXCEPT !.on = TRUE, !.expr = save[h].copy.expr]
                \in EntryShape
          /\ [save[h].found EXCEPT !.on = FALSE] \in EntryShape
      BY <2>0 DEF EntryShape, RowShape
    <3> QED BY <1>8, <3>1 DEF Versions!CronSave
  <2>2. save' \in [Handler -> SaveShape] /\ settled' \in BOOLEAN
    <3>1. Versions!Finish(h) \/ (Versions!Goto(h, "bind") /\ UNCHANGED settled)
      BY <1>8 DEF Versions!CronSave
    <3>2. CASE Versions!Goto(h, "bind") /\ UNCHANGED settled
      BY <3>2, <1>b
    <3> QED BY <3>1, <3>2, <1>c
  <2> QED BY <1>8, <2>1, <2>2 DEF Versions!CronSave
<1>9. ASSUME NEW h \in Handler, Versions!CronCreate(h) PROVE VersionShapes'
  <2>1. CASE Versions!Finish(h) /\ UNCHANGED <<entry, nextId>>
    BY <1>9, <1>c, <2>1 DEF Versions!CronCreate
  <2>2. CASE /\ entry' = [id |-> nextId, on |-> TRUE,
                          expr |-> save[h].copy.expr]
             /\ UNCHANGED settled /\ nextId' = nextId + 1
             /\ save' = [save EXCEPT ![h].pc = "bind", ![h].found = entry']
    <3>0. save[h] \in SaveFields /\ save[h].copy \in RowShape
      BY <1>0 DEF SaveShape, SaveFields
    <3>1. entry' \in EntryShape
      BY <2>2, <3>0 DEF EntryShape, RowShape
    <3>2. [save[h] EXCEPT !.pc = "bind", !.found = entry'] \in SaveShape
      BY <3>0, <3>1 DEF SaveShape, SaveFields
    <3> QED BY <1>9, <2>2, <3>1, <3>2 DEF Versions!CronCreate
  <2> QED BY <1>9, <2>1, <2>2 DEF Versions!CronCreate
<1>10. ASSUME NEW h \in Handler, Versions!CronDelete(h) PROVE VersionShapes'
  <2>1. [save[h] EXCEPT !.pc = "bind",
            !.found = Versions!NoEntry] \in SaveShape
    BY <1>0 DEF SaveShape, SaveFields
  <2> QED BY <1>10, <1>0, <2>1 DEF Versions!CronDelete
<1>11. ASSUME NEW h \in Handler, Versions!CronBind(h) PROVE VersionShapes'
  <2>0. save[h].found.id \in Nat
    BY <1>0 DEF SaveShape, SaveFields, EntryShape
  <2>1. template' \in RowShape
    BY <1>11, <2>0 DEF Versions!CronBind, RowShape
  <2> QED BY <1>11, <1>c, <2>1 DEF Versions!CronBind
<1>12. ASSUME NEW h \in Handler, Versions!SaveDies(h) PROVE VersionShapes'
  BY <1>12, <1>a DEF Versions!SaveDies
<1>13. ASSUME Versions!Destroy PROVE VersionShapes'
  BY <1>13, <1>0 DEF Versions!Destroy
<1>14. ASSUME UNCHANGED versionVars PROVE VersionShapes'
  BY <1>14 DEF versionVars
<1> QED
  BY <1>1, <1>2, <1>3, <1>4, <1>5, <1>6, <1>7, <1>8, <1>9, <1>10, <1>11, <1>12,
     <1>13, <1>14 DEF Versions!Next

-----------------------------------------------------------------------------
\* The statements of a save, after it has read the row.
SaveStatement(h) ==
    \/ Versions!SaveRow(h) \/ Versions!SnapshotNumber(h)
           \/ Versions!SnapshotUnmark(h)
    \/ Versions!SnapshotInsert(h) \/ Versions!CronFind(h)
           \/ Versions!CronSave(h) \/ Versions!CronCreate(h)
    \/ Versions!CronDelete(h) \/ Versions!CronBind(h) \/ Versions!SaveDies(h)

\* A statement moves no other save, and its own keeps what it read or ends.
LEMMA StatementOfOne ==
    ASSUME VersionShapes, NEW h \in Handler, SaveStatement(h)
    PROVE  /\ save[h].pc # "idle"
           /\ \A g \in Handler \ {h} : save'[g] = save[g]
           /\ \/ save'[h] = Versions!Idle
              \/ /\ save'[h].copy = save[h].copy
                 /\ save'[h].alone = save[h].alone
<1> DEFINE r == save[h]
<1>1. /\ save \in [Handler -> SaveShape]
      /\ r \in SaveFields
  BY DEF VersionShapes, SaveShape
<1>2. CASE Versions!End(h)
  <2>1. save'[h] = Versions!Idle /\ \A g \in Handler \ {h} : save'[g] = save[g]
    BY <1>1, <1>2 DEF Versions!End
  <2> QED BY <2>1 DEF SaveStatement, Versions!SaveRow, Versions!SnapshotNumber,
             Versions!SnapshotUnmark, Versions!SnapshotInsert,
             Versions!CronFind, Versions!CronSave, Versions!CronCreate,
             Versions!CronDelete, Versions!CronBind, Versions!SaveDies
<1>3. CASE ~Versions!End(h)
  <2>1. ASSUME NEW pc, Versions!Goto(h, pc)
        PROVE  /\ save'[h].copy = r.copy /\ save'[h].alone = r.alone
               /\ \A g \in Handler \ {h} : save'[g] = save[g]
    BY <1>1, <2>1 DEF Versions!Goto, SaveFields
  <2>2. CASE Versions!SaveRow(h) \/ Versions!SnapshotUnmark(h)
            \/ Versions!CronSave(h)
    BY <1>3, <2>1, <2>2 DEF Versions!SaveRow, Versions!SnapshotUnmark,
       Versions!CronSave, Versions!Finish
  <2>3. CASE Versions!SnapshotNumber(h)
    BY <1>1, <2>3 DEF Versions!SnapshotNumber, SaveFields
  <2>4. CASE Versions!SnapshotInsert(h)
    BY <1>1, <1>3, <2>4 DEF Versions!SnapshotInsert, SaveFields
  <2>5. CASE Versions!CronFind(h)
    <3>1. \E e \in {entry, Versions!NoEntry} :
             save' = [save EXCEPT ![h].pc = "entry", ![h].found = e]
      BY <1>3, <2>5 DEF Versions!CronFind, Versions!Finish
    <3> QED BY <1>1, <2>5, <3>1 DEF Versions!CronFind, SaveFields
  <2>6. CASE Versions!CronCreate(h)
    BY <1>1, <1>3, <2>6 DEF Versions!CronCreate, Versions!Finish, SaveFields
  <2>7. CASE Versions!CronDelete(h)
    BY <1>1, <2>7 DEF Versions!CronDelete, SaveFields
  <2>8. CASE Versions!CronBind(h) \/ Versions!SaveDies(h)
    BY <1>3, <2>8 DEF Versions!CronBind, Versions!SaveDies, Versions!Finish
  <2> QED BY <2>2, <2>3, <2>4, <2>5, <2>6, <2>7, <2>8 DEF SaveStatement
<1> QED BY <1>2, <1>3

\* A step that leaves the versions alone, and counts in no save, changes
\* nothing that the numbers rest on.
LEMMA CountedKept ==
    ASSUME VersionsCounted, versions' = versions,
           revived' \/ (~revived /\ template'.there = template.there),
           \A g \in Handler :
              \/ /\ save'[g].pc = save[g].pc
                 /\ save'[g].number = save[g].number
                 /\ save'[g].copy = save[g].copy
              \/ /\ save'[g].pc \notin {"unmark", "insert"}
                 /\ save'[g].pc # "idle" => save'[g].copy.there
    PROVE  VersionsCounted'
<1> SUFFICES ASSUME ~revived'
             PROVE  NumbersCounted' /\ \A g \in Handler : AheadOf(g)'
  BY DEF VersionsCounted
<1>1. NumbersCounted /\ (\A g \in Handler : AheadOf(g))
          /\ template'.there = template.there
  BY DEF VersionsCounted
<1>2. Versions!Numbers' = Versions!Numbers
  BY DEF Versions!Numbers
<1>3. NumbersCounted'
  BY <1>1, <1>2 DEF NumbersCounted
<1>4. ASSUME NEW g \in Handler PROVE AheadOf(g)'
  BY <1>1, <1>2 DEF AheadOf
<1> QED BY <1>3, <1>4

\* The numbers of the versions stay without gaps, and the latest is current.
LEMMA VersionsCountedStep ==
    ASSUME VersionShapes, VersionShapes', VersionsCounted,
           [Versions!Next]_versionVars
    PROVE  VersionsCounted'
<1>0. /\ save \in [Handler -> SaveShape] /\ save' \in [Handler -> SaveShape]
      /\ \A v \in versions : v.number \in Nat
      /\ \A h \in Handler : save[h].number \in Nat
  BY DEF VersionShapes, SaveShape, SaveFields, VersionShape
<1>1. ASSUME NEW h \in Handler,
             NEW copy, Versions!Load(h, copy), copy.there = template.there
      PROVE  VersionsCounted'
  <2>0. Versions!Idle \in SaveFields
    BY DEF Versions!Idle, Versions!NoRow, Versions!NoEntry, Versions!NoId,
       SaveFields, RowShape, EntryShape
  <2>1. \A a \in BOOLEAN :
           /\ [Versions!Idle EXCEPT !.pc = "row", !.copy = copy,
                  !.alone = a].pc = "row"
           /\ [Versions!Idle EXCEPT !.pc = "row", !.copy = copy,
                  !.alone = a].copy = copy
    BY <2>0 DEF SaveFields
  <2>2. \A g \in Handler : save[g] \in SaveFields
    BY <1>0 DEF SaveShape
  <2>3. /\ save'[h].pc = "row" /\ save'[h].copy = copy
        /\ \A g \in Handler \ {h} : /\ save'[g].pc = save[g].pc
                                    /\ save'[g].number = save[g].number
                                    /\ save'[g].copy = save[g].copy
    BY <1>0, <1>1, <2>1, <2>2 DEF Versions!Load, SaveFields
  <2>4. template.there
    BY <1>1 DEF Versions!Load
  <2> QED BY <1>1, <2>3, <2>4, CountedKept DEF Versions!Load, VersionsCounted
<1>2. ASSUME NEW h \in Handler, Versions!Update(h) PROVE VersionsCounted'
  <2>1. PICK edit \in Edits :
           Versions!Load(h,
               [template EXCEPT !.graph = edit.graph, !.expr = edit.expr,
                               !.on = edit.on])
    BY <1>2 DEF Versions!Update
  <2> QED BY <1>1, <2>1 DEF VersionShapes, RowShape
<1>3. ASSUME NEW h \in Handler, Versions!Rollback(h) PROVE VersionsCounted'
  <2>1. PICK v \in versions :
            Versions!Load(h, [template EXCEPT !.graph = v.graph])
    BY <1>3 DEF Versions!Rollback
  <2> QED BY <1>1, <2>1 DEF VersionShapes, RowShape
<1>4. ASSUME NEW h \in Handler, SaveStatement(h),
             ~(Versions!SnapshotNumber(h) \/ Versions!SnapshotUnmark(h)
                 \/ Versions!SnapshotInsert(h))
      PROVE  VersionsCounted'
  <2>1. /\ \A g \in Handler \ {h} : save'[g] = save[g]
        /\ save'[h].pc # "idle" => save'[h].copy = save[h].copy
        /\ save[h].pc # "idle"
    BY <1>4, StatementOfOne DEF Versions!Idle
  <2>2. versions' = versions /\ save'[h].pc \notin {"unmark", "insert"}
    BY <1>0, <1>4 DEF SaveStatement, Versions!SaveRow, Versions!CronFind,
       Versions!CronSave, Versions!CronCreate, Versions!CronDelete,
       Versions!CronBind, Versions!SaveDies, Versions!Goto, Versions!Finish,
       Versions!End, Versions!Idle, SaveShape, SaveFields
  <2>3. revived'
            \/ (~revived
                   /\ (save[h].copy.there => template'.there = template.there))
    BY <1>4 DEF SaveStatement, Versions!SaveRow, Versions!CronFind,
       Versions!CronSave, Versions!CronCreate, Versions!CronDelete,
       Versions!CronBind, Versions!SaveDies, VersionShapes, RowShape
  <2> QED BY <2>1, <2>2, <2>3, CountedKept DEF VersionsCounted, AheadOf
<1>5. ASSUME NEW h \in Handler, Versions!SnapshotNumber(h)
      PROVE VersionsCounted'
  <2> DEFINE m == Versions!Max(Versions!Numbers \cup {0})
  <2> SUFFICES ASSUME ~revived'
               PROVE  NumbersCounted' /\ \A g \in Handler : AheadOf(g)'
    BY DEF VersionsCounted
  <2>1. NumbersCounted /\ (\A g \in Handler : AheadOf(g))
            /\ UNCHANGED <<template, versions>>
    BY <1>5 DEF VersionsCounted, Versions!SnapshotNumber
  <2>2. Versions!Numbers' = Versions!Numbers /\ NumbersCounted'
    BY <2>1 DEF NumbersCounted, Versions!Numbers
  <2>3. /\ Versions!Numbers \cup {0} \in SUBSET Nat
        /\ \E N \in Nat : \A n \in Versions!Numbers \cup {0} : n <= N
    BY <1>0 DEF Versions!Numbers, VersionShapes
  <2>4. m \in Versions!Numbers \cup {0}
    <3>1. PICK N \in Nat : \A n \in Versions!Numbers \cup {0} : n <= N
      BY <2>3
    <3> QED BY <2>3, <3>1, MaxFound
  <2>5. \A n \in 1..m : n \in Versions!Numbers
    BY <1>0, <2>1, <2>4 DEF NumbersCounted, Versions!Numbers
  <2>6. /\ save'[h].number = m + 1 /\ save'[h].pc = "unmark"
        /\ save'[h].copy = save[h].copy
        /\ \A g \in Handler \ {h} : save'[g] = save[g]
    BY <1>0, <1>5 DEF Versions!SnapshotNumber, SaveShape, SaveFields
  <2> HIDE DEF m
  <2>7. AheadOf(h)'
    <3>1. save[h].copy.there
      BY <1>5, <2>1 DEF AheadOf, Versions!SnapshotNumber
    <3>2. m \in Nat /\ m + 1 - 1 = m /\ m + 1 >= 1
      BY <2>3, <2>4
    <3> QED BY <2>2, <2>5, <2>6, <3>1, <3>2 DEF AheadOf
  <2>8. ASSUME NEW g \in Handler \ {h} PROVE AheadOf(g)'
    BY <2>1, <2>2, <2>6, <2>8 DEF AheadOf
  <2> QED BY <2>2, <2>7, <2>8
<1>6. ASSUME NEW h \in Handler, Versions!SnapshotUnmark(h)
      PROVE VersionsCounted'
  <2> SUFFICES ASSUME ~revived'
               PROVE  NumbersCounted' /\ \A g \in Handler : AheadOf(g)'
    BY DEF VersionsCounted
  <2>1. NumbersCounted /\ (\A g \in Handler : AheadOf(g))
            /\ template' = template
    BY <1>6 DEF VersionsCounted, Versions!SnapshotUnmark
  <2>2. versions' = {[v EXCEPT !.current = FALSE] : v \in versions}
    BY <1>6 DEF Versions!SnapshotUnmark
  <2>3. \A v \in versions : /\ [v EXCEPT !.current = FALSE].number = v.number
                            /\ [v EXCEPT !.current = FALSE].current = FALSE
    BY DEF VersionShapes, VersionShape
  <2>4. Versions!Numbers' = Versions!Numbers
    <3>1. {w.number : w \in versions'} = {v.number : v \in versions}
      <4>1. \A w \in versions' : \E v \in versions : w.number = v.number
        BY <2>2, <2>3
      <4>2. \A v \in versions : \E w \in versions' : w.number = v.number
        BY <2>2, <2>3
      <4> QED BY <4>1, <4>2
    <3> QED BY <3>1 DEF Versions!Numbers
  <2>5. NumbersCounted'
    <3>1. \A w \in versions' : /\ ~w.current
                               /\ \E v \in versions : w.number = v.number
      BY <2>2, <2>3
    <3>2. \A w, u \in versions' : w.number = u.number => w = u
      <4> TAKE w, u \in versions'
      <4>1. PICK v \in versions : w = [v EXCEPT !.current = FALSE]
        BY <2>2
      <4>2. PICK x \in versions : u = [x EXCEPT !.current = FALSE]
        BY <2>2
      <4> QED BY <2>1, <2>3, <4>1, <4>2 DEF NumbersCounted
    <3>3. ~template'.there => versions' = {}
      BY <2>1, <2>2 DEF NumbersCounted
    <3>4. \A w \in versions' : /\ w.number >= 1
                               /\ \A n \in 1..w.number :
                                      n \in Versions!Numbers'
      BY <2>1, <2>4, <3>1 DEF NumbersCounted
    <3> QED BY <3>1, <3>2, <3>3, <3>4 DEF NumbersCounted
  <2>6. \A g \in Handler : /\ save'[g].number = save[g].number
                           /\ save'[g].copy = save[g].copy
                           /\ \/ save'[g].pc = save[g].pc
                              \/ save[g].pc = "unmark"
    BY <1>0, <1>6 DEF Versions!SnapshotUnmark, Versions!Goto, SaveShape,
       SaveFields
  <2>7. ASSUME NEW g \in Handler PROVE AheadOf(g)'
    BY <2>1, <2>2, <2>3, <2>4, <2>6 DEF AheadOf
  <2> QED BY <2>5, <2>7
<1>7. ASSUME NEW h \in Handler, Versions!SnapshotInsert(h)
      PROVE VersionsCounted'
  <2> DEFINE n == save[h].number
             v == [number |-> n, graph |-> save[h].copy.graph,
                 current |-> TRUE]
  <2>1. CASE Versions!End(h) /\ UNCHANGED <<template, versions, revived>>
    <3>1. \A g \in Handler : \/ save'[g] = save[g]
                             \/ save'[g].pc = "idle"
      BY <1>0, <2>1 DEF Versions!End, Versions!Idle
    <3> QED BY <2>1, <3>1, CountedKept DEF VersionsCounted
  <2>2. CASE /\ template.there /\ n \notin Versions!Numbers
            /\ versions' = versions \cup {v}
             /\ save' = [save EXCEPT ![h].pc = "cron", ![h].snapshot = TRUE]
             /\ UNCHANGED <<template, revived>>
    <3> SUFFICES ASSUME ~revived'
                 PROVE  NumbersCounted' /\ \A g \in Handler : AheadOf(g)'
      BY DEF VersionsCounted
    <3>1. NumbersCounted /\ (\A g \in Handler : AheadOf(g))
              /\ template' = template
      BY <2>2 DEF VersionsCounted
    <3>2. Versions!Numbers' = Versions!Numbers \cup {n}
      <4>1. v.number = n
        OBVIOUS
      <4> HIDE DEF n, v
      <4> QED BY <2>2, <4>1 DEF Versions!Numbers
    <3>3. /\ n \in Nat /\ n >= 1
          /\ \A i \in 1..(n - 1) : i \in Versions!Numbers
          /\ \A w \in versions : w.number < n => ~w.current
      BY <1>0, <1>7, <2>2, <3>1 DEF AheadOf, Versions!SnapshotInsert
    <3>4. \A w \in versions : w.number < n /\ ~w.current
      <4> TAKE w \in versions
      <4>1. w.number \in Nat /\ w.number >= 1 /\ ~(n \in 1..w.number)
        BY <1>0, <2>2, <3>1 DEF NumbersCounted
      <4> QED BY <3>3, <4>1
    <3>5. NumbersCounted'
      <4> HIDE DEF n
      <4>1. v.number = n /\ v.current
        OBVIOUS
      <4>2. \A i \in 1..n : i \in Versions!Numbers'
        BY <3>2, <3>3
      <4> HIDE DEF v
      <4>3. \A w \in versions' : w \in versions \/ w = v
        BY <2>2
      <4>4. \A w, u \in versions' : w.number = u.number => w = u
        BY <1>0, <3>1, <3>3, <3>4, <4>1, <4>3 DEF NumbersCounted
      <4>5. \A w \in versions' : \A i \in 1..w.number : i \in Versions!Numbers'
        BY <3>1, <3>2, <4>1, <4>2, <4>3 DEF NumbersCounted
      <4>6. \A w \in versions' : w.number >= 1 /\ w.number <= n
        BY <1>0, <3>1, <3>3, <3>4, <4>1, <4>3 DEF NumbersCounted
      <4>7. \A w \in versions' : w.current => w = v
        BY <3>4, <4>3
      <4> QED BY <2>2, <4>1, <4>4, <4>5, <4>6, <4>7 DEF NumbersCounted
    <3>6. ASSUME NEW g \in Handler PROVE AheadOf(g)'
      <4>1. CASE g = h
        <5>1. save'[g].pc = "cron" /\ save'[g].copy = save[g].copy
          BY <1>0, <2>2, <4>1 DEF SaveShape, SaveFields
        <5> QED BY <1>7, <3>1, <4>1, <5>1 DEF AheadOf, Versions!SnapshotInsert
      <4>2. CASE g # h
        <5>1. save'[g] = save[g]
          BY <1>0, <2>2, <4>2
        <5>2. save[g].pc = "insert" => save[g].number <= n
          <6> SUFFICES ASSUME save[g].pc = "insert" PROVE save[g].number <= n
            OBVIOUS
          <6>1. ~(n \in 1..(save[g].number - 1)) /\ save[g].number \in Nat
            BY <1>0, <2>2, <3>1 DEF AheadOf
          <6> QED BY <3>3, <6>1
        <5>3. \A w \in versions' :
                 save[g].pc = "insert" /\ w.number < save[g].number =>
                     ~w.current
          <6> HIDE DEF n
          <6> QED BY <1>0, <2>2, <3>1, <3>3, <5>2 DEF AheadOf
        <5> HIDE DEF n
        <5> QED BY <2>2, <3>1, <3>2, <5>1, <5>3 DEF AheadOf
      <4> QED BY <4>1, <4>2
    <3> QED BY <3>5, <3>6
  <2> QED BY <1>7, <2>1, <2>2 DEF Versions!SnapshotInsert
<1>8. ASSUME Versions!Destroy PROVE VersionsCounted'
  <2>1. ~template'.there /\ versions' = {} /\ save' = save
            /\ revived' = revived
    BY <1>8 DEF Versions!Destroy, Versions!NoRow
  <2> QED BY <2>1 DEF VersionsCounted, NumbersCounted, AheadOf
<1>9. ASSUME UNCHANGED versionVars PROVE VersionsCounted'
  <2>1. Versions!Numbers' = Versions!Numbers
    BY <1>9 DEF versionVars, Versions!Numbers
  <2> QED BY <1>9, <2>1 DEF versionVars, VersionsCounted, NumbersCounted,
             AheadOf
<1> QED BY <1>2, <1>3, <1>4, <1>5, <1>6, <1>7, <1>8, <1>9 DEF Versions!Next,
           SaveStatement

-----------------------------------------------------------------------------
\* A save that is alone does its work on the row it read: each of its
\* statements keeps what the earlier ones have done.
LEMMA SaveDoneStep ==
    ASSUME VersionShapes, VersionsCounted,
           NEW h \in Handler, SaveStatement(h), SaveDone(h),
           save'[h].pc # "idle"
    PROVE  SaveDone(h)'
<1> DEFINE copy == save[h].copy
<1>0. /\ save \in [Handler -> SaveShape] /\ save[h] \in SaveFields
      /\ entry.id \in Nat /\ save[h].found.id \in Nat
  BY DEF VersionShapes, SaveShape, SaveFields, EntryShape
<1>1. ~Versions!End(h) /\ ~Versions!Finish(h)
  <2>1. Versions!End(h) => save'[h] = Versions!Idle
    BY <1>0 DEF Versions!End
  <2> QED BY <2>1 DEF Versions!Finish, Versions!Idle
<1>2. save'[h].copy = copy
  BY StatementOfOne DEF Versions!Idle
<1>g. ASSUME NEW pc, Versions!Goto(h, pc)
      PROVE  /\ save'[h].pc = pc /\ save'[h].snapshot = save[h].snapshot
             /\ save'[h].found = save[h].found
  BY <1>0, <1>g DEF Versions!Goto, SaveFields
<1>3. CASE Versions!SaveRow(h)
  <2>1. /\ template' = copy /\ save'[h].pc \in {"number", "cron"}
        /\ ~save'[h].snapshot
    BY <1>g, <1>3 DEF Versions!SaveRow, SaveDone
  <2> QED BY <1>2, <2>1 DEF SaveDone
<1>4. CASE Versions!SnapshotNumber(h)
  <2>1. /\ save'[h].pc = "unmark" /\ save'[h].snapshot = save[h].snapshot
        /\ save[h].pc = "number" /\ template' = template
    BY <1>0, <1>4 DEF Versions!SnapshotNumber, SaveFields
  <2> QED BY <1>2, <2>1 DEF SaveDone
<1>5. CASE Versions!SnapshotUnmark(h)
  <2>1. /\ save'[h].pc = "insert" /\ save'[h].snapshot = save[h].snapshot
        /\ save[h].pc = "unmark" /\ template' = template
    BY <1>g, <1>5 DEF Versions!SnapshotUnmark
  <2> QED BY <1>2, <2>1 DEF SaveDone
<1>6. CASE Versions!SnapshotInsert(h)
  <2>1. /\ save'[h].pc = "cron" /\ save[h].pc = "insert"
               /\ template' = template
        /\ [number |-> save[h].number, graph |-> copy.graph, current |-> TRUE]
              \in versions'
    BY <1>0, <1>1, <1>6 DEF Versions!SnapshotInsert, SaveFields
  <2>2. \E v \in versions' : v.current /\ v.graph = copy.graph
    BY <2>1
  <2> QED BY <1>2, <2>1, <2>2 DEF SaveDone
<1>7. CASE Versions!CronFind(h)
  <2>0. PICK e : /\ save' = [save EXCEPT ![h].pc = "entry", ![h].found = e]
                 /\ CronWanted(copy) => e = entry
    BY <1>1, <1>7, ExprNames DEF Versions!CronFind, CronWanted
  <2>1. /\ save'[h].pc = "entry" /\ save'[h].snapshot = save[h].snapshot
        /\ save'[h].found = e /\ save[h].pc = "cron"
    BY <1>0, <1>7, <2>0 DEF Versions!CronFind, SaveFields
  <2>2. UNCHANGED <<template, versions, revived, entry>>
    BY <1>7 DEF Versions!CronFind
  <2> QED BY <1>2, <2>0, <2>1, <2>2 DEF SaveDone
<1>8. CASE Versions!CronSave(h)
  <2>1. /\ save'[h].pc = "bind" /\ save'[h].snapshot = save[h].snapshot
        /\ save[h].pc = "entry"
    BY <1>1, <1>8, <1>g DEF Versions!CronSave
  <2>2. UNCHANGED <<template, versions, revived>>
    BY <1>8 DEF Versions!CronSave
  <2>3. copy.on =>
            entry' = [save[h].found EXCEPT !.on = TRUE, !.expr = copy.expr]
    BY <1>1, <1>8 DEF Versions!CronSave
  <2>4. save[h].found \in EntryShape
    BY <1>0 DEF SaveFields
  <2>6. ASSUME CronWanted(copy) PROVE entry'.on /\ entry'.expr = copy.expr
    <3>1. entry' = [save[h].found EXCEPT !.on = TRUE, !.expr = copy.expr]
      BY <2>3, <2>6 DEF CronWanted
    <3> QED BY <2>4, <3>1 DEF EntryShape
  <2>7. CronWanted(save'[h].copy) =>
            entry'.on /\ entry'.expr = save'[h].copy.expr
    BY <1>2, <2>6
  <2>8. save[h].snapshot /\ template.there /\ ~revived =>
           \E v \in versions' : v.current /\ v.graph = save'[h].copy.graph
    BY <1>2, <2>2 DEF SaveDone
  <2>9. template.there => template = save'[h].copy
    BY <1>2, <2>1 DEF SaveDone
  <2> QED BY <2>1, <2>2, <2>7, <2>8, <2>9 DEF SaveDone
<1>9. CASE Versions!CronCreate(h)
  <2>1. /\ entry' = [id |-> nextId, on |-> TRUE, expr |-> copy.expr]
        /\ save' = [save EXCEPT ![h].pc = "bind", ![h].found = entry']
        /\ UNCHANGED <<template, versions, revived>> /\ save[h].pc = "entry"
    BY <1>1, <1>9 DEF Versions!CronCreate
  <2>2. entry'.on /\ entry'.expr = copy.expr
    BY <2>1
  <2>3. save'[h].pc = "bind" /\ save'[h].snapshot = save[h].snapshot
    BY <1>0, <2>1 DEF SaveFields
  <2> QED BY <1>2, <2>1, <2>2, <2>3 DEF SaveDone
<1>10. CASE Versions!CronDelete(h)
  <2>1. /\ save'[h].pc = "bind" /\ save'[h].snapshot = save[h].snapshot
        /\ UNCHANGED <<template, versions, revived>> /\ save[h].pc = "entry"
        /\ ~CronWanted(copy)
    BY <1>0, <1>10, ExprNames DEF Versions!CronDelete, SaveFields, CronWanted
  <2> QED BY <1>2, <2>1 DEF SaveDone
<1> QED
  BY <1>1, <1>3, <1>4, <1>5, <1>6, <1>7, <1>8, <1>9, <1>10 DEF SaveStatement,
     Versions!CronBind, Versions!SaveDies

\* What a save that is alone leaves behind.
LEMMA AloneEnds ==
    ASSUME VersionShapes,
           NEW h \in Handler, SaveStatement(h), ~settled, settled',
           save[h].alone => SaveDone(h), template'.there
    PROVE  /\ save[h].alone /\ save'[h] = Versions!Idle
           /\ ~revived' =>
                 \E v \in versions' : v.current /\ v.graph = template'.graph
           /\ template'.on /\ template'.expr \in Expr =>
                 entry'.on /\ entry'.expr = template'.expr
<1> DEFINE copy == save[h].copy
<1>0. /\ save \in [Handler -> SaveShape] /\ save[h] \in SaveFields
      /\ template \in RowShape
  BY DEF VersionShapes, SaveShape
<1>1. Versions!Finish(h)
          /\ (Versions!CronFind(h) \/ Versions!CronSave(h)
                 \/ Versions!CronCreate(h) \/ Versions!CronBind(h))
  BY DEF SaveStatement, Versions!SaveRow, Versions!SnapshotNumber,
     Versions!SnapshotUnmark, Versions!SnapshotInsert, Versions!CronFind,
     Versions!CronSave, Versions!CronCreate, Versions!CronDelete,
     Versions!CronBind, Versions!SaveDies
<1>2. /\ save[h].alone /\ save[h].snapshot /\ SaveDone(h)
             /\ save'[h] = Versions!Idle
      /\ save[h].pc \in {"cron", "entry", "bind"}
      /\ UNCHANGED <<versions, revived>>
  BY <1>0, <1>1 DEF Versions!Finish, Versions!End, Versions!CronFind,
     Versions!CronSave, Versions!CronCreate, Versions!CronBind
<1>3. /\ template.there /\ template = copy
      /\ template'.graph = copy.graph /\ template'.on = copy.on
             /\ template'.expr = copy.expr
  <2>1. template' = template
            \/ (\E i : template.there
                   /\ template' = [template EXCEPT !.bound = i])
    BY <1>1 DEF Versions!CronFind, Versions!CronSave, Versions!CronCreate,
       Versions!CronBind
  <2>2. template.there
    BY <1>0, <2>1 DEF RowShape
  <2>3. template = copy
    BY <1>2, <2>2 DEF SaveDone
  <2> QED BY <1>0, <2>1, <2>2, <2>3 DEF RowShape
<1>4. ~revived' => \E v \in versions' : v.current /\ v.graph = template'.graph
  BY <1>2, <1>3 DEF SaveDone
<1>5. ASSUME CronWanted(copy)
      PROVE  entry'.on /\ entry'.expr = copy.expr
  <2>1. copy.expr \notin {Versions!Blank, Versions!BadExpr} /\ copy.on
    BY <1>5, ExprNames DEF CronWanted
  <2>2. ~Versions!CronFind(h)
    BY <1>1, <2>1 DEF Versions!CronFind
  <2>3. ASSUME Versions!CronSave(h) PROVE entry'.on /\ entry'.expr = copy.expr
    <3>1. save[h].found = entry /\ entry \in EntryShape
      BY <1>2, <1>5, <2>3 DEF SaveDone, Versions!CronSave, VersionShapes
    <3>2. entry' = [entry EXCEPT !.on = TRUE, !.expr = copy.expr]
      BY <2>1, <2>3, <3>1 DEF Versions!CronSave
    <3> QED BY <3>1, <3>2 DEF EntryShape
  <2>4. ~Versions!CronCreate(h)
    BY <1>2, <1>5 DEF Versions!CronCreate, SaveDone
  <2>5. ASSUME Versions!CronBind(h) PROVE entry'.on /\ entry'.expr = copy.expr
    BY <1>2, <1>3, <1>5, <2>5 DEF Versions!CronBind, SaveDone
  <2> QED BY <1>1, <2>2, <2>3, <2>4, <2>5
<1>6. template'.on /\ template'.expr \in Expr => CronWanted(copy)
  BY <1>3 DEF CronWanted
<1> QED BY <1>2, <1>3, <1>4, <1>5, <1>6

\* Every step of the requests.
LEMMA VersionsInvStep ==
    ASSUME VersionsInv, [Versions!Next]_versionVars
    PROVE  VersionsInv'
<1> USE DEF VersionsInv
<1>0. VersionShapes' /\ VersionsCounted'
  BY VersionShapesStep, VersionsCountedStep
<1>s. /\ save \in [Handler -> SaveShape]
      /\ \A g \in Handler : save[g] \in SaveFields
  BY DEF VersionShapes, SaveShape
<1>m. ~revived' =>
         \A v \in versions' :
            v.current => \A w \in versions' : w = v \/ w.number < v.number
  <2>1. \A v \in versions' : v.number \in Nat
    BY <1>0 DEF VersionShapes, VersionShape
  <2> QED BY <1>0, <2>1 DEF VersionsCounted, NumbersCounted
<1>1. ASSUME NEW h \in Handler, NEW copy, Versions!Load(h, copy)
      PROVE  VersionsInv'
  <2>1. \A a \in BOOLEAN :
           /\ [Versions!Idle EXCEPT !.pc = "row", !.copy = copy,
                  !.alone = a].pc = "row"
           /\ [Versions!Idle EXCEPT !.pc = "row", !.copy = copy,
                  !.alone = a].alone = a
           /\ ~[Versions!Idle EXCEPT !.pc = "row", !.copy = copy,
                  !.alone = a].snapshot
    <3>1. Versions!Idle \in SaveFields /\ ~Versions!Idle.snapshot
      BY DEF Versions!Idle, Versions!NoRow, Versions!NoEntry, Versions!NoId,
         SaveFields, RowShape, EntryShape
    <3> QED BY <3>1 DEF SaveFields
  <2>2. /\ save'[h].pc = "row" /\ ~save'[h].snapshot
        /\ save'[h].alone = (Versions!Busy = {})
        /\ \A g \in Handler \ {h} : ~save'[g].alone /\ save'[g].pc = save[g].pc
    BY <1>1, <1>s, <2>1 DEF Versions!Load, SaveFields
  <2>3. UNCHANGED <<template, versions, entry, revived, settled>>
    BY <1>1 DEF Versions!Load
  <2>4. AloneDone'
    <3>1. save'[h].alone => \A g \in Handler \ {h} : save'[g].pc = "idle"
      BY <2>2 DEF Versions!Busy
    <3>2. SaveDone(h)'
      BY <2>2 DEF SaveDone
    <3> QED BY <2>2, <3>1, <3>2 DEF AloneDone
  <2>5. SettledRests'
    BY <2>2, <2>3 DEF SettledRests
  <2> QED BY <1>0, <2>3, <2>4, <2>5 DEF Versions!OneCurrent,
             Versions!CronFollows
<1>2. ASSUME NEW h \in Handler, SaveStatement(h)
      PROVE  VersionsInv'
  <2>1. /\ save[h].pc # "idle"
        /\ \A g \in Handler \ {h} : save'[g] = save[g]
        /\ \/ save'[h] = Versions!Idle
           \/ /\ save'[h].copy = save[h].copy
              /\ save'[h].alone = save[h].alone
    BY <1>2, StatementOfOne
  <2>2. save[h].alone =>
            SaveDone(h) /\ \A g \in Handler \ {h} : save[g].pc = "idle"
    BY <2>1 DEF AloneDone
  <2>3. AloneDone'
    <3> SUFFICES ASSUME NEW g \in Handler, save'[g].pc # "idle", save'[g].alone
                 PROVE  /\ \A k \in Handler \ {g} : save'[k].pc = "idle"
                        /\ SaveDone(g)'
      BY DEF AloneDone
    <3>1. g = h /\ save[h].alone
      BY <2>1 DEF AloneDone, Versions!Idle
    <3> QED BY <1>2, <2>1, <2>2, <3>1, SaveDoneStep
  <2>4. ASSUME settled', settled
        PROVE  save'[h].pc = "idle"
            /\ UNCHANGED <<template, versions, entry, revived>>
    <3>1. save[h].pc = "row"
      BY <2>1, <2>4 DEF SettledRests
    <3>2. ~Versions!SaveRow(h)
      BY <2>4 DEF Versions!SaveRow
    <3>3. Versions!SaveDies(h)
      BY <1>2, <3>1, <3>2 DEF SaveStatement, Versions!SnapshotNumber,
         Versions!SnapshotUnmark, Versions!SnapshotInsert, Versions!CronFind,
         Versions!CronSave, Versions!CronCreate, Versions!CronDelete,
         Versions!CronBind
    <3> QED BY <1>s, <3>3 DEF Versions!SaveDies, Versions!End, Versions!Idle
  <2>5. SettledRests'
    <3> SUFFICES ASSUME settled', NEW g \in Handler
                 PROVE  save'[g].pc \in {"idle", "row"}
      BY DEF SettledRests
    <3>1. CASE settled
      BY <2>1, <2>4, <3>1 DEF SettledRests
    <3>2. CASE ~settled
      <4>1. Versions!Finish(h)
        BY <1>2, <3>2 DEF SaveStatement, Versions!SaveRow,
           Versions!SnapshotNumber, Versions!SnapshotUnmark,
           Versions!SnapshotInsert, Versions!CronFind, Versions!CronSave,
           Versions!CronCreate, Versions!CronDelete, Versions!CronBind,
           Versions!SaveDies
      <4>2. save[h].alone /\ save'[h] = Versions!Idle
        BY <1>s, <4>1 DEF Versions!Finish, Versions!End
      <4> QED BY <2>1, <2>2, <4>2 DEF Versions!Idle
    <3> QED BY <3>1, <3>2
  <2>6. CASE settled' /\ ~settled /\ template'.there
    <3>1. /\ ~revived' =>
                \E v \in versions' : v.current /\ v.graph = template'.graph
          /\ template'.on /\ template'.expr \in Expr =>
                entry'.on /\ entry'.expr = template'.expr
      BY <1>2, <2>2, <2>6, AloneEnds
    <3> QED BY <1>0, <1>m, <2>3, <2>5, <3>1 DEF Versions!OneCurrent,
               Versions!CronFollows
  <2>7. CASE ~(settled' /\ ~settled /\ template'.there)
    <3>1. Versions!OneCurrent' /\ Versions!CronFollows'
      BY <1>m, <2>4, <2>7 DEF Versions!OneCurrent, Versions!CronFollows
    <3> QED BY <1>0, <2>3, <2>5, <3>1
  <2> QED BY <2>6, <2>7
<1>3. ASSUME Versions!Destroy PROVE VersionsInv'
  <2>1. ~settled' /\ ~template'.there /\ save' = save /\ versions' = {}
        /\ revived' = revived /\ entry' = entry
    BY <1>3 DEF Versions!Destroy, Versions!NoRow
  <2>2. ASSUME NEW h \in Handler, SaveDone(h) PROVE SaveDone(h)'
    BY <2>1, <2>2 DEF SaveDone
  <2>3. AloneDone'
    BY <2>1, <2>2 DEF AloneDone
  <2> QED BY <1>0, <1>m, <2>1, <2>3 DEF SettledRests, Versions!OneCurrent,
             Versions!CronFollows
<1>4. ASSUME UNCHANGED versionVars PROVE VersionsInv'
  <2>1. \A h \in Handler : SaveDone(h) => SaveDone(h)'
    BY <1>4 DEF versionVars, SaveDone
  <2> QED BY <1>0, <1>4, <2>1 DEF versionVars, AloneDone, SettledRests,
             Versions!OneCurrent, Versions!CronFollows
<1> QED
  BY <1>1, <1>2, <1>3, <1>4 DEF Versions!Next, Versions!Update,
     Versions!Rollback, SaveStatement

\* No version, no beat entry and no save at work.
LEMMA VersionsInit == Versions!Init => VersionsInv
<1> SUFFICES ASSUME Versions!Init PROVE VersionsInv
  OBVIOUS
<1>1. PICK g \in Graph \cup {Versions!Empty} :
         template = [Versions!NoRow EXCEPT !.there = TRUE, !.graph = g]
  BY DEF Versions!Init
<1>2. Versions!NoRow \in RowShape /\ Versions!NoEntry \in EntryShape
          /\ Versions!Idle \in SaveFields
  BY DEF Versions!Idle, Versions!NoRow, Versions!NoEntry, Versions!NoId,
     SaveFields, RowShape, EntryShape
<1>3. template \in RowShape /\ template.there
  BY <1>1, <1>2 DEF RowShape
<1>4. Versions!Idle.pc = "idle" /\ Versions!Idle \in SaveShape
  BY <1>2 DEF SaveShape, Versions!Idle
<1>5. VersionShapes
  BY <1>2, <1>3, <1>4 DEF Versions!Init, VersionShapes
<1>6. VersionsCounted
  BY <1>3, <1>4 DEF Versions!Init, VersionsCounted, NumbersCounted, AheadOf
<1> QED BY <1>4, <1>5, <1>6 DEF Versions!Init, VersionsInv, AloneDone,
           SettledRests, Versions!OneCurrent, Versions!CronFollows

\* A step of the system is one of the template.
LEMMA VersionsSteps ==
    ASSUME part = "versions", [Next]_vars
    PROVE  [Versions!Next]_versionVars
BY DEF Next, vars, versionVars

\* A template has at most one current version, the latest, which holds its
\* graph after a save that was alone, and the beat entry then follows its
\* schedule.  Code: Pipeline.save, _create_version_snapshot.
VersionsHeld == part = "versions" => VersionsInv
THEOREM VersionsHold == Spec => []VersionsSound
<1>1. Init => VersionsHeld
  BY VersionsInit DEF Init, VersionsHeld
<1>2. VersionsHeld /\ [Next]_vars => VersionsHeld'
  BY PartStays, VersionsSteps, VersionsInvStep DEF VersionsHeld
<1>3. VersionsHeld => VersionsSound
  BY DEF VersionsHeld, VersionsInv, VersionsSound
<1> QED BY <1>1, <1>2, <1>3, PTL DEF Spec

-----------------------------------------------------------------------------
Analyses == [pc : {"idle", "node", "task"}, uses : SUBSET Task, nodes : Int,
             content : Content \cup {"none"}]
DraftRow == [type : {"absent", "ai", "manual"}, old : BOOLEAN,
             uses : SUBSET Task]
Asked    == [pc : {"idle", "commit"}, draft : Draft \cup {"none"},
             uses : SUBSET Task]
HeldTask == [task : Task \cup {"none"}, row : Drafts!TaskRow]
AssetTypes ==
    /\ task \in [Task -> Drafts!TaskRow] /\ draft \in [Draft -> DraftRow]
    /\ analysis \in Analyses /\ promotion \in [Promoter -> Asked]
    /\ taskEdit \in HeldTask
    /\ kept \in [Draft -> SUBSET Task]
    /\ \A p \in Promoter :
          promotion[p].pc = "commit" => promotion[p].draft \in Draft

\* A kept task is manual, and neither a clean-up nor an edit under way is
\* going to change that.
KeptInv ==
    \A d \in Draft : \A t \in kept[d] :
        /\ task[t].type = "manual"
        /\ sweep.pc = "tasks" => t \notin sweep.doomed
        /\ taskEdit.task = t => taskEdit.row.type = "manual"
AssetInv == AssetTypes /\ KeptInv

-----------------------------------------------------------------------------
\* The rows that stand for nothing have their types.
LEMMA BlankTypes ==
    /\ Drafts!NoTask \in Drafts!TaskRow /\ Drafts!NoTask.type = "absent"
    /\ Drafts!NoDraft \in DraftRow /\ Drafts!NoDraft.type = "absent"
    /\ Drafts!NotAsked \in Asked /\ Drafts!NotAsked.pc = "idle"
    /\ Drafts!NoEdit \in HeldTask /\ Drafts!NoEdit.task = "none"
    /\ Drafts!NoAnalysis \in Analyses /\ Drafts!NoSweep.pc = "idle"
BY DEF Drafts!NoTask, Drafts!NoDraft, Drafts!NotAsked, Drafts!NoEdit,
   Drafts!NoSweep, Drafts!NoAnalysis, Drafts!TaskRow, DraftRow, Asked,
   HeldTask, Analyses

\* Steps of the analysis alone.
LEMMA AnalysisStep ==
    ASSUME AssetInv,
           UNCHANGED <<task, draft, promotion, taskEdit, sweep, kept>>,
           analysis' \in Analyses
    PROVE  AssetInv'
BY DEF AssetInv, AssetTypes, KeptInv

\* A node of the draft is given its task.
LEMMA UseTask ==
    ASSUME AssetTypes, NEW t \in Task,
           \/ analysis' = [analysis EXCEPT !.nodes = @ - 1,
                                           !.uses = @ \cup {t}]
           \/ analysis' = [analysis EXCEPT !.pc = "node", !.nodes = @ - 1,
                                           !.uses = @ \cup {t}]
    PROVE  analysis' \in Analyses
<1>1. /\ analysis \in Analyses /\ analysis.nodes - 1 \in Int
      /\ analysis.uses \cup {t} \in SUBSET Task
  BY DEF AssetTypes, Analyses
<1>2. [analysis EXCEPT !.nodes = analysis.nodes - 1,
                       !.uses = analysis.uses \cup {t}] \in Analyses
  BY <1>1 DEF Analyses
<1>3. [analysis EXCEPT !.pc = "node", !.nodes = analysis.nodes - 1,
                       !.uses = analysis.uses \cup {t}] \in Analyses
  BY <1>1 DEF Analyses
<1> QED BY <1>2, <1>3

-----------------------------------------------------------------------------
\* AssetInv is kept by every step.
LEMMA AssetStep ==
    ASSUME AssetInv, [Drafts!Next]_draftVars
    PROVE  AssetInv'
<1> USE DEF AssetInv
<1>1. ASSUME Drafts!DraftBegin \/ Drafts!NodeContent \/ Drafts!DraftFails
      PROVE AssetInv'
  <2>1. ASSUME Drafts!DraftBegin PROVE analysis' \in Analyses
    <3>1. PICK n \in 0..MaxNodes :
             analysis' = [Drafts!NoAnalysis EXCEPT !.pc = "node", !.nodes = n]
      BY <2>1 DEF Drafts!DraftBegin
    <3>2. n \in Int
      OBVIOUS
    <3>3. analysis' = [pc |-> "node", uses |-> {}, nodes |-> n,
                       content |-> "none"]
      BY <3>1 DEF Drafts!NoAnalysis
    <3> QED BY <3>2, <3>3 DEF Analyses
  <2>2. ASSUME Drafts!NodeContent PROVE analysis' \in Analyses
    <3>1. PICK c \in Content :
             analysis' = [analysis EXCEPT !.pc = "task", !.content = c]
      BY <2>2 DEF Drafts!NodeContent
    <3> QED BY <3>1 DEF AssetTypes, Analyses
  <2>3. ASSUME Drafts!DraftFails PROVE analysis' \in Analyses
    BY <2>3, BlankTypes DEF Drafts!DraftFails
  <2> QED BY <1>1, <2>1, <2>2, <2>3, AnalysisStep DEF Drafts!DraftBegin,
             Drafts!NodeContent, Drafts!DraftFails
<1>2. ASSUME Drafts!KnownTask \/ Drafts!ReuseTask PROVE AssetInv'
  <2>1. analysis' \in Analyses
    BY <1>2, UseTask DEF Drafts!KnownTask, Drafts!ReuseTask
  <2> QED BY <1>2, <2>1, AnalysisStep DEF Drafts!KnownTask, Drafts!ReuseTask
<1>3. ASSUME Drafts!CreateTask PROVE AssetInv'
  <2>1. PICK t \in Task :
           /\ \A d \in Draft : t \notin kept[d]
           /\ task' = [task EXCEPT ![t] = [type |-> "ai", old |-> FALSE,
                                           content |-> analysis.content]]
           /\ analysis' = [analysis EXCEPT !.pc = "node", !.nodes = @ - 1,
                                           !.uses = @ \cup {t}]
    BY <1>3 DEF Drafts!CreateTask
  <2>2. analysis' \in Analyses
    BY <2>1, UseTask
  <2>3. task' \in [Task -> Drafts!TaskRow]
    BY <2>1 DEF AssetTypes, Analyses, Drafts!TaskRow
  <2>4. AssetTypes'
    BY <1>3, <2>2, <2>3 DEF Drafts!CreateTask, AssetTypes
  <2>5. \A d \in Draft : \A u \in kept[d] : task'[u] = task[u]
    BY <2>1 DEF AssetTypes
  <2>6. KeptInv'
    BY <1>3, <2>5 DEF Drafts!CreateTask, KeptInv
  <2> QED BY <2>4, <2>6
<1>4. ASSUME Drafts!CreateDraft PROVE AssetInv'
  <2>1. draft' \in [Draft -> DraftRow]
    BY <1>4 DEF Drafts!CreateDraft, AssetTypes, Analyses, DraftRow
  <2>2. AssetTypes'
    BY <1>4, <2>1, BlankTypes DEF Drafts!CreateDraft, AssetTypes
  <2>3. KeptInv'
    BY <1>4 DEF Drafts!CreateDraft, KeptInv
  <2> QED BY <2>2, <2>3
<1>5. ASSUME NEW p \in Promoter, Drafts!PromoteRead(p) PROVE AssetInv'
  <2>1. PICK d \in Draft :
           promotion' = [promotion EXCEPT ![p] = [pc |-> "commit",
                            draft |-> d, uses |-> draft[d].uses]]
    BY <1>5 DEF Drafts!PromoteRead
  <2>2. draft[d].uses \subseteq Task
    BY DEF AssetTypes, DraftRow
  <2>3. AssetTypes'
    BY <1>5, <2>1, <2>2 DEF Drafts!PromoteRead, AssetTypes, Asked
  <2>4. KeptInv'
    BY <1>5 DEF Drafts!PromoteRead, KeptInv
  <2> QED BY <2>3, <2>4
<1>6. ASSUME NEW p \in Promoter, Drafts!PromoteCommit(p) PROVE AssetInv'
  <2> DEFINE d == promotion[p].draft
             uses == promotion[p].uses
  <2>1. d \in Draft /\ uses \subseteq Task
    BY <1>6 DEF Drafts!PromoteCommit, AssetTypes, Asked
  <2>2. /\ task' = [t \in Task |->
                      IF t \in uses /\ task[t].type = "ai"
                      THEN [task[t] EXCEPT !.type = "manual"] ELSE task[t]]
        /\ draft' = [draft EXCEPT ![d] = [type |-> "manual", old |-> @.old,
                                          uses |-> uses]]
        /\ kept' = [kept EXCEPT ![d] = {t \in uses : /\ Drafts!Rows(t)
                                                     /\ t \notin sweep.doomed
                                                     /\ t # taskEdit.task}]
        /\ promotion' = [promotion EXCEPT ![p] = Drafts!NotAsked]
        /\ UNCHANGED <<taskEdit, sweep, analysis>>
    BY <1>6 DEF Drafts!PromoteCommit, Drafts!Promoted
  <2>3. \A t \in Task : /\ task'[t] \in Drafts!TaskRow
                        /\ task[t].type = "manual" => task'[t] = task[t]
                        /\ t \in uses /\ task[t].type # "absent"
                              => task'[t].type = "manual"
    BY <2>2 DEF AssetTypes, Drafts!TaskRow
  <2>4. draft' \in [Draft -> DraftRow]
    BY <2>1, <2>2 DEF AssetTypes, DraftRow
  <2>5. kept' \in [Draft -> SUBSET Task]
    BY <2>1, <2>2 DEF AssetTypes
  <2>6. promotion' \in [Promoter -> Asked]
        /\ \A q \in Promoter :
              promotion'[q].pc = "commit" => promotion'[q].draft \in Draft
    BY <2>2, BlankTypes DEF AssetTypes
  <2>7. AssetTypes'
    BY <2>2, <2>3, <2>4, <2>5, <2>6 DEF AssetTypes
  <2>8. ASSUME NEW e \in Draft, NEW t \in kept'[e]
        PROVE  /\ task'[t].type = "manual"
               /\ sweep'.pc = "tasks" => t \notin sweep'.doomed
               /\ taskEdit'.task = t => taskEdit'.row.type = "manual"
    <3>1. CASE e = d
      <4>1. t \in uses /\ Drafts!Rows(t) /\ t \notin sweep.doomed
                /\ t # taskEdit.task
        BY <2>1, <2>2, <2>8, <3>1 DEF AssetTypes
      <4> QED BY <2>1, <2>2, <2>3, <4>1 DEF Drafts!Rows
    <3>2. CASE e # d
      <4>1. t \in kept[e]
        BY <2>1, <2>2, <2>8, <3>2 DEF AssetTypes
      <4>2. t \in Task
        BY <4>1 DEF AssetTypes
      <4> QED BY <2>2, <2>3, <4>1, <4>2 DEF KeptInv
    <3> QED BY <3>1, <3>2
  <2>9. KeptInv'
    BY <2>8 DEF KeptInv
  <2> QED BY <2>7, <2>9
<1>7. ASSUME Drafts!EditRead PROVE AssetInv'
  <2>1. PICK t \in Task, c \in Content :
           taskEdit' = [task |-> t, row |-> [task[t] EXCEPT !.content = c]]
    BY <1>7 DEF Drafts!EditRead
  <2>2. /\ [task[t] EXCEPT !.content = c] \in Drafts!TaskRow
        /\ [task[t] EXCEPT !.content = c].type = task[t].type
    BY DEF AssetTypes, Drafts!TaskRow
  <2>3. AssetTypes'
    BY <1>7, <2>1, <2>2 DEF Drafts!EditRead, AssetTypes, HeldTask
  <2>4. /\ taskEdit'.task = t /\ taskEdit'.row.type = task[t].type
        /\ UNCHANGED <<task, sweep, kept>>
    BY <1>7, <2>1, <2>2 DEF Drafts!EditRead
  <2>5. KeptInv'
    BY <2>4 DEF KeptInv
  <2> QED BY <2>3, <2>5
<1>8. ASSUME Drafts!EditSave PROVE AssetInv'
  <2>1. /\ taskEdit.task \in Task /\ taskEdit.row \in Drafts!TaskRow
        /\ task' = [task EXCEPT ![taskEdit.task] = taskEdit.row]
               /\ taskEdit' = Drafts!NoEdit
        /\ UNCHANGED <<draft, analysis, promotion, sweep, kept>>
    BY <1>8 DEF Drafts!EditSave, AssetTypes, HeldTask
  <2>2. AssetTypes'
    BY <2>1, BlankTypes DEF AssetTypes
  <2>3. \A d \in Draft : \A t \in kept[d] :
           t \in Task /\ task'[t].type = "manual"
    BY <2>1 DEF AssetTypes, KeptInv
  <2>4. KeptInv'
    BY <2>1, <2>3, BlankTypes, TaskNames DEF KeptInv
  <2> QED BY <2>2, <2>4
<1>9. ASSUME NEW t \in Task, Drafts!DestroyTask(t) PROVE AssetInv'
  <2>1. /\ task' = [task EXCEPT ![t] = Drafts!NoTask]
        /\ kept' = [d \in Draft |-> kept[d] \ {t}]
        /\ UNCHANGED <<draft, analysis, promotion, taskEdit, sweep>>
    BY <1>9 DEF Drafts!DestroyTask
  <2>2. AssetTypes'
    BY <2>1, BlankTypes DEF AssetTypes
  <2>3. KeptInv'
    BY <2>1 DEF AssetTypes, KeptInv
  <2> QED BY <2>2, <2>3
<1>10. ASSUME Drafts!TurnOld PROVE AssetInv'
  <2>1. UNCHANGED <<analysis, promotion, taskEdit, sweep, kept>>
    BY <1>10 DEF Drafts!TurnOld
  <2>2. ASSUME NEW d \in Draft, draft' = [draft EXCEPT ![d].old = TRUE],
               UNCHANGED task
        PROVE  AssetInv'
    <3>0. draft[d] \in DraftRow
      BY DEF AssetTypes
    <3>1. [draft[d] EXCEPT !.old = TRUE] \in DraftRow
      BY <3>0 DEF DraftRow
    <3>2. draft' \in [Draft -> DraftRow]
      BY <2>2, <3>1 DEF AssetTypes
    <3> QED BY <2>1, <2>2, <3>2 DEF AssetTypes, KeptInv
  <2>3. ASSUME NEW u \in Task, task' = [task EXCEPT ![u].old = TRUE],
               UNCHANGED draft
        PROVE  AssetInv'
    <3>1. /\ task' \in [Task -> Drafts!TaskRow]
          /\ \A t \in Task : task'[t].type = task[t].type
      BY <2>3 DEF AssetTypes, Drafts!TaskRow
    <3>2. AssetTypes'
      BY <2>1, <2>3, <3>1 DEF AssetTypes
    <3>3. KeptInv'
      BY <2>1, <3>1 DEF AssetTypes, KeptInv
    <3> QED BY <3>2, <3>3
  <2> QED BY <1>10, <2>2, <2>3 DEF Drafts!TurnOld
\* The clean-up.
<1>11. ASSUME Drafts!CollectDrafts PROVE AssetInv'
  BY <1>11 DEF Drafts!CollectDrafts, AssetTypes, KeptInv
<1>12. ASSUME Drafts!DeleteDrafts PROVE AssetInv'
  <2>1. /\ \A d \in Draft : kept'[d] \subseteq kept[d]
        /\ kept' \in [Draft -> SUBSET Task]
        /\ draft' \in [Draft -> DraftRow]
    BY <1>12, BlankTypes DEF Drafts!DeleteDrafts, AssetTypes
  <2>2. UNCHANGED <<task, analysis, promotion, taskEdit>>
            /\ sweep'.pc = "between"
    BY <1>12 DEF Drafts!DeleteDrafts
  <2>3. AssetTypes'
    BY <2>1, <2>2 DEF AssetTypes
  <2>4. KeptInv'
    BY <2>1, <2>2 DEF KeptInv
  <2> QED BY <2>3, <2>4
<1>13. ASSUME Drafts!CollectTasks PROVE AssetInv'
  <2>1. /\ sweep'.doomed = {t \in Task : task[t].type = "ai" /\ task[t].old}
        /\ UNCHANGED <<task, draft, analysis, promotion, taskEdit, kept>>
    BY <1>13 DEF Drafts!CollectTasks
  <2> QED BY <2>1 DEF AssetTypes, KeptInv
<1>14. ASSUME Drafts!DeleteTasks PROVE AssetInv'
  <2>1. /\ sweep.pc = "tasks" /\ sweep' = Drafts!NoSweep
        /\ task' = [t \in Task |-> IF t \in sweep.doomed THEN Drafts!NoTask
                                   ELSE task[t]]
        /\ UNCHANGED <<draft, analysis, promotion, taskEdit, kept>>
    BY <1>14 DEF Drafts!DeleteTasks
  <2>2. AssetTypes'
    BY <2>1, BlankTypes DEF AssetTypes
  <2>3. \A d \in Draft : \A t \in kept[d] : task'[t] = task[t]
    BY <2>1 DEF AssetTypes, KeptInv
  <2>4. KeptInv'
    BY <2>1, <2>3, BlankTypes DEF KeptInv
  <2> QED BY <2>2, <2>4
<1>15. ASSUME UNCHANGED draftVars PROVE AssetInv'
  BY <1>15 DEF draftVars, AssetTypes, KeptInv
<1> QED BY <1>1, <1>2, <1>3, <1>4, <1>5, <1>6, <1>7, <1>8, <1>9, <1>10,
        <1>11, <1>12, <1>13, <1>14, <1>15 DEF Drafts!Next

\* Nothing is promoted and no analysis has begun.
LEMMA DraftInit == Drafts!Init => AssetInv
<1> SUFFICES ASSUME Drafts!Init PROVE AssetInv
  OBVIOUS
<1>1. task \in [Task -> Drafts!TaskRow]
  <2>1. \A c \in Content :
           [type |-> "manual", old |-> TRUE,
               content |-> c] \in Drafts!TaskRow
    BY DEF Drafts!TaskRow
  <2>2. \A t \in Task : task[t] \in Drafts!TaskRow
    BY <2>1, BlankTypes DEF Drafts!Init
  <2> QED BY <2>2 DEF Drafts!Init
<1>2. AssetTypes
  BY <1>1, BlankTypes DEF Drafts!Init, AssetTypes
<1>3. KeptInv
  BY DEF Drafts!Init, KeptInv
<1> QED BY <1>2, <1>3 DEF AssetInv

\* A step of the system is one of the drafts.
LEMMA DraftsSteps ==
    ASSUME part = "drafts", [Next]_vars
    PROVE  [Drafts!Next]_draftVars
BY DEF Next, vars, draftVars

\* A promoted pipeline keeps its tasks, whatever the clean-up of expired
\* drafts collects and deletes and however analyses share tasks.
\* Code: promote, cleanup_expired_ai_drafts.
DraftsHeld == part = "drafts" => AssetInv
THEOREM PromotedStays == Spec => []PromotedKept
<1>1. Init => DraftsHeld
  BY DraftInit DEF Init, DraftsHeld
<1>2. DraftsHeld /\ [Next]_vars => DraftsHeld'
  BY PartStays, DraftsSteps, AssetStep DEF DraftsHeld
<1>3. DraftsHeld => PromotedKept
  BY DEF DraftsHeld, AssetInv, KeptInv, PromotedKept, Drafts!PromotedKept
<1> QED BY <1>1, <1>2, <1>3, PTL DEF Spec

-----------------------------------------------------------------------------
(* Graphs built from drafts and from YAML: which node waits for which.       *)

\* A finite set has a member no other is before.
LEMMA FirstFound ==
    ASSUME NEW S, IsFiniteSet(S), S # {}, NEW R,
           \A x \in S : <<x, x>> \notin R,
           \A x, y, z \in S : <<x, y>> \in R /\ <<y, z>> \in R =>
               <<x, z>> \in R
    PROVE  \E x \in S : \A y \in S : <<y, x>> \notin R
<1> DEFINE Before(x) == {y \in S : <<y, x>> \in R}
           Count(x) == Cardinality(Before(x))
           Counts == {Count(x) : x \in S}
<1>1. \A x \in S : IsFiniteSet(Before(x)) /\ Count(x) \in Nat
  BY FS_Subset, FS_CardinalityType
<1>2. Counts \in SUBSET Nat /\ Counts # {}
  <2>1. \A x \in S : Count(x) \in Nat
    BY <1>1
  <2>2. PICK x \in S : TRUE
    OBVIOUS
  <2> HIDE DEF Before, Count
  <2>3. Count(x) \in Counts
    BY <2>2
  <2>4. \A n \in Counts : n \in Nat
    BY <2>1
  <2> QED BY <2>3, <2>4
<1>3. PICK x \in S : \A y \in S : Count(x) <= Count(y)
  <2>1. PICK n \in Counts : \A m \in Counts : n <= m
    <3> HIDE DEF Counts
    <3> QED BY <1>2, Least
  <2> HIDE DEF Count
  <2> QED BY <2>1
<1>4. ASSUME NEW y \in S, <<y, x>> \in R PROVE FALSE
  <2>1. Before(y) \in SUBSET Before(x)
    BY <1>4
  <2>2. y \in Before(x) /\ y \notin Before(y)
    BY <1>4
  <2>3. Count(y) <= Count(x) /\ Count(y) # Count(x)
    <3> HIDE DEF Before
    <3> QED BY <1>1, <2>1, <2>2, FS_Subset
  <2>4. Count(x) \in Nat /\ Count(y) \in Nat /\ Count(x) <= Count(y)
    BY <1>1, <1>3
  <2> HIDE DEF Count
  <2> QED BY <2>3, <2>4
<1> QED BY <1>4

\* One of finitely many nodes is the highest.
LEMMA HighestNode ==
    ASSUME NEW N \in SUBSET Item, IsFiniteSet(N), N # {},
           level \in [Item -> Int]
    PROVE  \E n \in N : \A m \in N : level[n] >= level[m]
<1> DEFINE R == {e \in N \X N : level[e[1]] > level[e[2]]}
<1>1. PICK n \in N : \A m \in N : <<m, n>> \notin R
  <2>1. \A x, y, z \in N : <<x, y>> \in R /\ <<y, z>> \in R => <<x, z>> \in R
    OBVIOUS
  <2>2. \A x \in N : <<x, x>> \notin R
    OBVIOUS
  <2> HIDE DEF R
  <2> QED BY <2>1, <2>2, FirstFound
<1>2. ASSUME NEW m \in N PROVE level[n] >= level[m]
  <2>1. ~(level[m] > level[n])
    BY <1>1
  <2>2. level[m] \in Int /\ level[n] \in Int
    OBVIOUS
  <2> QED BY <2>1, <2>2
<1> QED BY <1>2

\* The highest of finitely many levels and one more.
LEMMA HighestLevel ==
    ASSUME NEW N \in SUBSET Item, IsFiniteSet(N), level \in [Item -> Int],
           NEW least \in Int
    PROVE  /\ Build!Max({level[n] : n \in N} \cup {least}) \in Int
           /\ Build!Max({level[n] : n \in N} \cup {least}) >= least
           /\ \A n \in N :
                  Build!Max({level[m] : m \in N} \cup {least}) >= level[n]
<1> DEFINE S == {level[n] : n \in N} \cup {least}
<1>1. \E x \in S : \A y \in S : x >= y
  <2>1. CASE N = {}
    BY <2>1
  <2>2. CASE N # {}
    <3>1. PICK n \in N : \A m \in N : level[n] >= level[m]
      BY <2>2, HighestNode
    <3>2. CASE level[n] >= least
      BY <3>1, <3>2
    <3>3. CASE ~(level[n] >= least)
      BY <3>1, <3>3
    <3> QED BY <3>2, <3>3
  <2> QED BY <2>1, <2>2
<1>2. S \in SUBSET Int
  OBVIOUS
<1>3. Build!Max(S) \in S /\ \A y \in S : Build!Max(S) >= y
  <2> HIDE DEF S
  <2> QED BY <1>1 DEF Build!Max
<1> QED BY <1>2, <1>3

LEMMA HighestOf ==
    ASSUME nodes \in SUBSET Item, nodes # {}, level \in [Item -> Int],
           \A n \in Item : level[n] >= Build!NoLevel
    PROVE  Build!Max(Build!Levels) \in Int
               /\ Build!Max(Build!Levels) >= Build!NoLevel
<1>1. IsFiniteSet(nodes)
  BY GraphBounds, FS_Subset
<1>2. \E x \in Build!Levels : \A y \in Build!Levels : x >= y
  <2>1. PICK n \in nodes : \A m \in nodes : level[n] >= level[m]
    BY <1>1, HighestNode
  <2> QED BY <2>1 DEF Build!Levels
<1>3. Build!Max(Build!Levels) \in Build!Levels
  BY <1>2 DEF Build!Max
<1> QED BY <1>3 DEF Build!Levels

GraphTypes ==
    /\ given \subseteq Item \X Item /\ edges \subseteq Item \X Item
    /\ nodes \subseteq Item
    /\ level \in [Item -> Int] /\ \A n \in Item : level[n] >= Build!NoLevel
    /\ frontier \subseteq nodes
    /\ phase \in {"filter", "layout", "levels", "done", "failed"}
    /\ origin \in {"ai", "yaml"}

\* What each phase knows.
PhasesKnown ==
    /\ phase = "layout" => origin = "ai"
    /\ phase \in {"levels", "failed"} => origin = "yaml"
    /\ origin = "yaml" => excluded = {} /\ nodes # {}
    /\ phase = "filter" => frontier = {} /\ \A n \in Item :
           level[n] = Build!NoLevel
    /\ phase = "levels" => \E n \in nodes : level[n] = Build!NoLevel

\* In a graph read from YAML a job has its level after its needs.
NeedsFirst ==
    origin = "yaml" /\ phase \in {"levels", "done"} =>
       /\ edges \subseteq nodes \X nodes
       /\ \A e \in edges : level[e[2]] # Build!NoLevel =>
             level[e[1]] # Build!NoLevel /\ level[e[1]] < level[e[2]]
GraphInv == GraphTypes /\ PhasesKnown /\ NeedsFirst /\ Build!GraphFaithful

LEMMA GraphInit == Build!Init => GraphInv
<1> SUFFICES ASSUME Build!Init PROVE GraphInv
  OBVIOUS
<1>1. GraphTypes
  BY GraphBounds DEF Build!Init, GraphTypes, Build!NoLevel
<1>2. PhasesKnown
  <2>1. origin = "yaml" => excluded = {} /\ nodes # {}
    BY DEF Build!Init
  <2> QED BY <2>1 DEF Build!Init, PhasesKnown
<1>3. NeedsFirst
  BY DEF Build!Init, NeedsFirst
<1>4. Build!GraphFaithful
  BY DEF Build!Init, Build!GraphFaithful
<1> QED BY <1>1, <1>2, <1>3, <1>4 DEF GraphInv

\* Reaching is transitive.
LEMMA ReachTogether ==
    ASSUME NEW E \in SUBSET (Item \X Item), NEW a \in Item, NEW b \in Item,
           NEW c \in Item, Build!Reaches(E, a, b), Build!Reaches(E, b, c)
    PROVE  Build!Reaches(E, a, c)
<1> SUFFICES ASSUME NEW S \in SUBSET Item,
                    \A e \in E : (e[1] = a \/ e[1] \in S) => e[2] \in S
             PROVE  c \in S
  BY DEF Build!Reaches
<1>1. b \in S
  BY DEF Build!Reaches
<1>2. \A e \in E : (e[1] = b \/ e[1] \in S) => e[2] \in S
  BY <1>1
<1> QED BY <1>2 DEF Build!Reaches

LEMMA ReachOne ==
    ASSUME NEW E, NEW a, NEW b, <<a, b>> \in E
    PROVE  Build!Reaches(E, a, b)
BY DEF Build!Reaches

\* A bypass keeps what waits for what among the nodes that stay.
LEMMA BypassReaches ==
    ASSUME GraphTypes, NEW u \in Item, Build!Bypass(u),
           NEW a \in Item \ {u}, NEW b \in Item \ {u}, a # b
    PROVE  Build!Reaches(edges', a, b) <=> Build!Reaches(edges, a, b)
<1>1. /\ \A x, y \in Item \ {u} : <<x, y>> \in edges => <<x, y>> \in edges'
      /\ \A x, y \in Item \ {u} :
            <<x, u>> \in edges /\ <<u, y>> \in edges /\ x # y =>
               <<x, y>> \in edges'
      /\ \A e \in edges' :
            /\ e \in Item \X Item /\ e[1] # u /\ e[2] # u
            /\ \/ e \in edges
               \/ <<e[1], u>> \in edges /\ <<u, e[2]>> \in edges
  BY DEF GraphTypes, Build!Bypass, Build!Sources, Build!Targets
<1>2. ASSUME Build!Reaches(edges', a, b) PROVE Build!Reaches(edges, a, b)
  <2> SUFFICES ASSUME NEW S \in SUBSET Item,
                      \A e \in edges : (e[1] = a \/ e[1] \in S) => e[2] \in S
               PROVE  b \in S
    BY DEF Build!Reaches
  <2>1. ASSUME NEW e \in edges', e[1] = a \/ e[1] \in S PROVE e[2] \in S
    <3>1. CASE e \in edges
      BY <2>1, <3>1
    <3>2. CASE <<e[1], u>> \in edges /\ <<u, e[2]>> \in edges
      <4>1. u \in S
        BY <2>1, <3>2
      <4> QED BY <3>2, <4>1
    <3> QED BY <1>1, <2>1, <3>1, <3>2
  <2> QED BY <1>2, <2>1 DEF Build!Reaches
<1>3. ASSUME Build!Reaches(edges, a, b) PROVE Build!Reaches(edges', a, b)
  <2> SUFFICES ASSUME NEW S \in SUBSET Item,
                      \A e \in edges' : (e[1] = a \/ e[1] \in S) => e[2] \in S
               PROVE  b \in S
    BY DEF Build!Reaches
  <2> DEFINE Others == (S \ {u}) \cup {a}
             All == Others
                 \cup {v \in {u} : \E p \in Others : <<p, u>> \in edges}
  <2>1. \A p \in Others : p \in Item \ {u}
    OBVIOUS
  <2>2. All \in SUBSET Item
    BY <2>1
  <2>3. ASSUME NEW x \in Item, NEW y \in Item, <<x, y>> \in edges,
               x = a \/ x \in All
        PROVE  y \in All
    <3>1. CASE y = u /\ x # u
      BY <2>3, <3>1
    <3>2. CASE y = u /\ x = u
      BY <2>3, <3>2
    <3>3. CASE y # u /\ x # u
      <4>1. <<x, y>> \in edges' /\ (x = a \/ x \in S)
        BY <1>1, <2>3, <3>3
      <4>2. y \in S
        BY <4>1
      <4> QED BY <3>3, <4>2
    <3>4. CASE y # u /\ x = u
      <4>1. PICK p \in Others : <<p, u>> \in edges
        BY <2>3, <3>4
      <4>2. CASE y = p
        BY <4>1, <4>2
      <4>3. CASE y # p
        <5>1. <<p, y>> \in edges' /\ (p = a \/ p \in S)
          BY <1>1, <2>1, <2>3, <3>4, <4>1, <4>3
        <5>2. y \in S
          BY <5>1
        <5> QED BY <3>4, <5>2
      <4> QED BY <4>2, <4>3
    <3> QED BY <3>1, <3>2, <3>3, <3>4
  <2>4. b \in All
    <3>1. \A e \in edges : e = <<e[1], e[2]>> /\ e[1] \in Item /\ e[2] \in Item
      BY DEF GraphTypes
    <3> HIDE DEF All
    <3>2. \A e \in edges : (e[1] = a \/ e[1] \in All) => e[2] \in All
      BY <2>3, <3>1
    <3> QED BY <1>3, <2>2, <3>2 DEF Build!Reaches
  <2> QED BY <2>4
<1> QED BY <1>2, <1>3

LEMMA BypassKeeps ==
    ASSUME GraphInv, NEW u \in Item, Build!Bypass(u)
    PROVE  GraphInv'
<1> USE DEF GraphInv
<1>1. /\ phase = "filter" /\ u \in nodes /\ origin = "ai"
      /\ nodes' = nodes \ {u}
      /\ UNCHANGED <<origin, given, excluded, level, frontier, phase>>
  BY DEF Build!Bypass, PhasesKnown, GraphTypes
<1>2. edges' \subseteq Item \X Item
  BY DEF Build!Bypass, Build!Sources, Build!Targets, GraphTypes
<1>3. frontier' \subseteq nodes'
  BY <1>1 DEF PhasesKnown
<1>4. GraphTypes'
  BY <1>1, <1>2, <1>3 DEF GraphTypes
<1>5. PhasesKnown' /\ NeedsFirst'
  BY <1>1 DEF PhasesKnown, NeedsFirst
<1>6. Build!GraphFaithful'
  <2>1. ASSUME NEW a \in nodes', NEW b \in nodes', a # b
        PROVE  Build!Reaches(edges', a, b) <=> Build!Reaches(given', a, b)
    <3>1. /\ a \in Item \ {u} /\ b \in Item \ {u}
          /\ Build!Reaches(edges, a, b) <=> Build!Reaches(given, a, b)
      BY <1>1, <2>1 DEF GraphTypes, Build!GraphFaithful
    <3> QED BY <1>1, <2>1, <3>1, BypassReaches
  <2> QED BY <1>1, <2>1 DEF Build!GraphFaithful
<1> QED BY <1>4, <1>5, <1>6

\* The layout of a draft.
LEMMA LayoutKeeps ==
    ASSUME GraphInv, Build!LayoutBegin \/ Build!LayoutStep \/ Build!LayoutEnd
    PROVE  GraphInv'
<1> USE DEF GraphInv
<1>1. origin = "ai" /\ UNCHANGED <<origin, given, nodes, excluded, edges>>
  BY DEF Build!LayoutBegin, Build!LayoutStep, Build!LayoutEnd, PhasesKnown
<1>2. CASE Build!LayoutBegin
  <2>1. phase' = "layout" /\ level' = level /\ frontier' \subseteq nodes
    BY <1>2 DEF Build!LayoutBegin
  <2>2. GraphTypes'
    BY <1>1, <2>1 DEF GraphTypes
  <2>3. PhasesKnown' /\ NeedsFirst' /\ Build!GraphFaithful'
    BY <1>1, <2>1 DEF PhasesKnown, NeedsFirst, Build!GraphFaithful
  <2> QED BY <2>2, <2>3
<1>3. CASE Build!LayoutStep
  <2>1. frontier # {} /\ nodes # {} /\ frontier \subseteq nodes
    BY <1>3 DEF Build!LayoutStep, GraphTypes
  <2>2. Build!Max(Build!Levels) \in Int
            /\ Build!Max(Build!Levels) >= Build!NoLevel
    BY <2>1, HighestOf DEF GraphTypes
  <2>3. /\ phase' = "layout" /\ frontier' \subseteq nodes
        /\ level' =
               [n \in Item |-> IF n \in frontier
                   THEN Build!Max(Build!Levels) + 1
                                   ELSE level[n]]
    BY <1>3 DEF Build!LayoutStep
  <2>4. level' \in [Item -> Int] /\ \A n \in Item : level'[n] >= Build!NoLevel
    BY <2>2, <2>3 DEF GraphTypes, Build!NoLevel
  <2>5. GraphTypes'
    BY <1>1, <2>3, <2>4 DEF GraphTypes
  <2>6. PhasesKnown' /\ NeedsFirst' /\ Build!GraphFaithful'
    BY <1>1, <2>3 DEF PhasesKnown, NeedsFirst, Build!GraphFaithful
  <2> QED BY <2>5, <2>6
<1>4. CASE Build!LayoutEnd
  <2> DEFINE topmost == Build!Max(Build!Levels \cup {0}) + 1
  <2>1. topmost \in Int /\ topmost >= 1
    <3>1. /\ nodes \in SUBSET Item /\ IsFiniteSet(nodes)
          /\ level \in [Item -> Int]
      BY GraphBounds, FS_Subset DEF GraphTypes
    <3>2. 0 \in Int
      OBVIOUS
    <3>3. Build!Max(Build!Levels \cup {0}) \in Int
              /\ Build!Max(Build!Levels \cup {0}) >= 0
      <4> HIDE DEF GraphInv
      <4> QED BY <3>1, <3>2, HighestLevel DEF Build!Levels
    <3> HIDE DEF GraphInv
    <3> QED BY <3>3
  <2>2. /\ phase' = "done" /\ frontier' = frontier
        /\ level' = [n \in Item |-> IF n \in nodes /\ level[n] = Build!NoLevel
                                   THEN topmost ELSE level[n]]
    BY <1>4 DEF Build!LayoutEnd
  <2> HIDE DEF topmost
  <2>3. level' \in [Item -> Int] /\ \A n \in Item : level'[n] >= Build!NoLevel
    BY <2>1, <2>2 DEF GraphTypes, Build!NoLevel
  <2>4. GraphTypes'
    BY <1>1, <2>2, <2>3 DEF GraphTypes
  <2>5. \A n \in nodes : level'[n] # Build!NoLevel
    BY <2>1, <2>2 DEF GraphTypes, Build!NoLevel
  <2>6. PhasesKnown' /\ NeedsFirst' /\ Build!GraphFaithful'
    BY <1>1, <2>2, <2>5 DEF PhasesKnown, NeedsFirst, Build!GraphFaithful
  <2> QED BY <2>4, <2>6
<1> QED BY <1>2, <1>3, <1>4

LEMMA ParseKeeps ==
    ASSUME GraphInv, Build!ParseJobs
    PROVE  GraphInv'
<1> USE DEF GraphInv
<1>1. /\ phase = "filter" /\ origin = "yaml" /\ phase' = "levels"
      /\ edges' = edges \cap (nodes \X nodes)
      /\ UNCHANGED <<origin, given, nodes, excluded, level, frontier>>
  BY DEF Build!ParseJobs
<1>2. GraphTypes'
  BY <1>1 DEF GraphTypes
<1>3. PhasesKnown'
  BY <1>1 DEF PhasesKnown, GraphTypes
<1>4. NeedsFirst'
  BY <1>1 DEF NeedsFirst, PhasesKnown, GraphTypes
<1>5. Build!GraphFaithful'
  BY <1>1 DEF Build!GraphFaithful
<1> QED BY <1>2, <1>3, <1>4, <1>5

LEMMA GetLevelKeeps ==
    ASSUME GraphInv, NEW n \in Item, Build!GetLevel(n)
    PROVE  GraphInv'
<1> USE DEF GraphInv
<1> DEFINE above == Build!Max({level[a] : a \in Build!Sources(n)}
        \cup {Build!NoLevel}) + 1
<1>1. /\ phase = "levels" /\ n \in nodes /\ level[n] = Build!NoLevel
      /\ \A a \in Build!Sources(n) : level[a] # Build!NoLevel
      /\ level' = [level EXCEPT ![n] = above]
      /\ phase' = IF Build!NoLevel \in {level'[m] : m \in nodes} THEN "levels"
                  ELSE "done"
      /\ origin = "yaml"
      /\ UNCHANGED <<origin, given, nodes, excluded, edges, frontier>>
  BY DEF Build!GetLevel, PhasesKnown
<1>2. /\ above \in Int /\ above > Build!NoLevel
      /\ \A a \in Build!Sources(n) : above > level[a]
  <2>1. Build!Sources(n) \in SUBSET Item /\ IsFiniteSet(Build!Sources(n))
    BY GraphBounds, FS_Subset DEF Build!Sources
  <2>2. Build!NoLevel \in Int /\ level \in [Item -> Int]
    BY DEF Build!NoLevel, GraphTypes
  <2>3. LET top == Build!Max({level[a] : a \in Build!Sources(n)}
            \cup {Build!NoLevel})
        IN  /\ top \in Int /\ top >= Build!NoLevel
            /\ \A a \in Build!Sources(n) : top >= level[a]
    BY <2>1, <2>2, HighestLevel
  <2>4. \A a \in Build!Sources(n) : level[a] \in Int
    BY <2>1, <2>2
  <2> QED BY <2>2, <2>3, <2>4
<1> HIDE DEF above
<1>3. /\ level' \in [Item -> Int] /\ level'[n] = above
      /\ \A m \in Item \ {n} : level'[m] = level[m]
      /\ \A m \in Item : level'[m] >= Build!NoLevel
  BY <1>1, <1>2 DEF GraphTypes, Build!NoLevel
<1>4. GraphTypes'
  BY <1>1, <1>3 DEF GraphTypes
<1>5. PhasesKnown'
  BY <1>1 DEF PhasesKnown
<1>6. NeedsFirst'
  <2>1. edges' \subseteq nodes' \X nodes'
    BY <1>1 DEF NeedsFirst
  <2>2. ASSUME NEW a \in nodes, NEW b \in nodes, <<a, b>> \in edges,
               level'[b] # Build!NoLevel
        PROVE  level'[a] # Build!NoLevel /\ level'[a] < level'[b]
    <3>1. a \in Item /\ b \in Item /\ level[a] \in Int /\ level[b] \in Int
      BY DEF GraphTypes
    <3>2. CASE b = n
      <4>1. a \in Build!Sources(n)
        BY <2>2, <3>1, <3>2 DEF Build!Sources
      <4>2. a # n /\ level[a] # Build!NoLevel
        BY <1>1, <4>1
      <4> QED BY <1>2, <1>3, <3>1, <3>2, <4>1, <4>2
    <3>3. CASE b # n
      <4>1. level[b] # Build!NoLevel
        BY <1>3, <2>2, <3>1, <3>3
      <4>2. level[a] # Build!NoLevel /\ level[a] < level[b]
        BY <1>1, <2>2, <4>1 DEF NeedsFirst
      <4> QED BY <1>1, <1>3, <3>1, <3>3, <4>2
    <3> QED BY <3>2, <3>3
  <2> QED BY <1>1, <2>1, <2>2 DEF NeedsFirst
<1>7. Build!GraphFaithful'
  <2>1. phase' = "done" => \A m \in nodes' : level'[m] # Build!NoLevel
    BY <1>1
  <2>2. phase' = "done" => \A e \in edges' : level'[e[1]] < level'[e[2]]
    BY <1>1, <1>6, <2>1 DEF NeedsFirst
  <2> QED BY <1>1, <2>1, <2>2 DEF Build!GraphFaithful
<1> QED BY <1>4, <1>5, <1>6, <1>7

\* When no level can be given any more, jobs need each other in a circle.
LEMMA RecursionKeeps ==
    ASSUME GraphInv, Build!Recursion
    PROVE  GraphInv'
<1> USE DEF GraphInv
<1>1. /\ phase = "levels" /\ phase' = "failed" /\ origin = "yaml"
      /\ \A n \in nodes : level[n] = Build!NoLevel =>
            \E a \in Build!Sources(n) : level[a] = Build!NoLevel
      /\ UNCHANGED <<origin, given, nodes, excluded, edges, level, frontier>>
  BY DEF Build!Recursion, PhasesKnown
<1>2. \E n \in nodes : Build!Reaches(edges, n, n)
  <2> SUFFICES ASSUME \A n \in nodes : ~Build!Reaches(edges, n, n) PROVE FALSE
    OBVIOUS
  <2> DEFINE Unset == {n \in nodes : level[n] = Build!NoLevel}
             R == {e \in Item \X Item : Build!Reaches(edges, e[1], e[2])}
  <2>1. Unset # {} /\ Unset \in SUBSET Item /\ IsFiniteSet(Unset)
    BY <1>1, GraphBounds, FS_Subset DEF PhasesKnown, GraphTypes
  <2>2. \A x, y \in Item : <<x, y>> \in R <=> Build!Reaches(edges, x, y)
    OBVIOUS
  <2>3. \A x \in Unset : <<x, x>> \notin R
    BY <2>1, <2>2
  <2>4. \A x, y, z \in Unset :
           <<x, y>> \in R /\ <<y, z>> \in R => <<x, z>> \in R
    <3> HIDE DEF R
    <3> QED BY <2>1, <2>2, ReachTogether DEF GraphTypes
  <2>5. PICK n \in Unset : \A a \in Unset : <<a, n>> \notin R
    <3> HIDE DEF R, Unset
    <3> QED BY <2>1, <2>3, <2>4, FirstFound
  <2>6. PICK a \in Build!Sources(n) : level[a] = Build!NoLevel
    BY <1>1
  <2>7. <<a, n>> \in edges /\ a \in Unset
    BY <1>1, <2>6 DEF Build!Sources, NeedsFirst
  <2> QED BY <2>1, <2>2, <2>5, <2>7, ReachOne
<1>3. GraphTypes'
  BY <1>1 DEF GraphTypes
<1>4. PhasesKnown' /\ NeedsFirst' /\ Build!GraphFaithful'
  BY <1>1, <1>2 DEF PhasesKnown, NeedsFirst, Build!GraphFaithful, GraphTypes
<1> QED BY <1>3, <1>4

LEMMA GraphNext == ASSUME GraphInv, [Build!Next]_buildVars PROVE GraphInv'
<1>1. CASE Build!Next
  <2>1. ASSUME NEW n \in Item, Build!Bypass(n) PROVE GraphInv'
    BY <2>1, BypassKeeps
  <2>2. ASSUME NEW n \in Item, Build!GetLevel(n) PROVE GraphInv'
    BY <2>2, GetLevelKeeps
  <2>3. CASE Build!LayoutBegin \/ Build!LayoutStep \/ Build!LayoutEnd
    BY <2>3, LayoutKeeps
  <2>4. CASE Build!ParseJobs \/ Build!Recursion
    BY <2>4, ParseKeeps, RecursionKeeps
  <2> QED BY <1>1, <2>1, <2>2, <2>3, <2>4 DEF Build!Next
<1>2. CASE UNCHANGED buildVars
  BY <1>2 DEF buildVars, GraphInv, GraphTypes, PhasesKnown, NeedsFirst,
     Build!GraphFaithful
<1> QED BY <1>1, <1>2

LEMMA GraphFollows == GraphInv => Build!GraphFaithful
BY DEF GraphInv

LEMMA BuildSteps ==
    ASSUME part = "build", [Next]_vars
    PROVE  [Build!Next]_buildVars
BY DEF Next, vars, buildVars

\* Of two actions that stay one waits for the other exactly when it did in the
\* input, whatever was bypassed and in whatever order, every node gets a level,
\* a job's above those of its needs, and only a cycle is refused, for every
\* graph.
\* Code: normalize_and_filter_ai_dag, YAMLToGraphParser.
BuildHeld == part = "build" => GraphInv
THEOREM GraphHolds == Spec => []GraphFaithful
<1>1. Init => BuildHeld
  BY GraphInit DEF Init, BuildHeld
<1>2. BuildHeld /\ [Next]_vars => BuildHeld'
  BY PartStays, BuildSteps, GraphNext DEF BuildHeld
<1>3. BuildHeld => GraphFaithful
  BY GraphFollows DEF BuildHeld, GraphFaithful
<1> QED BY <1>1, <1>2, <1>3, PTL DEF Spec

=============================================================================
