---------------------------- MODULE AccessProofs ----------------------------
(***************************************************************************)
(* Proofs about project access, the permission cache and the accounts of   *)
(* OperationsSystem, for every number of users, roles, requests and        *)
(* refreshing tasks, and every graph of inherited roles.                   *)
(***************************************************************************)
EXTENDS OperationsSystem, SequenceTheorems, FiniteSetTheorems,
        WellFoundedInduction, TLAPS

\* A behaviour stays with its component.
LEMMA PartStays == [Next]_vars => part' = part
BY DEF Next, vars

Word    == STRING \cup {"edit", "view"}

-----------------------------------------------------------------------------
(* The rules.                                                              *)

\* A wildcard or a code that lets a user edit also lets them view.
LEMMA EditShowsCode ==
    ASSUME NEW held, Access!CodeGrants(held, "update")
    PROVE  Access!CodeGrants(held, "retrieve")
<1> DEFINE n == Len(Resource)
           edit == Append(Resource, "edit")
           view == Append(Resource, "view")
<1>1. Access!Mapped["update"] = "edit" /\ Access!Mapped["retrieve"] = "view"
  BY DEF Access!Mapped, Access!Action
<1>2. n \in Nat /\ Resource \in Seq(Word)
  BY ResourceType DEF Word
<1>3. /\ edit \in Seq(Word) /\ view \in Seq(Word)
      /\ Len(edit) = n + 1 /\ Len(view) = n + 1
      /\ edit[n + 1] = "edit"
      /\ \A i \in 1..n : edit[i] = Resource[i] /\ view[i] = Resource[i]
  <2>1. "edit" \in Word /\ "view" \in Word
    BY DEF Word
  <2>2. /\ edit \in Seq(Word) /\ Len(edit) = n + 1 /\ edit[n + 1] = "edit"
        /\ \A i \in 1..n : edit[i] = Resource[i]
    BY <1>2, <2>1, AppendProperties
  <2>3. /\ view \in Seq(Word) /\ Len(view) = n + 1
        /\ \A i \in 1..n : view[i] = Resource[i]
    BY <1>2, <2>1, AppendProperties
  <2> QED BY <2>2, <2>3
<1>4. CASE <<"*">> \in held
  BY <1>4 DEF Access!CodeGrants
<1>5. CASE edit \in held
  <2>1. Access!Last(edit) = "edit"
    BY <1>3 DEF Access!Last
  <2>2. Access!IsStrictPrefix(Resource, edit)
    BY <1>2, <1>3 DEF Access!IsStrictPrefix, Access!IsPrefix
  <2> QED BY <1>1, <1>5, <2>1, <2>2 DEF Access!CodeGrants
<1>6. CASE \E i \in 1..Len(edit) - 1 : Append(SubSeq(edit, 1, i), "*") \in held
  <2>1. PICK i \in 1..Len(edit) - 1 : Append(SubSeq(edit, 1, i), "*") \in held
    BY <1>6
  <2>2. SubSeq(edit, 1, i) = SubSeq(view, 1, i)
    BY <1>2, <1>3, <2>1
  <2>3. i \in 1..Len(view) - 1 /\ Append(SubSeq(view, 1, i), "*") \in held
    BY <1>3, <2>1, <2>2
  <2> QED BY <1>1, <2>3 DEF Access!CodeGrants
<1> QED BY <1>1, <1>4, <1>5, <1>6 DEF Access!CodeGrants

\* Who may list the assets may open each that the list shows, and who may
\* change an asset may open it, in every state.
LEMMA RulesHold == Access!RulesAgree
<1> SUFFICES ASSUME NEW u \in Person, NEW p \in Project,
    NEW a \in Access!Visible(u, p),
                    Access!HasPermission(u, p, "list")
                        \/ Access!Allowed(u, p, a, "update")
             PROVE  Access!Allowed(u, p, a, "retrieve")
  BY DEF Access!RulesAgree
<1>1. /\ Access!Mapped["list"] = "view" /\ Access!Mapped["retrieve"] = "view"
      /\ Access!Mapped["update"] = "edit"
  BY DEF Access!Mapped, Access!Action
<1>2. Access!ObjectGrants(u, a, "retrieve")
  BY DEF Access!Visible, Access!ObjectGrants, Access!Needed
<1>5. CASE u \in SuperUser
  BY <1>2, <1>5 DEF Access!HasPermission, Access!Allowed
<1>3. CASE Access!HasPermission(u, p, "list")
  BY <1>1, <1>2, <1>3 DEF Access!HasPermission, Access!ProjectGrants,
     Access!CodeGrants, Access!Allowed
<1>4. CASE Access!Allowed(u, p, a, "update") /\ u \notin SuperUser
  <2>1. Access!CodeGrants(Granted[u], "retrieve")
    BY <1>4, EditShowsCode DEF Access!Allowed, Access!HasPermission
  <2>2. Access!ProjectGrants(u, p, "retrieve")
    BY <1>1, <1>4 DEF Access!Allowed, Access!HasPermission,
       Access!ProjectGrants
  <2> QED BY <1>2, <2>1, <2>2 DEF Access!HasPermission, Access!Allowed
<1> QED BY <1>3, <1>4, <1>5

-----------------------------------------------------------------------------
(* The memberships.                                                        *)

AccessRequest ==
    [op : {"add", "update"}, row : MemberId \cup {0}, new : Access!Membership]
    \cup [op : {"destroy"}, row : MemberId, new : {Access!NoRow}]
AccessTypes ==
    /\ owner \in [Project -> Person \cup {"nobody"}]
    /\ member \in [MemberId -> Access!Membership \cup {Access!NoRow}]
    /\ accessHandler \in [Handler -> AccessRequest \cup {Access!Idle}]
    /\ \A h \in Handler :
         accessHandler[h].op = "update" => accessHandler[h].row \in MemberId
    /\ crossed \in SUBSET MemberId /\ removed \in SUBSET MemberId
    /\ strayed \in SUBSET Access!Member
PairsUnique ==
    \A r, q \in MemberId : member[r] # Access!NoRow /\ r # q
                          => member[q].of # member[r].of

\* What a request for row r relies on, as long as it is the only one there.
AtRow(h, r) ==
    accessHandler[h].op \in {"update", "destroy"} /\ accessHandler[h].row = r
AloneAt(r) ==
    \A h \in Handler : AtRow(h, r) =>
        /\ \A g \in Handler : AtRow(g, r) => g = h
        /\ member[r] # Access!NoRow
        /\ accessHandler[h].op = "destroy" =>
             \/ owner[member[r].of[1]] # member[r].of[2]
             \/ member[r].of \in strayed

AccessInv ==
    /\ AccessTypes /\ PairsUnique /\ Access!MembersHeld
    /\ \A r \in MemberId \ crossed : AloneAt(r)

\* A handler at rest has no request, and no membership is the empty row.
LEMMA NotIdle ==
    /\ Access!Idle \notin AccessRequest /\ Access!Idle.op = "idle"
    /\ Access!NoRow \notin Access!Membership
    /\ \A r \in Access!Membership : r # Access!NoRow /\ r.of \in Access!Member
<1>1. "none" \notin Access!Role
  BY DEF Access!Role
<1> QED BY <1>1 DEF Access!Idle, AccessRequest, Access!NoRow,
       Access!Membership

\* No row without a membership has a member's pair.
LEMMA EmptyHolds ==
    ASSUME AccessTypes, NEW m \in Access!Member, NEW r \in Access!Holders(m)
    PROVE  r \in MemberId /\ member[r] # Access!NoRow /\ member[r].of = m
<1>1. \A x, y : <<>> # <<x, y>>
  OBVIOUS
<1>2. <<>> # m
  BY <1>1 DEF Access!Member
<1> QED BY <1>2 DEF Access!Holders, Access!NoRow

\* A request for a row is alone there or marks it as crossed.
LEMMA BeginKeeps ==
    ASSUME AccessInv, NEW h \in Handler, NEW r \in MemberId,
           NEW op \in {"update", "destroy"}, NEW new,
           op = "update" => new \in Access!Membership,
           op = "destroy" => /\ new = Access!NoRow
                             /\ owner[member[r].of[1]] # member[r].of[2],
           Access!BeginAt(h, r, op, new)
    PROVE  AccessInv'
<1> USE DEF AccessInv
<1> DEFINE q == [op |-> op, row |-> r, new |-> new]
<1>1. /\ UNCHANGED <<owner, member, removed, strayed>>
      /\ accessHandler[h].op = "idle" /\ member[r] # Access!NoRow
      /\ accessHandler' = [accessHandler EXCEPT ![h] = q]
      /\ crossed' = IF Access!Busy(r) = {} THEN crossed ELSE crossed \cup {r}
  BY DEF Access!BeginAt, Access!Begin
<1>2. /\ accessHandler'[h] = q
      /\ \A g \in Handler \ {h} : accessHandler'[g] = accessHandler[g]
  BY <1>1 DEF AccessTypes
<1>3. q \in AccessRequest
  BY DEF AccessRequest
<1>4. AccessTypes'
  <2>1. accessHandler' \in [Handler -> AccessRequest \cup {Access!Idle}]
    BY <1>1, <1>3 DEF AccessTypes
  <2>2. \A g \in Handler :
           accessHandler'[g].op = "update" => accessHandler'[g].row \in MemberId
    BY <1>2 DEF AccessTypes
  <2> QED BY <1>1, <2>1, <2>2 DEF AccessTypes
<1>5. PairsUnique' /\ Access!MembersHeld'
  BY <1>1 DEF PairsUnique, Access!MembersHeld, Access!Holders
<1>6. ASSUME NEW n \in MemberId \ crossed'
      PROVE  AloneAt(n)'
  <2>1. AloneAt(n)
    BY <1>1, <1>6
  <2>2. CASE n # r
    BY <1>1, <1>2, <2>1, <2>2 DEF AloneAt, AtRow
  <2>3. CASE n = r
    <3>1. \A g \in Handler : ~AtRow(g, r)
      BY <1>1, <1>6, <2>3 DEF Access!Busy, AtRow
    <3> QED BY <1>1, <1>2, <2>3, <3>1 DEF AloneAt, AtRow
  <2> QED BY <2>2, <2>3
<1> QED BY <1>4, <1>5, <1>6

\* A request to add a member is at no row yet.
LEMMA AddKeeps ==
    ASSUME AccessInv, NEW h \in Handler, NEW m \in Access!Member,
           Access!AddMember(h, m)
    PROVE  AccessInv'
<1> USE DEF AccessInv
<1>1. PICK a \in Access!Role :
         Access!Begin(h, m[1], [op |-> "add", row |-> 0,
                                new |-> [of |-> m, role |-> a]])
  BY DEF Access!AddMember
<1> DEFINE q == [op |-> "add", row |-> 0, new |-> [of |-> m, role |-> a]]
<1>2. /\ UNCHANGED <<owner, member, removed, crossed, strayed>>
      /\ accessHandler[h].op = "idle"
      /\ accessHandler' = [accessHandler EXCEPT ![h] = q]
  BY <1>1 DEF Access!AddMember, Access!Begin
<1>3. /\ accessHandler'[h] = q /\ q \in AccessRequest
      /\ \A g \in Handler \ {h} : accessHandler'[g] = accessHandler[g]
  BY <1>2 DEF AccessTypes, AccessRequest, Access!Membership
<1>4. AccessTypes'
  <2>1. accessHandler' \in [Handler -> AccessRequest \cup {Access!Idle}]
    BY <1>2, <1>3 DEF AccessTypes
  <2>2. \A g \in Handler :
           accessHandler'[g].op = "update" => accessHandler'[g].row \in MemberId
    BY <1>3 DEF AccessTypes
  <2> QED BY <1>2, <2>1, <2>2 DEF AccessTypes
<1>5. PairsUnique' /\ Access!MembersHeld'
  BY <1>2 DEF PairsUnique, Access!MembersHeld, Access!Holders
<1>6. ASSUME NEW n \in MemberId \ crossed'
      PROVE  AloneAt(n)'
  <2>1. AloneAt(n)
    BY <1>2, <1>6
  <2> QED BY <1>2, <1>3, <2>1 DEF AloneAt, AtRow
<1> QED BY <1>4, <1>5, <1>6

\* The handler of a request that ends is at no row.
LEMMA EndFrees ==
    ASSUME AccessTypes, NEW h \in Handler, Access!End(h)
    PROVE  /\ accessHandler' \in [Handler -> AccessRequest \cup {Access!Idle}]
           /\ \A g \in Handler :
                accessHandler'[g].op = "update" => accessHandler'[g].row \in MemberId
           /\ \A r : ~AtRow(h, r)'
           /\ \A g \in Handler \ {h} : accessHandler'[g] = accessHandler[g]
           /\ \A g \in Handler : \A r : AtRow(g, r)' => g # h /\ AtRow(g, r)
<1>1. accessHandler' = [accessHandler EXCEPT ![h] = Access!Idle]
  BY DEF Access!End
<1>2. /\ accessHandler'[h].op = "idle"
      /\ \A g \in Handler \ {h} : accessHandler'[g] = accessHandler[g]
  BY <1>1, NotIdle DEF AccessTypes
<1> QED BY <1>1, <1>2 DEF AccessTypes, AtRow

\* A row that gets a pair no other row has keeps the pairs unique, and every
\* other pair its row.
LEMMA RowGets ==
    ASSUME AccessTypes, PairsUnique, NEW r \in MemberId,
           NEW new \in Access!Membership, Access!Holders(new.of) \subseteq {r},
           member' = [member EXCEPT ![r] = new]
    PROVE  /\ member' \in [MemberId -> Access!Membership \cup {Access!NoRow}]
           /\ PairsUnique'
           /\ Access!Holders(new.of)' # {}
           /\ \A m \in Access!Member \ {member[r].of} :
                Access!Holders(m) # {} => Access!Holders(m)' # {}
           /\ member'[r] # Access!NoRow
           /\ \A q \in MemberId \ {r} : member'[q] = member[q]
<1>1. /\ member'[r] = new
      /\ \A q \in MemberId \ {r} : member'[q] = member[q]
      /\ member' \in [MemberId -> Access!Membership \cup {Access!NoRow}]
  BY DEF AccessTypes
<1>2. PairsUnique'
  BY <1>1 DEF PairsUnique, Access!Holders
<1>3. r \in Access!Holders(new.of)'
  BY <1>1 DEF Access!Holders
<1>4. ASSUME NEW m \in Access!Member \ {member[r].of}, Access!Holders(m) # {}
      PROVE  Access!Holders(m)' # {}
  <2>1. PICK q \in Access!Holders(m) : TRUE
    BY <1>4
  <2>2. q \in MemberId \ {r} /\ member[q].of = m
    BY <2>1, <1>4 DEF Access!Holders
  <2> QED BY <1>1, <2>2 DEF Access!Holders
<1> QED BY <1>1, <1>2, <1>3, <1>4, NotIdle

\* A member who is added gets a row nobody is at.
LEMMA AddSaveKeeps ==
    ASSUME AccessInv, NEW h \in Handler, NEW r \in MemberId, Access!AddSave(h, r)
    PROVE  AccessInv'
<1> USE DEF AccessInv
<1>0. PICK new : new = accessHandler[h].new
  OBVIOUS
<1>1. /\ accessHandler[h].op = "add" /\ Access!End(h)
      /\ member[r] = Access!NoRow /\ r \notin removed
      /\ UNCHANGED <<owner, removed, crossed>>
  BY DEF Access!AddSave
<1>2. new \in Access!Membership /\ new.of \in Access!Member
  BY <1>0, <1>1, NotIdle DEF AccessTypes, AccessRequest, Access!Membership
<1>3. /\ accessHandler' \in [Handler -> AccessRequest \cup {Access!Idle}]
      /\ \A g \in Handler :
           accessHandler'[g].op = "update" => accessHandler'[g].row \in MemberId
      /\ \A g \in Handler \ {h} : accessHandler'[g] = accessHandler[g]
      /\ \A g \in Handler : \A n : AtRow(g, n)' => g # h /\ AtRow(g, n)
  BY <1>1, EndFrees
<1>4. CASE UNCHANGED <<member, strayed>>
  <2>1. AccessTypes' /\ PairsUnique' /\ Access!MembersHeld'
    BY <1>1, <1>3, <1>4 DEF AccessTypes, PairsUnique, Access!MembersHeld,
       Access!Holders
  <2>2. ASSUME NEW n \in MemberId \ crossed'
        PROVE  AloneAt(n)'
    <3>1. AloneAt(n)
      BY <1>1, <2>2
    <3> QED BY <1>1, <1>3, <1>4, <3>1 DEF AloneAt
  <2> QED BY <2>1, <2>2
<1>5. CASE /\ Access!Holders(new.of) = {}
           /\ member' = [member EXCEPT ![r] = new]
           /\ strayed' = strayed \ {new.of}
  <2>1. /\ member' \in [MemberId -> Access!Membership \cup {Access!NoRow}]
        /\ PairsUnique' /\ Access!Holders(new.of)' # {}
        /\ \A m \in Access!Member \ {member[r].of} :
                Access!Holders(m) # {} => Access!Holders(m)' # {}
        /\ \A q \in MemberId \ {r} : member'[q] = member[q]
    BY <1>2, <1>5, RowGets
  <2>2. AccessTypes'
    BY <1>1, <1>3, <1>5, <2>1 DEF AccessTypes
  <2>3. \A m \in Access!Member : Access!Holders(m) # {} =>
            Access!Holders(m)' # {}
    <3>1. ASSUME NEW m \in Access!Member, Access!Holders(m) # {}
          PROVE  m # member[r].of
      <4>1. PICK q \in Access!Holders(m) : TRUE
        BY <3>1
      <4>2. CASE m = member[r].of
        BY <4>2, <1>1, EmptyHolds DEF Access!Holders
      <4> QED BY <4>2
    <3> QED BY <3>1, <2>1
  <2>4. Access!MembersHeld'
    <3>1. ASSUME NEW n \in removed' \ crossed'
          PROVE  member'[n] = Access!NoRow
      <4>1. n \in removed \ crossed /\ n \in MemberId /\ n # r
        BY <1>1, <3>1 DEF AccessTypes
      <4> QED BY <2>1, <4>1 DEF Access!MembersHeld
    <3>2. ASSUME NEW m \in Access!Member \ strayed', owner'[m[1]] = m[2]
          PROVE  Access!Holders(m)' # {}
      <4>1. CASE m = new.of
        BY <2>1, <4>1
      <4>2. CASE m # new.of
        BY <1>1, <1>5, <2>3, <3>2, <4>2 DEF Access!MembersHeld
      <4> QED BY <4>1, <4>2
    <3> QED BY <3>1, <3>2 DEF Access!MembersHeld
  <2>5. ASSUME NEW n \in MemberId \ crossed'
        PROVE  AloneAt(n)'
    <3>1. AloneAt(n) /\ n \in MemberId
      BY <1>1, <2>5
    <3>2. CASE n = r
      <4>1. \A g \in Handler : ~AtRow(g, n)
        BY <1>1, <3>1, <3>2 DEF AloneAt
      <4> QED BY <1>3, <4>1 DEF AloneAt
    <3>3. CASE n # r
      <4>1. member[n] = member'[n]
        BY <2>1, <3>1, <3>3
      <4>2. member[n].of # new.of
        BY <1>5, <3>1 DEF Access!Holders
      <4> QED BY <1>1, <1>3, <1>5, <3>1, <4>1, <4>2 DEF AloneAt
    <3> QED BY <3>2, <3>3
  <2> QED BY <2>1, <2>2, <2>4, <2>5
<1> QED BY <1>0, <1>4, <1>5 DEF Access!AddSave

\* A row that is saved as a whole: the pair it leaves has strayed.
LEMMA UpdateKeeps ==
    ASSUME AccessInv, NEW h \in Handler, Access!UpdateSave(h)
    PROVE  AccessInv'
<1> USE DEF AccessInv
<1>0. PICK r, new : r = accessHandler[h].row /\ new = accessHandler[h].new
  OBVIOUS
<1>1. /\ accessHandler[h].op = "update" /\ Access!End(h)
      /\ UNCHANGED <<owner, removed, crossed>>
  BY DEF Access!UpdateSave
<1>2. new \in Access!Membership /\ new.of \in Access!Member /\ r \in MemberId
      /\ AtRow(h, r)
  BY <1>0, <1>1, NotIdle DEF AccessTypes, AccessRequest, Access!Membership,
     AtRow
<1>3. /\ accessHandler' \in [Handler -> AccessRequest \cup {Access!Idle}]
      /\ \A g \in Handler :
           accessHandler'[g].op = "update" => accessHandler'[g].row \in MemberId
      /\ \A g \in Handler \ {h} : accessHandler'[g] = accessHandler[g]
      /\ \A g \in Handler : \A n : AtRow(g, n)' => g # h /\ AtRow(g, n)
  BY <1>1, EndFrees
<1>4. CASE UNCHANGED <<member, strayed>>
  <2>1. AccessTypes' /\ PairsUnique' /\ Access!MembersHeld'
    BY <1>1, <1>3, <1>4 DEF AccessTypes, PairsUnique, Access!MembersHeld,
       Access!Holders
  <2>2. ASSUME NEW n \in MemberId \ crossed'
        PROVE  AloneAt(n)'
    <3>1. AloneAt(n)
      BY <1>1, <2>2
    <3> QED BY <1>1, <1>3, <1>4, <3>1 DEF AloneAt
  <2> QED BY <2>1, <2>2
<1>5. CASE /\ Access!Holders(new.of) \subseteq {r}
           /\ member' = [member EXCEPT ![r] = new]
           /\ strayed' = (strayed \cup ({member[r].of} \cap Access!Member))
                         \ {new.of}
  <2>1. /\ member' \in [MemberId -> Access!Membership \cup {Access!NoRow}]
        /\ PairsUnique' /\ Access!Holders(new.of)' # {}
        /\ \A m \in Access!Member \ {member[r].of} :
                Access!Holders(m) # {} => Access!Holders(m)' # {}
        /\ \A q \in MemberId \ {r} : member'[q] = member[q]
    BY <1>2, <1>5, RowGets
  <2>2. AccessTypes'
    BY <1>1, <1>3, <1>5, <2>1 DEF AccessTypes
  <2>3. ASSUME NEW m \in Access!Member \ strayed', owner'[m[1]] = m[2]
        PROVE  Access!Holders(m)' # {}
    <3>1. CASE m = new.of
      BY <2>1, <3>1
    <3>2. CASE m # new.of
      <4>1. m \notin strayed /\ m # member[r].of
        BY <1>5, <2>3, <3>2
      <4> QED BY <1>1, <2>1, <2>3, <4>1 DEF Access!MembersHeld
    <3> QED BY <3>1, <3>2
  <2>4. ASSUME NEW n \in removed' \ crossed'
        PROVE  member'[n] = Access!NoRow
    <3>1. n \in MemberId /\ n \in removed \ crossed /\ member[n] = Access!NoRow
      BY <1>1, <2>4 DEF Access!MembersHeld, AccessTypes
    <3>2. CASE n = r
      <4>1. AloneAt(n)
        BY <3>1
      <4> QED BY <1>2, <3>1, <3>2, <4>1 DEF AloneAt
    <3> QED BY <2>1, <3>1, <3>2
  <2>5. ASSUME NEW n \in MemberId \ crossed'
        PROVE  AloneAt(n)'
    <3>1. AloneAt(n) /\ n \in MemberId
      BY <1>1, <2>5
    <3>2. CASE n = r
      <4>1. \A g \in Handler : AtRow(g, n) => g = h
        BY <1>2, <3>1, <3>2 DEF AloneAt
      <4> QED BY <1>3, <4>1 DEF AloneAt
    <3>3. CASE n # r
      <4>1. member[n] = member'[n]
        BY <2>1, <3>1, <3>3
      <4>2. member[n].of # new.of
        BY <1>5, <3>1, <3>3 DEF Access!Holders
      <4> QED BY <1>1, <1>3, <1>5, <3>1, <4>1, <4>2 DEF AloneAt
    <3> QED BY <3>2, <3>3
  <2> QED BY <2>1, <2>2, <2>3, <2>4, <2>5 DEF Access!MembersHeld
<1> QED BY <1>0, <1>4, <1>5 DEF Access!UpdateSave

\* A row that is deleted is no owner's, unless it was crossed.
LEMMA DestroyKeeps ==
    ASSUME AccessInv, NEW h \in Handler, Access!DestroySave(h)
    PROVE  AccessInv'
<1> USE DEF AccessInv
<1> DEFINE r == accessHandler[h].row
<1>1. /\ accessHandler[h].op = "destroy" /\ Access!End(h)
      /\ member' = [member EXCEPT ![r] = Access!NoRow]
      /\ removed' = removed \cup {r}
      /\ strayed' = IF r \in crossed
                    THEN strayed \cup ({member[r].of} \cap Access!Member)
                    ELSE strayed
      /\ UNCHANGED <<owner, crossed>>
  BY DEF Access!DestroySave
<1>2. r \in MemberId /\ AtRow(h, r)
  BY <1>1, NotIdle DEF AccessTypes, AccessRequest, AtRow
<1>3. /\ accessHandler' \in [Handler -> AccessRequest \cup {Access!Idle}]
      /\ \A g \in Handler :
           accessHandler'[g].op = "update" => accessHandler'[g].row \in MemberId
      /\ \A g \in Handler \ {h} : accessHandler'[g] = accessHandler[g]
      /\ \A g \in Handler : \A n : AtRow(g, n)' => g # h /\ AtRow(g, n)
  BY <1>1, EndFrees
<1>4. /\ member'[r] = Access!NoRow
      /\ \A q \in MemberId \ {r} : member'[q] = member[q]
      /\ member' \in [MemberId -> Access!Membership \cup {Access!NoRow}]
  BY <1>1, <1>2 DEF AccessTypes
<1>5. AccessTypes'
  BY <1>1, <1>2, <1>3, <1>4 DEF AccessTypes
<1>6. PairsUnique'
  <2>1. ASSUME NEW a \in MemberId, NEW b \in MemberId, member'[a] # Access!NoRow, a # b
        PROVE  member'[b].of # member'[a].of
    <3>1. a # r /\ member'[a] = member[a] /\ member[a].of \in Access!Member
      BY <1>4, <2>1, NotIdle DEF AccessTypes
    <3>2. CASE b = r
      <4>1. \A m \in Access!Member : m # <<>>
        BY DEF Access!Member
      <4> QED BY <1>4, <3>1, <3>2, <4>1 DEF Access!NoRow
    <3>3. CASE b # r
      BY <1>4, <2>1, <3>1, <3>3 DEF PairsUnique
    <3> QED BY <3>2, <3>3
  <2> QED BY <2>1 DEF PairsUnique
<1>7. ASSUME NEW n \in removed' \ crossed'
      PROVE  member'[n] = Access!NoRow
  <2>1. CASE n = r
    BY <1>4, <2>1
  <2>2. CASE n # r
    <3>1. n \in removed \ crossed /\ n \in MemberId
      BY <1>1, <1>7, <2>2 DEF AccessTypes
    <3> QED BY <1>4, <2>2, <3>1 DEF Access!MembersHeld
  <2> QED BY <2>1, <2>2
<1>8. ASSUME NEW m \in Access!Member \ strayed', owner'[m[1]] = m[2]
      PROVE  Access!Holders(m)' # {}
  <2>1. m \notin strayed
    BY <1>1, <1>8
  <2>2. Access!Holders(m) # {}
    BY <1>1, <1>8, <2>1 DEF Access!MembersHeld
  <2>3. PICK q \in Access!Holders(m) : TRUE
    BY <2>2
  <2>4. q \in MemberId /\ member[q].of = m
    BY <2>3 DEF Access!Holders
  <2>5. q # r
    <3>1. CASE r \in crossed
      BY <1>1, <1>8, <2>4, <3>1
    <3>2. CASE r \notin crossed
      <4>1. AloneAt(r)
        BY <1>2, <3>2
      <4>2. \/ owner[member[r].of[1]] # member[r].of[2]
            \/ member[r].of \in strayed
        BY <1>1, <1>2, <4>1 DEF AloneAt
      <4> QED BY <1>1, <1>8, <2>1, <2>4, <4>2
    <3> QED BY <3>1, <3>2
  <2> QED BY <1>4, <2>4, <2>5 DEF Access!Holders
<1>9. ASSUME NEW n \in MemberId \ crossed'
      PROVE  AloneAt(n)'
  <2>1. AloneAt(n) /\ n \in MemberId
    BY <1>1, <1>9
  <2>2. CASE n = r
    <3>1. \A g \in Handler : AtRow(g, n) => g = h
      BY <1>2, <2>1, <2>2 DEF AloneAt
    <3> QED BY <1>3, <3>1 DEF AloneAt
  <2>3. CASE n # r
    <3>1. member[n] = member'[n] /\ strayed \subseteq strayed'
      BY <1>1, <1>4, <2>1, <2>3
    <3> QED BY <1>1, <1>3, <2>1, <3>1 DEF AloneAt
  <2> QED BY <2>2, <2>3
<1> QED BY <1>5, <1>6, <1>7, <1>8, <1>9 DEF Access!MembersHeld

\* A new owner is a member nobody is removing, or has strayed.
LEMMA OwnerKeeps ==
    ASSUME AccessInv, NEW p \in Project,
           NEW u \in Person \cup {"nobody"}, Access!SetOwner(p, u)
    PROVE  AccessInv'
<1> USE DEF AccessInv
<1>1. /\ UNCHANGED <<member, accessHandler, removed, crossed>>
      /\ owner' = [owner EXCEPT ![p] = u]
      /\ strayed' = strayed \cup
           {m \in Access!Member : m = <<p, u>>
               /\ (Access!Removing(m) \/ Access!Holders(m) = {})}
  BY DEF Access!SetOwner
<1>2. /\ owner' \in [Project -> Person \cup {"nobody"}] /\ owner'[p] = u
      /\ \A q \in Project \ {p} : owner'[q] = owner[q]
  BY <1>1 DEF AccessTypes
<1>3. AccessTypes' /\ PairsUnique'
  BY <1>1, <1>2 DEF AccessTypes, PairsUnique
<1>4. ASSUME NEW m \in Access!Member, owner'[m[1]] = m[2]
      PROVE  owner[m[1]] = m[2] \/ m = <<p, u>>
  BY <1>2, <1>4 DEF Access!Member
<1>5. Access!MembersHeld'
  <2>1. ASSUME NEW m \in Access!Member \ strayed', owner'[m[1]] = m[2]
        PROVE  Access!Holders(m)' # {}
    BY <1>1, <1>4, <2>1 DEF Access!MembersHeld, Access!Holders
  <2> QED BY <1>1, <2>1 DEF Access!MembersHeld
<1>6. ASSUME NEW n \in MemberId \ crossed'
      PROVE  AloneAt(n)'
  <2>1. AloneAt(n)
    BY <1>1, <1>6
  <2>2. ASSUME NEW h \in Handler, AtRow(h, n), accessHandler[h].op = "destroy"
        PROVE  \/ owner'[member[n].of[1]] # member[n].of[2]
               \/ member[n].of \in strayed'
    <3> DEFINE m == member[n].of
    <3>1. member[n] # Access!NoRow
      BY <2>1, <2>2 DEF AloneAt
    <3>2. m \in Access!Member
      BY <3>1, <1>6, NotIdle DEF AccessTypes
    <3>3. Access!Removing(m)
      BY <2>2 DEF AtRow, Access!Removing
    <3>4. CASE m = <<p, u>>
      BY <1>1, <3>2, <3>3, <3>4
    <3>5. CASE m # <<p, u>>
      <4>1. owner[m[1]] # m[2] \/ m \in strayed
        BY <2>1, <2>2 DEF AloneAt
      <4>2. owner'[m[1]] = m[2] => owner[m[1]] = m[2]
        BY <1>4, <3>2, <3>5
      <4> QED BY <1>1, <4>1, <4>2
    <3> QED BY <3>4, <3>5
  <2> QED BY <1>1, <2>1, <2>2 DEF AloneAt, AtRow
<1> QED BY <1>3, <1>5, <1>6

\* No member was removed and no request is at work.
LEMMA AccessInit == Access!Init => AccessInv
<1> SUFFICES ASSUME Access!Init PROVE AccessInv
  OBVIOUS
<1>1. \A h \in Handler : accessHandler[h] = Access!Idle
          /\ accessHandler[h].op = "idle"
  BY NotIdle DEF Access!Init
<1>2. AccessTypes
  BY <1>1 DEF Access!Init, AccessTypes
<1>3. Access!MembersHeld /\ PairsUnique
  BY DEF Access!Init, Access!MembersHeld, PairsUnique
<1>4. \A r \in MemberId : AloneAt(r)
  BY <1>1 DEF AloneAt, AtRow
<1> QED BY <1>2, <1>3, <1>4 DEF AccessInv

\* Every step of the requests on memberships, owners and shares.
LEMMA AccessStep == AccessInv /\ [Access!Next]_accessVars => AccessInv'
<1> SUFFICES ASSUME AccessInv, [Access!Next]_accessVars PROVE AccessInv'
  OBVIOUS
<1>1. ASSUME NEW h \in Handler, NEW m \in Access!Member,
             Access!AddMember(h, m)
      PROVE  AccessInv'
  BY <1>1, AddKeeps
<1>2. ASSUME NEW h \in Handler, NEW r \in MemberId, Access!UpdateMember(h, r)
      PROVE  AccessInv'
  <2>1. PICK new \in Access!Membership : Access!BeginAt(h, r, "update", new)
    BY <1>2 DEF Access!UpdateMember
  <2> QED BY <2>1, BeginKeeps
<1>3. ASSUME NEW h \in Handler, NEW r \in MemberId, Access!DestroyMember(h, r)
      PROVE  AccessInv'
  <2>1. /\ Access!BeginAt(h, r, "destroy", Access!NoRow)
        /\ owner[member[r].of[1]] # member[r].of[2]
    BY <1>3 DEF Access!DestroyMember, Access!BeginAt
  <2> QED BY <2>1, BeginKeeps
<1>4. ASSUME NEW h \in Handler, NEW r \in MemberId, Access!AddSave(h, r)
      PROVE  AccessInv'
  BY <1>4, AddSaveKeeps
<1>5. ASSUME NEW h \in Handler, Access!UpdateSave(h) \/ Access!DestroySave(h)
      PROVE  AccessInv'
  BY <1>5, UpdateKeeps, DestroyKeeps
<1>6. ASSUME NEW p \in Project, NEW u \in Person \cup {"nobody"},
             Access!SetOwner(p, u)
      PROVE  AccessInv'
  BY <1>6, OwnerKeeps
<1>7. ASSUME \/ \E a \in Asset, p \in Project : Access!Share(a, p)
             \/ \E p \in Project : Access!Revoke(p)
             \/ UNCHANGED accessVars
      PROVE  AccessInv'
  <2>1. UNCHANGED <<owner, member, accessHandler, removed, crossed, strayed>>
    BY <1>7 DEF Access!Share, Access!Revoke, accessVars
  <2> QED BY <2>1 DEF AccessInv, AccessTypes, PairsUnique, Access!MembersHeld,
         AloneAt, AtRow, Access!Holders
<1> QED BY <1>1, <1>2, <1>3, <1>4, <1>5, <1>6, <1>7 DEF Access!Next

\* A step of the system is one of the memberships.
LEMMA AccessSteps ==
    ASSUME part = "access", [Next]_vars
    PROVE  [Access!Next]_accessVars
BY DEF Next, vars, accessVars

\* A deleted membership does not come back unless two requests were at its
\* row; an owner who was a member stays one, unless a PATCH moved the row, the
\* owner was set during a request to remove the member, or two requests at the
\* row ended with its removal; and the rules of lists, single objects and
\* permission codes agree.
\* Code: ProjectMemberViewSet, ProjectViewSet; SmartRBACPermission,
\* DataScopeMixin.
AccessHeld == part = "access" => AccessInv
THEOREM AccessHolds == Spec => []AccessSound
<1>1. Init => AccessHeld
  BY AccessInit DEF Init, AccessHeld
<1>2. AccessHeld /\ [Next]_vars => AccessHeld'
  BY PartStays, AccessSteps, AccessStep DEF AccessHeld
<1>3. AccessHeld => AccessSound
  BY RulesHold DEF AccessHeld, AccessInv, AccessSound, Access!AccessSound
<1> QED BY <1>1, <1>2, <1>3, PTL DEF Spec

-----------------------------------------------------------------------------
RbacTypes ==
    /\ roles \in [User -> SUBSET RbacRole]
    /\ parents \in [RbacRole -> SUBSET RbacRole]
    /\ holds \in [RbacRole -> [Rbac!Kind -> BOOLEAN]] /\ active \in BOOLEAN
    /\ cached \in [User -> [Rbac!Kind -> Rbac!Cached]]
    /\ request \in [RoleRequest -> [pc : {"idle"}] \cup
          [pc : {"loaded"}, user : User, kind : Rbac!Kind, found :
              {"yes", "no"}]]
    /\ \A c \in untold : c.of \in SUBSET RbacRole
    /\ queued \in SUBSET User
    /\ refresher \in [Refresher -> [pc : {"idle"}] \cup
          [pc : {"loaded"}, user : User, perms : {"yes", "no"},
           menus : {"yes", "no"}]]
    /\ excused \in [User -> SUBSET {"refused", "deleted", "overtaken"}]
RbacInv == RbacTypes /\ Rbac!PermissionsFollow

-----------------------------------------------------------------------------
(* Inheritance.                                                            *)

\* A role is among its ancestors, which are closed under inheritance and are
\* the least such set.
LEMMA AncestorsClosed ==
    ASSUME NEW up \in [RbacRole -> SUBSET RbacRole], NEW r \in RbacRole
    PROVE  /\ Rbac!Ancestors(up, r) \subseteq RbacRole
           /\ r \in Rbac!Ancestors(up, r)
           /\ \A s \in Rbac!Ancestors(up, r) :
                  up[s] \subseteq Rbac!Ancestors(up, r)
           /\ \A S \in SUBSET RbacRole :
                 r \in S /\ (\A t \in S : up[t] \subseteq S) =>
                    Rbac!Ancestors(up, r) \subseteq S
<1>1. Rbac!Ancestors(up, r) \subseteq RbacRole /\ r \in Rbac!Ancestors(up, r)
  BY DEF Rbac!Ancestors
<1>2. ASSUME NEW s \in Rbac!Ancestors(up, r), NEW t \in up[s]
      PROVE  t \in Rbac!Ancestors(up, r)
  <2>1. s \in RbacRole /\ t \in RbacRole
    BY <1>1
  <2>2. ASSUME NEW S \in SUBSET RbacRole, r \in S, \A x \in S :
                   up[x] \subseteq S
        PROVE  t \in S
    <3>1. s \in S
      BY <2>2 DEF Rbac!Ancestors
    <3> QED BY <2>2, <3>1
  <2> QED BY <2>1, <2>2 DEF Rbac!Ancestors
<1>3. ASSUME NEW S \in SUBSET RbacRole, r \in S, \A t \in S : up[t] \subseteq S
      PROVE  Rbac!Ancestors(up, r) \subseteq S
  BY <1>3 DEF Rbac!Ancestors
<1> QED BY <1>1, <1>2, <1>3

\* Graphs that agree on the ancestors of a role give it the same ones.
LEMMA AncestorsSame ==
    ASSUME NEW up \in [RbacRole -> SUBSET RbacRole],
           NEW other \in [RbacRole -> SUBSET RbacRole],
           NEW r \in RbacRole, \A s \in Rbac!Ancestors(up, r) :
               other[s] = up[s]
    PROVE  Rbac!Ancestors(other, r) = Rbac!Ancestors(up, r)
<1> DEFINE A == Rbac!Ancestors(up, r)  B == Rbac!Ancestors(other, r)
<1>1. /\ A \in SUBSET RbacRole /\ r \in A
      /\ \A s \in A : up[s] \subseteq A
      /\ \A S \in SUBSET RbacRole :
            r \in S /\ (\A t \in S : up[t] \subseteq S) => A \subseteq S
  BY AncestorsClosed
<1>2. /\ B \in SUBSET RbacRole /\ r \in B
      /\ \A s \in B : other[s] \subseteq B
      /\ \A S \in SUBSET RbacRole :
            r \in S /\ (\A t \in S : other[t] \subseteq S) => B \subseteq S
  BY AncestorsClosed
<1>3. \A s \in A : other[s] = up[s]
  OBVIOUS
<1> HIDE DEF A, B
<1>4. B \subseteq A
  BY <1>1, <1>2, <1>3
<1>5. \A s \in B : up[s] \subseteq B
  BY <1>2, <1>3, <1>4
<1>6. A \subseteq B
  BY <1>1, <1>2, <1>5
<1>7. A = B
  BY <1>4, <1>6
<1> QED BY <1>7 DEF A, B

-----------------------------------------------------------------------------
(* Changes.                                                                *)

\* The roles a user gets something through.
Through(own, up, u) ==
    {s \in RbacRole : \E r \in own[u] : s \in Rbac!Ancestors(up, r)}

LEMMA Reached ==
    ASSUME NEW own \in [User -> SUBSET RbacRole],
           NEW up \in [RbacRole -> SUBSET RbacRole],
           NEW R \in SUBSET RbacRole, NEW u \in User
    PROVE  /\ u \in Rbac!Having(own, Rbac!Descendants(up, R))
                 <=> \E s \in Through(own, up, u) : s \in R
           /\ own[u] \subseteq Through(own, up, u)
<1>1. \A r \in own[u] : r \in RbacRole /\ r \in Rbac!Ancestors(up, r)
  BY AncestorsClosed
<1> QED BY <1>1 DEF Rbac!Having, Rbac!Descendants, Through

\* What a user gets, and whom a message will name, in these terms.
GivenThrough ==
    \A u \in User :
       /\ \A k : Rbac!Effective(u, k) =
             IF /\ k = "perms" => active
                /\ \E s \in Through(roles, parents, u) : holds[s][k]
             THEN "yes" ELSE "no"
       /\ \A c \in untold : u \in Rbac!Concerned(c) <=>
             \E s \in Through(roles, parents, u) :
                 IF c.kind = "perms" THEN holds[s]["perms"] ELSE s \in c.of
LEMMA Given1 == RbacTypes => GivenThrough
<1> SUFFICES ASSUME RbacTypes, NEW u \in User
             PROVE  /\ \A k : Rbac!Effective(u, k) =
                       IF /\ k = "perms" => active
                          /\ \E s \in Through(roles, parents, u) : holds[s][k]
                       THEN "yes" ELSE "no"
                    /\ \A c \in untold : u \in Rbac!Concerned(c) <=>
                          \E s \in Through(roles, parents, u) :
                             IF c.kind = "perms" THEN holds[s]["perms"]
                             ELSE s \in c.of
  BY DEF GivenThrough
<1>0. /\ roles \in [User -> SUBSET RbacRole]
      /\ parents \in [RbacRole -> SUBSET RbacRole]
  BY DEF RbacTypes
<1>1. \A r \in roles[u] : Rbac!Ancestors(parents, r) \subseteq RbacRole
  BY <1>0, AncestorsClosed
<1>2. \A k : (\E r \in roles[u] : \E s \in Rbac!Ancestors(parents, r) :
                 holds[s][k])
             <=> \E s \in Through(roles, parents, u) : holds[s][k]
  BY <1>1 DEF Through
<1>3. ASSUME NEW c \in untold
      PROVE  u \in Rbac!Concerned(c) <=>
                 \E s \in Through(roles, parents, u) :
                     IF c.kind = "perms" THEN holds[s]["perms"]
                     ELSE s \in c.of
  <2> DEFINE R == IF c.kind = "perms"
                  THEN {r \in RbacRole : holds[r]["perms"]} ELSE c.of
  <2>1. R \in SUBSET RbacRole
    BY DEF RbacTypes
  <2>2. u \in Rbac!Concerned(c)
           <=> \E s \in Through(roles, parents, u) : s \in R
    BY <1>0, <2>1, Reached DEF Rbac!Concerned
  <2> QED BY <2>2 DEF Through
<1> QED BY <1>2, <1>3 DEF Rbac!Effective
LEMMA GivenNext == RbacTypes' => GivenThrough'
BY Given1, PTL

\* A change that does not reach the user.
Calm(u) ==
    LET T == Through(roles, parents, u) IN
    /\ Through(roles', parents', u) = T
    /\ \A s \in T : holds'[s] = holds[s]
    /\ active' = active \/ \A s \in T : ~holds[s]["perms"]
LEMMA CalmKeeps ==
    ASSUME RbacTypes, RbacTypes', untold \subseteq untold',
           NEW u \in User, Calm(u)
    PROVE  /\ \A k : Rbac!Effective(u, k)' = Rbac!Effective(u, k)
           /\ \A c \in untold : u \in Rbac!Concerned(c)
                                  => (u \in Rbac!Concerned(c))'
<1> DEFINE T == Through(roles, parents, u)
<1>1. /\ \A k : Rbac!Effective(u, k) =
            IF (k = "perms" => active) /\ \E s \in T : holds[s][k]
            THEN "yes" ELSE "no"
      /\ \A c \in untold : u \in Rbac!Concerned(c) <=>
            \E s \in T : IF c.kind = "perms" THEN holds[s]["perms"]
                         ELSE s \in c.of
  BY Given1 DEF GivenThrough
<1>2. /\ \A k : Rbac!Effective(u, k)' =
            IF (k = "perms" => active') /\ \E s \in T' : holds'[s][k]
            THEN "yes" ELSE "no"
      /\ \A c \in untold' : (u \in Rbac!Concerned(c))' <=>
            \E s \in T' : IF c.kind = "perms" THEN holds'[s]["perms"]
                          ELSE s \in c.of
  BY GivenNext DEF GivenThrough
<1>3. T' = T /\ \A s \in T : holds'[s] = holds[s]
  BY DEF Calm
<1>4. active' = active \/ \A s \in T : ~holds[s]["perms"]
  BY DEF Calm
<1> HIDE DEF T
<1> QED BY <1>1, <1>2, <1>3, <1>4

\* What a step must do for the users it affects.
LEMMA ChangeKeeps ==
    ASSUME RbacTypes, RbacTypes', Rbac!PermissionsFollow,
           UNCHANGED <<cached, refresher>>,
           queued \subseteq queued', untold \subseteq untold',
           \A u \in User : excused'[u] = {} => excused[u] = {},
           \A u \in User : Rbac!Coming(u)' \/ excused'[u] # {} \/ Calm(u)
    PROVE  Rbac!PermissionsFollow'
<1> SUFFICES ASSUME NEW u \in User, excused'[u] = {}, ~Rbac!Coming(u)',
                    \A w \in Refresher : refresher'[w].pc = "loaded" =>
                                         refresher'[w].user # u,
                    NEW k \in Rbac!Refreshed
             PROVE  cached'[u][k] \in {"missing", Rbac!Effective(u, k)'}
  BY DEF Rbac!PermissionsFollow
<1>1. Calm(u)
  OBVIOUS
<1>2. /\ Rbac!Effective(u, k)' = Rbac!Effective(u, k)
      /\ \A c \in untold : u \in Rbac!Concerned(c)
                             => (u \in Rbac!Concerned(c))'
  BY <1>1, CalmKeeps
<1>3. ~Rbac!Coming(u)
  BY <1>2 DEF Rbac!Coming
<1>4. cached[u][k] \in {"missing", Rbac!Effective(u, k)}
  BY <1>3 DEF Rbac!PermissionsFollow
<1> QED BY <1>2, <1>4

\* A change and its message: everybody else is unaffected.
LEMMA DispatchKeeps ==
    ASSUME RbacInv, NEW users \in SUBSET User, Rbac!DispatchRefresh(users),
           roles' \in [User -> SUBSET RbacRole],
           parents' \in [RbacRole -> SUBSET RbacRole],
           holds' \in [RbacRole -> [Rbac!Kind -> BOOLEAN]],
           active' \in BOOLEAN,
           \A u \in User \ users : Calm(u)
    PROVE  RbacInv'
<1>1. /\ UNCHANGED <<cached, request, untold, refresher, excused>>
      /\ queued' = queued \cup users
  BY DEF Rbac!DispatchRefresh
<1>2. RbacTypes'
  BY <1>1 DEF RbacInv, RbacTypes
<1>3. \A u \in User : Rbac!Coming(u)' \/ Calm(u)
  BY <1>1 DEF Rbac!Coming
<1> QED BY <1>1, <1>2, <1>3, ChangeKeeps DEF RbacInv

\* A deletion nobody is told of: everybody affected is noted.
LEMMA DeletionKeeps ==
    ASSUME RbacInv, NEW R \in SUBSET RbacRole, excused' = Rbac!Unheard(R),
           UNCHANGED <<active, cached, request, untold, queued, refresher>>,
           roles' \in [User -> SUBSET RbacRole],
           parents' \in [RbacRole -> SUBSET RbacRole],
           holds' \in [RbacRole -> [Rbac!Kind -> BOOLEAN]],
           \A u \in User :
              u \notin Rbac!Having(roles, Rbac!Descendants(parents, R))
              => Calm(u)
    PROVE  RbacInv'
<1>1. /\ excused' \in [User -> SUBSET {"refused", "deleted", "overtaken"}]
      /\ \A u \in User : excused'[u] = {} => excused[u] = {}
      /\ \A u \in User : excused'[u] # {} \/ Calm(u)
  BY DEF RbacInv, RbacTypes, Rbac!Unheard
<1>2. RbacTypes'
  BY <1>1 DEF RbacInv, RbacTypes
<1> QED BY <1>1, <1>2, ChangeKeeps DEF RbacInv

LEMMA AssignKeeps ==
    ASSUME RbacInv, NEW u \in User, NEW R \in SUBSET RbacRole,
           Rbac!AssignRoles(u, R)
    PROVE  RbacInv'
<1>1. /\ roles' = [roles EXCEPT ![u] = R]
      /\ UNCHANGED <<parents, holds, active>>
      /\ Rbac!DispatchRefresh({u})
  BY DEF Rbac!AssignRoles
<1>2. \A v \in User \ {u} : roles'[v] = roles[v]
  BY <1>1 DEF RbacInv, RbacTypes
<1>3. \A v \in User \ {u} : Calm(v)
  BY <1>1, <1>2 DEF Calm, Through
<1> QED BY <1>1, <1>3, DispatchKeeps DEF RbacInv, RbacTypes

\* What only the role r holds changes.
LEMMA HoldsCalm ==
    ASSUME RbacInv, NEW r \in RbacRole, UNCHANGED <<roles, parents, active>>,
           \A s \in RbacRole \ {r} : holds'[s] = holds[s], NEW u \in User,
           u \notin Rbac!Having(roles, Rbac!Descendants(parents, {r}))
    PROVE  Calm(u)
<1>1. r \notin Through(roles, parents, u)
  BY Reached DEF RbacInv, RbacTypes
<1>2. Through(roles, parents, u) \subseteq RbacRole
  BY DEF Through
<1> QED BY <1>1, <1>2 DEF Calm, Through

LEMMA GrantKeeps ==
    ASSUME RbacInv, NEW r \in RbacRole, NEW k \in Rbac!Kind, Rbac!Grant(r, k)
    PROVE  RbacInv'
<1> DEFINE users == Rbac!Having(roles, Rbac!Descendants(parents, {r}))
<1>1. /\ holds' = [holds EXCEPT ![r][k] = ~@]
      /\ UNCHANGED <<roles, parents, active>>
      /\ Rbac!DispatchRefresh(users)
  BY DEF Rbac!Grant
<1>2. /\ \A s \in RbacRole \ {r} : holds'[s] = holds[s]
      /\ holds' \in [RbacRole -> [Rbac!Kind -> BOOLEAN]]
  BY <1>1 DEF RbacInv, RbacTypes
<1>3. \A u \in User \ users : Calm(u)
  BY <1>1, <1>2, HoldsCalm
<1>4. users \in SUBSET User
  BY DEF Rbac!Having
<1> HIDE DEF users
<1> QED BY <1>1, <1>2, <1>3, <1>4, DispatchKeeps DEF RbacInv, RbacTypes

LEMMA SetParentsKeeps ==
    ASSUME RbacInv, NEW r \in RbacRole, NEW s \in RbacRole,
           Rbac!SetParents(r, {s})
    PROVE  RbacInv'
<1> DEFINE users == Rbac!Having(roles, Rbac!Descendants(parents', {r}))
<1>0. /\ parents \in [RbacRole -> SUBSET RbacRole]
      /\ roles \in [User -> SUBSET RbacRole]
  BY DEF RbacInv, RbacTypes
<1>1. /\ parents' = [parents EXCEPT ![r] = {s}]
      /\ UNCHANGED <<roles, holds, active>>
      /\ Rbac!DispatchRefresh(users)
  BY DEF Rbac!SetParents
<1>2. /\ parents' \in [RbacRole -> SUBSET RbacRole]
      /\ \A t \in RbacRole \ {r} : parents'[t] = parents[t]
  BY <1>0, <1>1
<1>3. ASSUME NEW u \in User \ users PROVE Calm(u)
  <2>1. /\ r \notin Through(roles, parents', u)
        /\ roles[u] \subseteq RbacRole
    BY <1>0, <1>2, Reached
  <2>2. ASSUME NEW t \in roles[u]
        PROVE  Rbac!Ancestors(parents', t) = Rbac!Ancestors(parents, t)
    <3>1. /\ t \in RbacRole /\ Rbac!Ancestors(parents', t) \subseteq RbacRole
          /\ r \notin Rbac!Ancestors(parents', t)
      BY <1>2, <2>1, AncestorsClosed DEF Through
    <3>2. \A x \in Rbac!Ancestors(parents', t) : parents[x] = parents'[x]
      BY <1>2, <3>1
    <3> QED BY <1>0, <1>2, <3>1, <3>2, AncestorsSame
  <2> QED BY <1>1, <2>2 DEF Calm, Through
<1>4. users \in SUBSET User
  BY DEF Rbac!Having
<1> HIDE DEF users
<1> QED BY <1>1, <1>2, <1>3, <1>4, DispatchKeeps DEF RbacInv, RbacTypes

\* A save that is still to be announced to those it concerns.
LEMMA PolicyKeeps ==
    ASSUME RbacInv, NEW r \in RbacRole, NEW k \in Rbac!Kind,
           Rbac!UpdatePolicies(r, k)
    PROVE  RbacInv'
<1>1. PICK c : /\ c.kind = k /\ c.of = {r} /\ untold' = untold \cup {c}
               /\ k # "perms"
  BY DEF Rbac!UpdatePolicies, Rbac!Save, Rbac!Linked
<1>2. /\ holds' = [holds EXCEPT ![r][k] = ~@]
      /\ UNCHANGED <<active, roles, parents, cached, request, queued,
                     refresher, excused>>
  BY DEF Rbac!UpdatePolicies, Rbac!Save
<1>3. /\ \A s \in RbacRole \ {r} : holds'[s] = holds[s]
      /\ holds' \in [RbacRole -> [Rbac!Kind -> BOOLEAN]]
  BY <1>2 DEF RbacInv, RbacTypes
<1>4. RbacTypes'
  BY <1>1, <1>2, <1>3 DEF RbacInv, RbacTypes
<1>5. ASSUME NEW u \in User, ~Rbac!Coming(u)' PROVE Calm(u)
  <2>1. u \notin Rbac!Having(roles, Rbac!Descendants(parents, {r}))
    BY <1>1, <1>2, <1>5 DEF Rbac!Coming, Rbac!Concerned, Rbac!Having,
       Rbac!Descendants
  <2> QED BY <1>2, <1>3, <2>1, HoldsCalm
<1> QED BY <1>1, <1>2, <1>4, <1>5, ChangeKeeps DEF RbacInv

LEMMA SwitchKeeps ==
    ASSUME RbacInv, Rbac!SwitchPermission PROVE RbacInv'
<1>1. PICK c : /\ c.kind = "perms" /\ c.of = {}
               /\ untold' = untold \cup {c}
  BY DEF Rbac!SwitchPermission, Rbac!Save
<1>2. /\ active' = ~active
      /\ UNCHANGED <<holds, roles, parents, cached, request, queued,
                     refresher, excused>>
  BY DEF Rbac!SwitchPermission, Rbac!Save
<1>4. RbacTypes'
  BY <1>1, <1>2 DEF RbacInv, RbacTypes
<1>5. ASSUME NEW u \in User, ~Rbac!Coming(u)' PROVE Calm(u)
  <2> DEFINE H == {x \in RbacRole : holds[x]["perms"]}
  <2>1. u \notin Rbac!Having(roles, Rbac!Descendants(parents, H))
    BY <1>1, <1>2, <1>5 DEF Rbac!Coming, Rbac!Concerned, Rbac!Having,
       Rbac!Descendants
  <2>2. \A s \in Through(roles, parents, u) : s \notin H
    BY <2>1, Reached DEF RbacInv, RbacTypes
  <2> QED BY <1>2, <2>2 DEF Calm, Through
<1> QED BY <1>1, <1>2, <1>4, <1>5, ChangeKeeps DEF RbacInv

\* A message leaves for those it concerns, or they are noted.
LEMMA MessageKeeps ==
    ASSUME RbacInv, NEW c \in untold, Rbac!Announce(c) \/ Rbac!RefuseMessage(c)
    PROVE  RbacInv'
<1>1. /\ untold' = untold \ {c} /\ queued \subseteq queued'
      /\ UNCHANGED <<Rbac!rbac, cached, request, refresher>>
      /\ queued' \in SUBSET User
      /\ excused' \in [User -> SUBSET {"refused", "deleted", "overtaken"}]
      /\ \A u \in User : excused'[u] = {} => excused[u] = {}
      /\ \A u \in Rbac!Concerned(c) : u \in queued' \/ excused'[u] # {}
  <2>1. PICK users \in SUBSET User : users = Rbac!Concerned(c)
    BY DEF Rbac!Concerned, Rbac!Having
  <2>2. /\ queued \in SUBSET User
        /\ excused \in [User -> SUBSET {"refused", "deleted", "overtaken"}]
    BY DEF RbacInv, RbacTypes
  <2>3. /\ untold' = untold \ {c}
        /\ UNCHANGED <<Rbac!rbac, cached, request, refresher>>
    BY DEF Rbac!Announce, Rbac!RefuseMessage
  <2>4. \/ queued' = queued \cup users /\ UNCHANGED excused
        \/ /\ UNCHANGED queued
           /\ excused' = [u \in User |-> IF u \in users
                                         THEN excused[u] \cup {"refused"}
                                         ELSE excused[u]]
    BY <2>1 DEF Rbac!Announce, Rbac!RefuseMessage
  <2>5. /\ queued \subseteq queued' /\ queued' \in SUBSET User
        /\ excused' \in [User -> SUBSET {"refused", "deleted", "overtaken"}]
        /\ \A u \in User : excused'[u] = {} => excused[u] = {}
        /\ \A u \in users : u \in queued' \/ excused'[u] # {}
    BY <2>2, <2>4
  <2> QED BY <2>1, <2>3, <2>5
<1>2. RbacTypes'
  BY <1>1 DEF RbacInv, RbacTypes, Rbac!rbac
<1>3. Rbac!PermissionsFollow'
  <2> SUFFICES ASSUME NEW u \in User, excused'[u] = {}, ~Rbac!Coming(u)',
                      \A w \in Refresher : refresher'[w].pc = "loaded" =>
                                           refresher'[w].user # u,
                      NEW k \in Rbac!Refreshed
               PROVE  cached'[u][k] \in {"missing", Rbac!Effective(u, k)'}
    BY DEF Rbac!PermissionsFollow
  <2>1. u \notin queued' /\ u \notin Rbac!Concerned(c)
    BY <1>1 DEF Rbac!Coming
  <2>2. \A d : (u \in Rbac!Concerned(d))' <=> u \in Rbac!Concerned(d)
    BY <1>1 DEF Rbac!Concerned, Rbac!rbac, Rbac!Having, Rbac!Descendants
  <2>3. ~Rbac!Coming(u)
    BY <1>1, <2>1, <2>2 DEF Rbac!Coming
  <2>4. cached[u][k] \in {"missing", Rbac!Effective(u, k)}
    BY <1>1, <2>3 DEF RbacInv, Rbac!PermissionsFollow
  <2> QED BY <1>1, <2>4 DEF Rbac!Effective, Rbac!rbac
<1> QED BY <1>2, <1>3 DEF RbacInv

LEMMA DestroyRoleKeeps ==
    ASSUME RbacInv, NEW r \in RbacRole, Rbac!DestroyRole(r) PROVE RbacInv'
<1>0. /\ parents \in [RbacRole -> SUBSET RbacRole]
      /\ roles \in [User -> SUBSET RbacRole]
  BY DEF RbacInv, RbacTypes
<1>1. /\ roles' = [u \in User |-> roles[u] \ {r}]
      /\ parents' =
             [s \in RbacRole |-> IF s = r THEN {} ELSE parents[s] \ {r}]
      /\ holds' = [holds EXCEPT ![r] = [k \in Rbac!Kind |-> FALSE]]
      /\ excused' = Rbac!Unheard({r})
      /\ UNCHANGED <<active, cached, request, untold, queued, refresher>>
  BY DEF Rbac!DestroyRole
<1>2. /\ parents' \in [RbacRole -> SUBSET RbacRole]
      /\ roles' \in [User -> SUBSET RbacRole]
      /\ holds' \in [RbacRole -> [Rbac!Kind -> BOOLEAN]]
      /\ \A s \in RbacRole \ {r} : holds'[s] = holds[s]
  BY <1>1 DEF RbacInv, RbacTypes
<1>3. ASSUME NEW u \in User,
             u \notin Rbac!Having(roles, Rbac!Descendants(parents, {r}))
      PROVE  Calm(u)
  <2>1. /\ r \notin Through(roles, parents, u)
        /\ roles[u] \subseteq Through(roles, parents, u)
    BY <1>0, <1>3, Reached
  <2>2. roles'[u] = roles[u]
    BY <1>1, <2>1
  <2>3. ASSUME NEW t \in roles[u]
        PROVE  Rbac!Ancestors(parents', t) = Rbac!Ancestors(parents, t)
    <3>1. t \in RbacRole /\ r \notin Rbac!Ancestors(parents, t)
      BY <1>0, <2>1 DEF Through
    <3>2. \A x \in Rbac!Ancestors(parents, t) :
             /\ x \in RbacRole
             /\ parents[x] \subseteq Rbac!Ancestors(parents, t)
      BY <1>0, <3>1, AncestorsClosed
    <3>3. \A x \in Rbac!Ancestors(parents, t) : parents'[x] = parents[x]
      BY <1>0, <1>1, <3>1, <3>2
    <3> QED BY <1>0, <1>2, <3>1, <3>3, AncestorsSame
  <2>4. \A s \in Through(roles, parents, u) : holds'[s] = holds[s]
    BY <1>2, <2>1 DEF Through
  <2> QED BY <1>1, <2>2, <2>3, <2>4 DEF Calm, Through
<1> QED BY <1>1, <1>2, <1>3, DeletionKeeps

LEMMA DestroyItemKeeps ==
    ASSUME RbacInv, NEW k \in Rbac!Kind, Rbac!DestroyItem(k) PROVE RbacInv'
<1> DEFINE H == {r \in RbacRole : holds[r][k]}
<1>1. /\ holds' = [r \in RbacRole |-> [holds[r] EXCEPT ![k] = FALSE]]
      /\ excused' = Rbac!Unheard(H)
      /\ UNCHANGED <<roles, parents, active, cached, request, untold, queued,
             refresher>>
  BY DEF Rbac!DestroyItem
<1>2. /\ holds' \in [RbacRole -> [Rbac!Kind -> BOOLEAN]]
      /\ \A s \in RbacRole : ~holds[s][k] => holds'[s] = holds[s]
  BY <1>1 DEF RbacInv, RbacTypes
<1>3. ASSUME NEW u \in User,
             u \notin Rbac!Having(roles, Rbac!Descendants(parents, H))
      PROVE  Calm(u)
  <2>1. \A s \in Through(roles, parents, u) : s \in RbacRole /\ ~holds[s][k]
    BY <1>3, Reached DEF RbacInv, RbacTypes, Through
  <2> QED BY <1>1, <1>2, <2>1 DEF Calm, Through
<1> QED BY <1>1, <1>2, <1>3, DeletionKeeps DEF RbacInv, RbacTypes

\* Steps that change neither the roles nor what is announced.
LEMMA RestKeeps ==
    ASSUME UNCHANGED <<Rbac!rbac, untold>>
    PROVE  \A u : /\ \A k : Rbac!Effective(u, k)' = Rbac!Effective(u, k)
                  /\ queued' = queued => Rbac!Coming(u)' = Rbac!Coming(u)
                  /\ \A v : queued' = queued \ {v} /\ u # v
                                => Rbac!Coming(u)' = Rbac!Coming(u)
<1>1. \A c : Rbac!Concerned(c)' = Rbac!Concerned(c)
  BY DEF Rbac!Concerned, Rbac!rbac, Rbac!Having, Rbac!Descendants
<1>2. \A u, k : Rbac!Effective(u, k)' = Rbac!Effective(u, k)
  BY DEF Rbac!Effective, Rbac!rbac
<1> QED BY <1>1, <1>2 DEF Rbac!Coming

LEMMA RequestKeeps ==
    ASSUME RbacInv, NEW q \in RoleRequest, NEW u \in User, NEW k \in Rbac!Kind,
           Rbac!RequestLoad(q, u, k)
    PROVE  RbacInv'
<1>1. /\ request' = [request EXCEPT ![q] =
                   [pc |-> "loaded", user |-> u, kind |-> k,
                    found |-> Rbac!Effective(u, k)]]
      /\ UNCHANGED <<Rbac!rbac, cached, untold, queued, refresher, excused>>
  BY DEF Rbac!RequestLoad
<1>2. Rbac!Effective(u, k) \in {"yes", "no"}
  BY DEF Rbac!Effective
<1>3. RbacTypes'
  BY <1>1, <1>2 DEF RbacInv, RbacTypes, Rbac!rbac
<1>4. \A v \in User : Calm(v)
  BY <1>1 DEF Calm, Through, Rbac!rbac
<1> QED BY <1>1, <1>3, <1>4, ChangeKeeps DEF RbacInv

LEMMA FillKeeps ==
    ASSUME RbacInv, NEW q \in RoleRequest, Rbac!RequestFill(q) PROVE RbacInv'
<1> USE DEF RbacInv
<1> DEFINE u == request[q].user  k == request[q].kind
           found == request[q].found
           stale == k \in Rbac!Refreshed /\ found # Rbac!Effective(u, k)
<1>1. /\ request[q].pc = "loaded"
      /\ cached' = [cached EXCEPT ![u][k] = found]
      /\ excused' = Rbac!Overtaken(u, stale)
      /\ request' = [request EXCEPT ![q] = Rbac!Idle]
      /\ UNCHANGED <<Rbac!rbac, untold, queued, refresher>>
  BY DEF Rbac!RequestFill
<1>2. u \in User /\ k \in Rbac!Kind /\ found \in {"yes", "no"}
  BY <1>1 DEF RbacTypes
<1> HIDE DEF u, k, found
<1>3. /\ excused' \in [User -> SUBSET {"refused", "deleted", "overtaken"}]
      /\ \A v \in User : excused'[v] = {} => excused[v] = {}
      /\ stale /\ ~Rbac!Coming(u) => excused'[u] # {}
  <2> HIDE DEF stale
  <2> QED BY <1>1, <1>2 DEF RbacTypes, Rbac!Overtaken
<1>4. RbacTypes'
  BY <1>1, <1>2, <1>3 DEF RbacTypes, Rbac!rbac, Rbac!Idle, Rbac!Cached
<1>5. Rbac!PermissionsFollow'
  <2> SUFFICES ASSUME NEW v \in User, excused'[v] = {}, ~Rbac!Coming(v)',
                      \A w \in Refresher : refresher'[w].pc = "loaded" =>
                                           refresher'[w].user # v,
                      NEW j \in Rbac!Refreshed
               PROVE  cached'[v][j] \in {"missing", Rbac!Effective(v, j)'}
    BY DEF Rbac!PermissionsFollow
  <2>1. /\ Rbac!Effective(v, j)' = Rbac!Effective(v, j)
        /\ ~Rbac!Coming(v)
    BY <1>1, RestKeeps
  <2>2. cached[v][j] \in {"missing", Rbac!Effective(v, j)}
    BY <1>1, <1>3, <2>1 DEF Rbac!PermissionsFollow
  <2>3. j \in Rbac!Kind
    BY DEF Rbac!Kind
  <2>4. cached'[v][j] = IF v = u /\ j = k THEN found ELSE cached[v][j]
    BY <1>1, <1>2, <2>3 DEF RbacTypes
  <2> QED BY <1>3, <2>1, <2>2, <2>4
<1> QED BY <1>4, <1>5

LEMMA ExpireKeeps ==
    ASSUME RbacInv, NEW u \in User, NEW k \in Rbac!Kind,
           Rbac!ExpireEntry(u, k)
    PROVE  RbacInv'
<1> USE DEF RbacInv
<1>1. /\ cached' = [cached EXCEPT ![u][k] = "missing"]
      /\ UNCHANGED <<Rbac!rbac, request, untold, queued, refresher, excused>>
  BY DEF Rbac!ExpireEntry
<1>2. \A v \in User, j \in Rbac!Kind :
         cached'[v][j] = IF v = u /\ j = k THEN "missing" ELSE cached[v][j]
  BY <1>1 DEF RbacTypes
<1>3. cached' \in [User -> [Rbac!Kind -> Rbac!Cached]]
  BY <1>1 DEF RbacTypes, Rbac!Cached
<1>4. RbacTypes'
  BY <1>1, <1>3 DEF RbacTypes, Rbac!rbac
<1>5. \A v : /\ \A j : Rbac!Effective(v, j)' = Rbac!Effective(v, j)
             /\ Rbac!Coming(v)' = Rbac!Coming(v)
  BY <1>1, RestKeeps
<1>6. Rbac!PermissionsFollow'
  BY <1>1, <1>2, <1>5 DEF Rbac!PermissionsFollow, Rbac!Kind
<1> QED BY <1>4, <1>6

LEMMA RefreshLoadKeeps ==
    ASSUME RbacInv, NEW w \in Refresher, NEW u \in User,
           Rbac!RefreshLoad(w, u)
    PROVE  RbacInv'
<1> USE DEF RbacInv
<1>1. /\ queued' = queued \ {u}
      /\ refresher' = [refresher EXCEPT ![w] =
                     [pc |-> "loaded", user |-> u,
                      perms |-> Rbac!Effective(u, "perms"),
                      menus |-> Rbac!Effective(u, "menus")]]
      /\ refresher[w].pc = "idle"
      /\ UNCHANGED <<Rbac!rbac, cached, request, untold, excused>>
  BY DEF Rbac!RefreshLoad
<1>2. \A k : Rbac!Effective(u, k) \in {"yes", "no"}
  BY DEF Rbac!Effective
<1>3. RbacTypes'
  BY <1>1, <1>2 DEF RbacTypes, Rbac!rbac
<1>4. /\ refresher'[w].pc = "loaded" /\ refresher'[w].user = u
      /\ \A x \in Refresher \ {w} : refresher'[x] = refresher[x]
  BY <1>1 DEF RbacTypes
<1>5. Rbac!PermissionsFollow'
  <2> SUFFICES ASSUME NEW v \in User, excused'[v] = {}, ~Rbac!Coming(v)',
                      \A x \in Refresher : refresher'[x].pc = "loaded" =>
                                           refresher'[x].user # v,
                      NEW j \in Rbac!Refreshed
               PROVE  cached'[v][j] \in {"missing", Rbac!Effective(v, j)'}
    BY DEF Rbac!PermissionsFollow
  <2>1. v # u /\ excused[v] = {}
    BY <1>1, <1>4
  <2>2. \A x \in Refresher : refresher[x].pc = "loaded" =>
                             refresher[x].user # v
    BY <1>1, <1>4
  <2>3. /\ Rbac!Effective(v, j)' = Rbac!Effective(v, j)
        /\ ~Rbac!Coming(v)
    BY <1>1, <2>1, RestKeeps
  <2>4. cached[v][j] \in {"missing", Rbac!Effective(v, j)}
    BY <2>1, <2>2, <2>3 DEF Rbac!PermissionsFollow
  <2> QED BY <1>1, <2>3, <2>4
<1> QED BY <1>3, <1>5

LEMMA RefreshStoreKeeps ==
    ASSUME RbacInv, NEW w \in Refresher, Rbac!RefreshStore(w) PROVE RbacInv'
<1> USE DEF RbacInv
<1> DEFINE mine == refresher[w]  u == mine.user
           stale == \/ mine.perms # Rbac!Effective(u, "perms")
                    \/ mine.menus # Rbac!Effective(u, "menus")
<1>1. /\ mine.pc = "loaded"
      /\ cached' = [cached EXCEPT ![u].perms = mine.perms,
                                  ![u].menus = mine.menus,
                                  ![u].scope = "missing"]
      /\ excused' = Rbac!Overtaken(u, stale)
      /\ refresher' = [refresher EXCEPT ![w] = Rbac!Idle]
      /\ UNCHANGED <<Rbac!rbac, request, untold, queued>>
  BY DEF Rbac!RefreshStore
<1>2. u \in User /\ mine.perms \in {"yes", "no"}
          /\ mine.menus \in {"yes", "no"}
  BY <1>1 DEF RbacTypes
<1>3. /\ excused' \in [User -> SUBSET {"refused", "deleted", "overtaken"}]
      /\ \A v \in User : excused'[v] = {} => excused[v] = {}
      /\ stale /\ ~Rbac!Coming(u) => excused'[u] # {}
  <2> HIDE DEF u, stale
  <2> QED BY <1>1, <1>2 DEF RbacTypes, Rbac!Overtaken
<1>4. /\ cached' \in [User -> [Rbac!Kind -> Rbac!Cached]]
      /\ cached'[u]["perms"] = mine.perms /\ cached'[u]["menus"] = mine.menus
      /\ cached'[u]["scope"] = "missing"
      /\ \A v \in User \ {u} : cached'[v] = cached[v]
  <2>1. PICK a, b : a = mine.perms /\ b = mine.menus
    OBVIOUS
  <2>2. cached' = [cached EXCEPT ![u].perms = a, ![u].menus = b,
                                 ![u].scope = "missing"]
    BY <1>1, <2>1
  <2>3. {"perms", "menus", "scope"} \subseteq Rbac!Kind
        /\ {a, b, "missing"} \subseteq Rbac!Cached
    BY <1>2, <2>1 DEF Rbac!Kind, Rbac!Refreshed, Rbac!Cached
  <2> DEFINE new == [cached[u] EXCEPT !.perms = a, !.menus = b,
                                      !.scope = "missing"]
  <2>4. cached[u] \in [Rbac!Kind -> Rbac!Cached]
    BY <1>2 DEF RbacTypes
  <2>5. /\ new \in [Rbac!Kind -> Rbac!Cached]
        /\ new["perms"] = a /\ new["menus"] = b /\ new["scope"] = "missing"
    <3> HIDE DEF u
    <3> QED BY <2>3, <2>4
  <2>6. cached' = [cached EXCEPT ![u] = new]
    <3> HIDE DEF u
    <3> QED BY <1>2, <2>2, <2>4 DEF RbacTypes
  <2> HIDE DEF u, new
  <2>7. /\ cached' \in [User -> [Rbac!Kind -> Rbac!Cached]]
        /\ cached'[u] = new
        /\ \A v \in User \ {u} : cached'[v] = cached[v]
    BY <1>2, <2>5, <2>6 DEF RbacTypes
  <2> QED BY <2>1, <2>5, <2>7
<1>5. /\ refresher'[w].pc = "idle"
      /\ \A x \in Refresher \ {w} : refresher'[x] = refresher[x]
  BY <1>1 DEF RbacTypes, Rbac!Idle
<1>6. RbacTypes'
  BY <1>1, <1>3, <1>4 DEF RbacTypes, Rbac!rbac, Rbac!Idle
<1>7. Rbac!PermissionsFollow'
  <2> SUFFICES ASSUME NEW v \in User, excused'[v] = {}, ~Rbac!Coming(v)',
                      \A x \in Refresher : refresher'[x].pc = "loaded" =>
                                           refresher'[x].user # v,
                      NEW j \in Rbac!Refreshed
               PROVE  cached'[v][j] \in {"missing", Rbac!Effective(v, j)'}
    BY DEF Rbac!PermissionsFollow
  <2>1. /\ \A i : Rbac!Effective(v, i)' = Rbac!Effective(v, i)
        /\ ~Rbac!Coming(v)
    BY <1>1, RestKeeps
  <2>2. CASE v = u
    <3>1. ~stale
      BY <1>1, <1>3, <2>1, <2>2
    <3>2. mine.perms = Rbac!Effective(u, "perms")
              /\ mine.menus = Rbac!Effective(u, "menus")
      BY <3>1
    <3> HIDE DEF mine, u
    <3>3. j = "perms" \/ j = "menus" \/ j = "scope"
      BY DEF Rbac!Refreshed
    <3> QED BY <1>4, <2>1, <2>2, <3>2, <3>3
  <2>3. CASE v # u
    <3>1. \A x \in Refresher : refresher[x].pc = "loaded" =>
                               refresher[x].user # v
      BY <1>5, <2>3
    <3>2. cached[v][j] \in {"missing", Rbac!Effective(v, j)}
      BY <1>1, <1>3, <2>1, <3>1 DEF Rbac!PermissionsFollow
    <3> QED BY <1>4, <2>1, <2>3, <3>2
  <2> QED BY <2>2, <2>3
<1> QED BY <1>6, <1>7

\* Every change of roles, every request and every refresh.
LEMMA RbacStep == RbacInv /\ [Rbac!Next]_rbacVars => RbacInv'
<1> SUFFICES ASSUME RbacInv, [Rbac!Next]_rbacVars PROVE RbacInv'
  OBVIOUS
<1>1. CASE UNCHANGED rbacVars
  <2>1. RbacTypes' /\ \A u \in User : Calm(u)
    BY <1>1 DEF rbacVars, RbacInv, RbacTypes, Calm, Through
  <2> QED BY <1>1, <2>1, ChangeKeeps DEF rbacVars, RbacInv
<1>2. CASE Rbac!Next
  BY <1>2, AssignKeeps, GrantKeeps, SetParentsKeeps, PolicyKeeps, SwitchKeeps,
     MessageKeeps, DestroyRoleKeeps, DestroyItemKeeps, RequestKeeps, FillKeeps,
     ExpireKeeps, RefreshLoadKeeps, RefreshStoreKeeps DEF Rbac!Next
<1> QED BY <1>1, <1>2

\* Nothing is cached.
LEMMA RbacInit == Rbac!Init => RbacInv
<1> SUFFICES ASSUME Rbac!Init PROVE RbacInv
  OBVIOUS
<1>1. RbacTypes
  BY DEF Rbac!Init, RbacTypes, Rbac!Idle, Rbac!Cached
<1>2. Rbac!PermissionsFollow
  BY DEF Rbac!Init, Rbac!PermissionsFollow, Rbac!Kind
<1> QED BY <1>1, <1>2 DEF RbacInv

\* A step of the system is one of the permission cache.
LEMMA RbacSteps ==
    ASSUME part = "rbac", [Next]_vars
    PROVE  [Rbac!Next]_rbacVars
BY DEF Next, vars, rbacVars

\* What is cached for a user is what their roles give, or a refresh is on its
\* way, or one of the named exceptions applies.
\* Code: signals.py, tasks.py and the middleware of rbac_permission.
RbacHeld == part = "rbac" => RbacInv
THEOREM CacheFollows == Spec => []PermissionsFollow
<1>1. Init => RbacHeld
  BY RbacInit DEF Init, RbacHeld
<1>2. RbacHeld /\ [Next]_vars => RbacHeld'
  BY PartStays, RbacSteps, RbacStep DEF RbacHeld
<1>3. RbacHeld => PermissionsFollow
  BY DEF RbacInv, RbacHeld, PermissionsFollow
<1> QED BY <1>1, <1>2, <1>3, PTL DEF Spec

-----------------------------------------------------------------------------
(* Accounts and the identities they are signed in with.                    *)

\* What the fields of an account, a request and a token may hold.
Given == Identity \cup {Login!NoIdentity}
Account(x) == \E N :
    x \in [name : N, type : Provider \cup {"password"}, active : BOOLEAN,
          identity : [Provider -> Given]]
Visit(q) ==
    /\ \E N :
          q \in [pc : {"idle", "find", "name", "create", "enter"},
                provider : Provider \cup {Login!NoIdentity},
                identity : Given, keep : BOOLEAN, user : Nat, name : N]
    /\ q.pc = "idle" => q = Login!Quiet
    /\ q.pc # "idle" => q.provider \in Provider /\ q.identity \in Identity
    /\ q.pc = "enter" => q.user \in Login!Ids
Token(x) ==
    x # Login!NoToken =>
       /\ x.user \in Login!Ids
       /\ x.provider # Login!NoIdentity =>
             x.provider \in Provider /\ x.identity \in Identity
AccountTypes ==
    /\ \E n \in Nat : Login!Ids = 1..n
    /\ user = [u \in Login!Ids |-> user[u]]
    /\ \A u \in Login!Ids : Account(user[u])
    /\ session = [s \in Session |-> session[s]]
    /\ cookie = [s \in Session |-> cookie[s]]
    /\ access = [s \in Session |-> access[s]]
    /\ \A s \in Session :
          Visit(session[s]) /\ Token(cookie[s]) /\ Token(access[s])

\* Names are taken once, and an identity is given twice only by first logins
\* that met.
NamesOnce ==
    \A u, v \in Login!Ids : user[u].name = user[v].name => u = v
HeldOnce ==
    \A u, v \in Login!Ids, p \in Provider, i \in Identity :
        /\ user[u].identity[p] = i /\ user[v].identity[p] = i
        /\ u # v
        => p \notin Unique /\ <<p, i>> \in overlapped

\* A first login is the only one of its identity, which has no account yet,
\* or it is noted that two have met.
FirstLogins ==
    /\ \A p \in Provider, i \in Identity :
          \A s, t \in Login!Looking(p, i) : s = t \/ <<p, i>> \in overlapped
    /\ \A s \in Session :
          session[s].pc \in {"name", "create"} =>
             \/ session[s].provider \in Unique
             \/ Login!Holders(session[s].provider, session[s].identity) = {}
             \/ <<session[s].provider, session[s].identity>> \in overlapped

\* Whoever has an identity has the type of its provider.
TypesTrue ==
    \A u \in Login!Ids, p \in Provider :
        user[u].identity[p] # Login!NoIdentity => user[u].type = p

\* What a request or a token says of an account is so.
Holds(x) == \/ x.provider = Login!NoIdentity
            \/ user[x.user].identity[x.provider] = x.identity
TokensTrue ==
    \A s \in Session : /\ Holds(cookie[s]) /\ Holds(access[s])
                       /\ session[s].pc = "enter" => Holds(session[s])

AccountInv == AccountTypes /\ NamesOnce /\ HeldOnce /\ TypesTrue
    /\ FirstLogins /\ TokensTrue

-----------------------------------------------------------------------------
\* The size the accounts module counts with is the library's.
LEMMA AccountCount == \A S : Login!Cardinality(S) = Cardinality(S)
  BY DEF Login!Cardinality, Cardinality

LEMMA AccountInit == Login!Init => AccountInv
<1> SUFFICES ASSUME Login!Init PROVE AccountInv
  OBVIOUS
<1> USE AccountNames DEF Login!Init
<1>1. PICK table \in [1..Cardinality(Password) -> Password] :
          /\ \A i, j \in DOMAIN table : table[i] = table[j] => i = j
          /\ user = [i \in DOMAIN table |-> Login!Bare(<<table[i], 0>>)]
  BY AccountCount
<1>2. Cardinality(Password) \in Nat
  BY FS_CardinalityType
<1>3. Login!Ids = 1..Cardinality(Password)
  BY <1>1 DEF Login!Ids
<1>4. \A u \in Login!Ids :
          /\ Account(user[u]) /\ user[u].name = <<table[u], 0>>
          /\ \A p \in Provider :
                user[u].identity[p] = Login!NoIdentity
  BY <1>1, <1>3 DEF Account, Login!Bare, Given
<1>5. \A s \in Session : /\ Visit(session[s]) /\ Token(cookie[s])
                         /\ Token(access[s]) /\ session[s].pc = "idle"
  BY DEF Visit, Token, Login!Quiet, Given, Login!None
<1>6. AccountTypes
  BY <1>1, <1>2, <1>3, <1>4, <1>5 DEF AccountTypes
<1>7. NamesOnce
  <2>1. ASSUME NEW u \in Login!Ids, NEW v \in Login!Ids,
               user[u].name = user[v].name
        PROVE  u = v
    <3>1. <<table[u], 0>> = <<table[v], 0>>
      BY <2>1, <1>4
    <3>2. u \in DOMAIN table /\ v \in DOMAIN table /\ table[u] = table[v]
      BY <1>1, <1>3, <3>1
    <3> QED BY <1>1, <3>2
  <2> QED BY <2>1 DEF NamesOnce
<1>8. HeldOnce /\ TypesTrue
  BY <1>4 DEF HeldOnce, TypesTrue
<1>9. FirstLogins
  BY <1>5 DEF FirstLogins, Login!Looking
<1>10. TokensTrue
  BY <1>5 DEF TokensTrue, Holds, Login!NoToken
<1> QED BY <1>6, <1>7, <1>8, <1>9, <1>10 DEF AccountInv

\* What a change of an account must leave: ids stay, with their identities.
Kept ==
    /\ Login!Ids \subseteq Login!Ids'
    /\ \A u \in Login!Ids, p \in Provider :
          user'[u].identity[p] = user[u].identity[p]
LEMMA UserSame == UNCHANGED user => Kept
BY DEF Kept, Login!Ids

LEMMA TokenKept == Kept => \A x : Token(x) /\ Holds(x) =>
    Token(x)' /\ Holds(x)'
BY DEF Kept, Token, Holds, Login!NoToken
LEMMA VisitKept ==
    ASSUME Kept, NEW q, Visit(q)
    PROVE  Visit(q)' /\ (q.pc = "enter" /\ Holds(q) => Holds(q)')
BY DEF Kept, Visit, Holds

\* A step of one request that leaves the cookies and accounts alone.
LEMMA VisitStep ==
    ASSUME AccountInv, NEW s \in Session, NEW q, NEW p, NEW i,
           session' = [session EXCEPT ![s] = q], Visit(q),
           q.provider = p, q.identity = i,
           UNCHANGED <<user, cookie, access>>,
           overlapped \subseteq overlapped',
           q.pc = "enter" => Holds(q),
           q.pc \in {"find", "name", "create"} =>
              \A t \in Login!Looking(p, i) : t = s \/ <<p, i>> \in overlapped',
           q.pc \in {"name", "create"} =>
              p \in Unique \/ Login!Holders(p, i) = {}
                  \/ <<p, i>> \in overlapped'
    PROVE  AccountInv'
<1> USE DEF AccountInv
<1>1. Kept
  BY UserSame
<1>2. /\ session' = [t \in Session |-> session'[t]] /\ session'[s] = q
      /\ \A t \in Session \ {s} : session'[t] = session[t]
  BY DEF AccountTypes
<1>3. \A t \in Session : Visit(session[t])'
  <2>1. Visit(q)'
    BY <1>1, VisitKept
  <2>2. ASSUME NEW t \in Session \ {s} PROVE Visit(session[t])'
    BY <1>1, <1>2 DEF AccountTypes, Visit, Kept
  <2> QED BY <1>2, <2>1, <2>2 DEF Visit
<1>4. \A t \in Session : Token(cookie[t])' /\ Token(access[t])'
  BY <1>1 DEF AccountTypes, Token, Kept
<1>5. /\ \E n \in Nat : Login!Ids' = 1..n
      /\ user' = [u \in Login!Ids' |-> user'[u]]
      /\ \A u \in Login!Ids' : Account(user[u])'
  BY DEF AccountTypes, Login!Ids, Account
<1>51. AccountTypes'
  BY <1>2, <1>3, <1>4, <1>5 DEF AccountTypes
<1>6. NamesOnce' /\ HeldOnce' /\ TypesTrue'
  BY DEF NamesOnce, HeldOnce, TypesTrue, Login!Ids
<1>7. FirstLogins'
  <2>1. ASSUME NEW a \in Provider, NEW b \in Identity,
               NEW t \in Login!Looking(a, b)', NEW o \in Login!Looking(a, b)'
        PROVE  t = o \/ <<a, b>> \in overlapped'
    BY <1>2 DEF FirstLogins, Login!Looking
  <2>2. ASSUME NEW t \in Session, (session[t].pc \in {"name", "create"})'
        PROVE  (\/ session[t].provider \in Unique
                \/ Login!Holders(session[t].provider, session[t].identity) = {}
                \/ <<session[t].provider, session[t].identity>>
                       \in overlapped)'
    BY <1>2, <2>2 DEF FirstLogins, Login!Holders, Login!Ids
  <2> QED BY <2>1, <2>2 DEF FirstLogins
<1>8. TokensTrue'
  BY <1>2 DEF TokensTrue, Holds
<1> QED BY <1>51, <1>6, <1>7, <1>8

\* A step that ends a request or lets it in, with the accounts it changes.
AccountRows ==
    /\ \E n \in Nat : Login!Ids = 1..n
    /\ user = [u \in Login!Ids |-> user[u]]
    /\ \A u \in Login!Ids : Account(user[u])
Settled(s) ==
    \/ session[s] = Login!Quiet
    \/ session[s].pc = "enter" /\ Visit(session[s]) /\ Holds(session[s])
LEMMA AccountStep ==
    ASSUME AccountInv, Kept, AccountRows', NamesOnce', HeldOnce', TypesTrue',
           \A p \in Provider \ Unique, i \in Identity :
              Login!Holders(p, i) = {} /\ Login!Holders(p, i)' # {} =>
                 \A t \in Login!Looking(p, i) : \/ session'[t] # session[t]
                                         \/ <<p, i>> \in overlapped,
           session' = [t \in Session |-> session'[t]],
           \A t \in Session : session'[t] = session[t] \/ Settled(t)',
           cookie' = [t \in Session |-> cookie'[t]],
           access' = [t \in Session |-> access'[t]],
           \A t \in Session :
              /\ cookie'[t] = cookie[t]
                     \/ (Token(cookie[t]) /\ Holds(cookie[t]))'
              /\ access'[t] = access[t]
                     \/ (Token(access[t]) /\ Holds(access[t]))',
           UNCHANGED overlapped
    PROVE  AccountInv'
<1> USE DEF AccountInv
<1>2. \A t \in Session : Visit(session[t])'
  <2>1. Visit(Login!Quiet)'
    BY DEF Visit, Login!Quiet, Given, Login!None
  <2>2. ASSUME NEW t \in Session, session'[t] = session[t]
        PROVE  Visit(session[t])'
    BY <2>2 DEF AccountTypes, Visit, Kept
  <2> QED BY <2>1, <2>2 DEF Visit, Settled
<1>3. \A t \in Session : Token(cookie[t])' /\ Token(access[t])'
  BY DEF AccountTypes, Token, Kept
<1>4. AccountTypes'
  BY <1>2, <1>3 DEF AccountTypes, AccountRows
<1>5. FirstLogins'
  <2>1. ASSUME NEW p \in Provider, NEW i \in Identity,
               NEW t \in Login!Looking(p, i)', NEW o \in Login!Looking(p, i)'
        PROVE  t = o \/ <<p, i>> \in overlapped'
    BY DEF FirstLogins, Login!Looking, Settled, Login!Quiet
  <2>2. ASSUME NEW t \in Session, (session[t].pc \in {"name", "create"})'
        PROVE  (\/ session[t].provider \in Unique
                \/ Login!Holders(session[t].provider, session[t].identity) = {}
                \/ <<session[t].provider, session[t].identity>>
                       \in overlapped)'
    <3>1. session'[t] = session[t]
      BY <2>2 DEF Settled, Login!Quiet
    <3> DEFINE p == session[t].provider  i == session[t].identity
    <3>2. /\ p \in Provider /\ i \in Identity /\ t \in Login!Looking(p, i)
          /\ p \in Unique \/ Login!Holders(p, i) = {}
                 \/ <<p, i>> \in overlapped
      BY <2>2, <3>1 DEF AccountTypes, Visit, Login!Looking, FirstLogins
    <3>3. p \in Unique \/ Login!Holders(p, i)' = {} \/ <<p, i>> \in overlapped
      BY <3>1, <3>2
    <3> QED BY <3>1, <3>3 DEF Login!Holders
  <2> QED BY <2>1, <2>2 DEF FirstLogins
<1>6. TokensTrue'
  <2>1. ASSUME NEW t \in Session
        PROVE  Holds(cookie[t])' /\ Holds(access[t])'
    <3>1. PICK x, y : x = cookie[t] /\ y = access[t]
      OBVIOUS
    <3>2. Holds(x)' /\ Holds(y)'
      BY <3>1, TokenKept DEF AccountTypes, TokensTrue
    <3> QED BY <3>1, <3>2 DEF Holds
  <2>2. ASSUME NEW t \in Session, (session[t].pc = "enter")'
        PROVE  Holds(session[t])'
    <3>1. CASE Settled(t)'
      BY <2>2, <3>1 DEF Settled, Login!Quiet
    <3>2. CASE session'[t] = session[t]
      <4>1. PICK x : x = session[t]
        OBVIOUS
      <4>2. Visit(x) /\ Holds(x) /\ x.pc = "enter"
        BY <2>2, <3>2, <4>1 DEF AccountTypes, TokensTrue
      <4>3. Holds(x)'
        BY <4>2, VisitKept
      <4> QED BY <3>2, <4>1, <4>3 DEF Holds
    <3> QED BY <3>1, <3>2
  <2> QED BY <2>1, <2>2 DEF TokensTrue
<1> QED BY <1>4, <1>5, <1>6

\* A set of natural numbers has a least element.
LEMMA Least ==
    ASSUME NEW T \in SUBSET Nat, T # {}
    PROVE  Login!Min(T) \in T
<1> DEFINE R == OpToRel(<, Nat)
<1>1. IsWellFoundedOn(R, Nat)
  BY NatLessThanWellFounded
<1> HIDE DEF R
<1>2. PICK x \in T : \A y \in T : ~(<<y, x>> \in R)
  BY <1>1, WFMin
<1>3. \A y \in T : y < x => <<y, x>> \in R
  BY DEF R, OpToRel
<1>4. ASSUME NEW y \in T PROVE x <= y
  <2>1. x \in Nat /\ y \in Nat
    BY <1>2
  <2>2. ~(y < x)
    BY <1>2, <1>3
  <2> QED BY <2>1, <2>2
<1> QED BY <1>2, <1>4 DEF Login!Min

\* Whoever begins to look for an identity others look for is noted.
LEMMA LoginKeeps ==
    ASSUME AccountInv, NEW s \in Session, NEW p \in Provider,
           NEW keep \in BOOLEAN, Login!Login(s, p, keep)
    PROVE  AccountInv'
<1>1. PICK i \in Identity :
          /\ session' = [session EXCEPT ![s] =
               [Login!Quiet EXCEPT !.pc = "find", !.provider = p,
                   !.identity = i,
                             !.keep = keep]]
          /\ overlapped' = IF Login!Looking(p, i) = {} THEN overlapped
                           ELSE overlapped \cup {<<p, i>>}
          /\ UNCHANGED <<user, cookie, access>>
  BY DEF Login!Login
<1> DEFINE q == [Login!Quiet EXCEPT !.pc = "find", !.provider = p,
        !.identity = i,
                              !.keep = keep]
<1>2. Visit(q) /\ q.pc = "find" /\ q.provider = p /\ q.identity = i
  BY DEF Visit, Login!Quiet, Given, Login!None
<1> HIDE DEF q
<1>3. session' = [session EXCEPT ![s] = q]
  BY <1>1 DEF q
<1>4. \A t \in Login!Looking(p, i) : <<p, i>> \in overlapped'
  BY <1>1
<1> QED BY <1>1, <1>2, <1>3, <1>4, VisitStep

LEMMA FindUserKeeps ==
    ASSUME AccountInv, NEW s \in Session, Login!FindUser(s) PROVE AccountInv'
<1> DEFINE p == session[s].provider  i == session[s].identity
           held == Login!Holders(p, i)
<1>1. /\ session[s].pc = "find" /\ Visit(session[s])
      /\ UNCHANGED <<user, cookie, access, overlapped>>
      /\ session' = IF held = {} THEN [session EXCEPT ![s].pc = "name"]
                    ELSE [session EXCEPT ![s].pc = "enter",
                                         ![s].user = Login!Min(held)]
  BY DEF Login!FindUser, AccountInv, AccountTypes
<1>2. s \in Login!Looking(p, i) /\ p \in Provider /\ i \in Identity
  BY <1>1 DEF Visit, Login!Looking
<1>3. \A t \in Login!Looking(p, i) : t = s \/ <<p, i>> \in overlapped
  BY <1>2 DEF AccountInv, FirstLogins
<1>4. CASE held = {}
  <2> DEFINE q == [session[s] EXCEPT !.pc = "name"]
  <2>1. Visit(q) /\ q.pc = "name" /\ q.provider = p /\ q.identity = i
    BY <1>1 DEF Visit, Given
  <2> HIDE DEF q
  <2>2. session' = [session EXCEPT ![s] = q]
    BY <1>1, <1>4 DEF q
  <2> QED BY <1>1, <1>3, <1>4, <2>1, <2>2, VisitStep
<1>5. CASE held # {}
  <2>1. held \in SUBSET Nat /\ held \subseteq Login!Ids
    BY DEF Login!Holders, AccountInv, AccountTypes
  <2>2. Login!Min(held) \in held
    BY <1>5, <2>1, Least
  <2> DEFINE q == [session[s] EXCEPT !.pc = "enter", !.user = Login!Min(held)]
  <2>3. /\ q.pc = "enter" /\ q.provider = p /\ q.identity = i
        /\ q.user = Login!Min(held) /\ Visit(q)
    BY <1>1, <2>1, <2>2 DEF Visit, Given
  <2> HIDE DEF q
  <2>4. session' = [session EXCEPT ![s] = q]
    BY <1>1, <1>5 DEF q
  <2>5. Holds(q)
    BY <2>2, <2>3 DEF Holds, Login!Holders
  <2> QED BY <1>1, <2>3, <2>4, <2>5, VisitStep
<1> QED BY <1>4, <1>5

LEMMA NameUserKeeps ==
    ASSUME AccountInv, NEW s \in Session, Login!NameUser(s) PROVE AccountInv'
<1> DEFINE p == session[s].provider  i == session[s].identity
<1>1. PICK n : session' = [session EXCEPT ![s].pc = "create", ![s].name = n]
  BY DEF Login!NameUser
<1>2. /\ session[s].pc = "name" /\ Visit(session[s])
      /\ UNCHANGED <<user, cookie, access, overlapped>>
  BY DEF Login!NameUser, AccountInv, AccountTypes
<1>3. s \in Login!Looking(p, i) /\ p \in Provider /\ i \in Identity
  BY <1>2 DEF Visit, Login!Looking
<1>4. \A t \in Login!Looking(p, i) : t = s \/ <<p, i>> \in overlapped
  BY <1>3 DEF AccountInv, FirstLogins
<1> DEFINE q == [session[s] EXCEPT !.pc = "create", !.name = n]
<1>5. Visit(q) /\ q.pc = "create" /\ q.provider = p /\ q.identity = i
  BY <1>2 DEF Visit, Given
<1> HIDE DEF q
<1>6. session' = [session EXCEPT ![s] = q]
  BY <1>1 DEF q
<1>7. p \in Unique \/ Login!Holders(p, i) = {} \/ <<p, i>> \in overlapped
  BY <1>2 DEF AccountInv, FirstLogins
<1> QED BY <1>2, <1>4, <1>5, <1>6, <1>7, VisitStep

\* The accounts with one more.
LEMMA CreateUserKeeps ==
    ASSUME AccountInv, NEW s \in Session, Login!CreateUser(s) PROVE AccountInv'
<1> USE DEF AccountInv
<1>1. PICK p \in Provider, i \in Identity :
          p = session[s].provider /\ i = session[s].identity
  BY DEF Login!CreateUser, AccountTypes, Visit
<1>2. session[s].pc = "create" /\ Visit(session[s])
          /\ s \in Login!Looking(p, i)
  BY <1>1 DEF Login!CreateUser, AccountTypes, Login!Looking
<1>3. UNCHANGED <<cookie, access, overlapped>>
  BY DEF Login!CreateUser
<1>4. CASE Login!Fail(s) /\ UNCHANGED user
  <2>1. AccountRows' /\ NamesOnce' /\ HeldOnce' /\ TypesTrue'
    BY <1>3, <1>4 DEF AccountRows, AccountTypes, NamesOnce, HeldOnce,
       TypesTrue, Login!Ids, Account
  <2>2. Kept
    BY <1>3, <1>4, UserSame
  <2>3. \A a, b : Login!Holders(a, b)' = Login!Holders(a, b)
    BY <1>4 DEF Login!Holders, Login!Ids
  <2>4. \A t \in Session : session'[t] = session[t] \/ Settled(t)'
    BY <1>4 DEF AccountTypes, Login!Fail, Settled
  <2>5. session' = [t \in Session |-> session'[t]]
    BY <1>4 DEF AccountTypes, Login!Fail
  <2> QED BY <1>3, <2>1, <2>2, <2>3, <2>4, <2>5, AccountStep DEF AccountTypes
<1>5. CASE ~Login!Refused(s) /\ ~(Login!Fail(s) /\ UNCHANGED user)
  <2>1. PICK n \in Nat : Login!Ids = 1..n
    BY DEF AccountTypes
  <2>2. Cardinality(Login!Ids) = n
    BY <2>1, FS_Interval
  <2> DEFINE u == n + 1
  <2>3. /\ user' = Login!With(u, Login!Row(s))
        /\ session' = [session EXCEPT ![s].pc = "enter", ![s].user = u]
    BY <1>5, <2>2, AccountCount DEF Login!CreateUser
  <2>4. u \in Nat /\ u \notin Login!Ids /\ 1..u = Login!Ids \cup {u}
    BY <2>1
  <2> HIDE DEF u
  <2>5. /\ Login!Ids' = Login!Ids \cup {u} /\ user'[u] = Login!Row(s)
        /\ user' = [v \in Login!Ids \cup {u} |-> user'[v]]
        /\ \A v \in Login!Ids : user'[v] = user[v]
    BY <2>3, <2>4 DEF Login!Ids, Login!With
  <2>6. /\ Login!Row(s).name = session[s].name
        /\ Login!Row(s).identity[p] = i
        /\ \A a \in Provider \ {p} :
               Login!Row(s).identity[a] = Login!NoIdentity
        /\ Account(Login!Row(s)) /\ Login!Row(s).type = p
    BY <1>1 DEF Login!Row, Login!Bare, Account, Given
  <2>7. AccountRows'
    <3>1. Login!Ids' = 1..u
      BY <2>4, <2>5
    <3>2. \A v \in Login!Ids' : Account(user'[v])
      BY <2>5, <2>6 DEF AccountTypes
    <3> QED BY <2>4, <2>5, <3>1, <3>2 DEF AccountRows, Account
  <2>8. NamesOnce'
    BY <1>5, <2>5, <2>6 DEF NamesOnce, Login!Refused, Login!Taken
  <2>9. p \in Unique \/ <<p, i>> \notin overlapped => Login!Holders(p, i) = {}
    BY <1>1, <1>2, <1>5 DEF Login!Refused, FirstLogins
  <2>10. HeldOnce'
    BY <1>3, <2>5, <2>6, <2>9, AccountNames DEF HeldOnce, Login!Holders
  <2>10a. TypesTrue'
    BY <1>3, <2>5, <2>6 DEF TypesTrue
  <2>11. Kept
    BY <1>3, <2>5 DEF Kept
  <2>11a. PICK q : q = [session[s] EXCEPT !.pc = "enter", !.user = u]
    OBVIOUS
  <2>12. /\ q.pc = "enter" /\ q.provider = p /\ q.identity = i /\ q.user = u
         /\ Visit(q)'
    BY <1>1, <1>2, <2>4, <2>5, <2>11a DEF Visit, Given
  <2>13. session' = [session EXCEPT ![s] = q]
    BY <2>3, <2>11a
  <2>14. Holds(q)'
    BY <2>5, <2>6, <2>12 DEF Holds
  <2>15. ASSUME NEW a \in Provider \ Unique, NEW b \in Identity,
                Login!Holders(a, b) = {}, Login!Holders(a, b)' # {}
         PROVE  \A t \in Login!Looking(a, b) : session'[t] # session[t]
                                       \/ <<a, b>> \in overlapped
    <3>1. a = p /\ b = i
      BY <2>5, <2>6, <2>15, AccountNames DEF Login!Holders
    <3>2. session'[s] # session[s]
      BY <1>2, <2>12, <2>13 DEF AccountTypes
    <3> QED BY <1>2, <3>1, <3>2 DEF FirstLogins
  <2>16. \A t \in Session : session'[t] = session[t] \/ Settled(t)'
    BY <2>12, <2>13, <2>14 DEF AccountTypes, Settled
  <2>17. session' = [t \in Session |-> session'[t]]
    BY <2>13 DEF AccountTypes
  <2> QED BY <1>3, <2>7, <2>8, <2>10, <2>10a, <2>11, <2>15, <2>16, <2>17,
             AccountStep DEF AccountTypes
<1> QED BY <1>4, <1>5 DEF Login!CreateUser

\* A field of an account that is no identity changes.
LEMMA FieldChange ==
    ASSUME AccountInv, NEW w \in Login!Ids, NEW row, Account(row),
           row.name = user[w].name, row.identity = user[w].identity,
           row.type = user[w].type,
           user' = [user EXCEPT ![w] = row], UNCHANGED overlapped
    PROVE  /\ AccountRows' /\ NamesOnce' /\ HeldOnce' /\ TypesTrue' /\ Kept
           /\ \A p, i : Login!Holders(p, i)' = Login!Holders(p, i)
<1> USE DEF AccountInv
<1>1. /\ Login!Ids' = Login!Ids /\ user' = [u \in Login!Ids |-> user'[u]]
      /\ user'[w] = row
      /\ \A u \in Login!Ids \ {w} : user'[u] = user[u]
  BY DEF AccountTypes, Login!Ids
<1>2. \A u \in Login!Ids : /\ user'[u].name = user[u].name
                     /\ user'[u].identity = user[u].identity
                     /\ user'[u].type = user[u].type
  BY <1>1
<1>3. AccountRows'
  BY <1>1 DEF AccountRows, AccountTypes, Account
<1> QED BY <1>1, <1>2, <1>3 DEF NamesOnce, HeldOnce, TypesTrue, Kept,
           Login!Holders

LEMMA EnterKeeps ==
    ASSUME AccountInv, NEW s \in Session, Login!Enter(s) PROVE AccountInv'
<1> USE DEF AccountInv
<1>1. PICK u, p, i : u = session[s].user /\ p = session[s].provider
                     /\ i = session[s].identity
  OBVIOUS
<1>2. /\ session[s].pc = "enter" /\ Visit(session[s]) /\ Holds(session[s])
      /\ u \in Login!Ids /\ p \in Provider /\ i \in Identity /\ u \in Nat
  BY <1>1 DEF Login!Enter, AccountTypes, TokensTrue, Visit
<1> DEFINE token == [user |-> u, provider |-> p, identity |-> i]
<1>3. /\ access' = access \/ access' = [access EXCEPT ![s] = token]
      /\ cookie' = cookie \/ cookie' = [cookie EXCEPT ![s] = token]
      /\ session' = [session EXCEPT ![s] = Login!Quiet]
      /\ UNCHANGED <<user, overlapped>>
  BY <1>1 DEF Login!Enter, Login!Fail
<1>4. Token(token) /\ Holds(token)
  BY <1>1, <1>2 DEF Token, Holds
<1> HIDE DEF token
<1>5. /\ AccountRows' /\ NamesOnce' /\ HeldOnce' /\ TypesTrue' /\ Kept
      /\ \A a, b : Login!Holders(a, b)' = Login!Holders(a, b)
  BY <1>3, UserSame DEF AccountRows, AccountTypes, NamesOnce, HeldOnce,
     TypesTrue, Login!Ids, Account, Login!Holders
<1>7. Token(token)' /\ Holds(token)'
  BY <1>4, <1>5, TokenKept
<1>8. \A t \in Session :
         /\ cookie'[t] \in {cookie[t], token}
         /\ access'[t] \in {access[t], token}
  BY <1>3 DEF AccountTypes
<1>9. /\ cookie' = [t \in Session |-> cookie'[t]]
      /\ access' = [t \in Session |-> access'[t]]
  BY <1>3 DEF AccountTypes
<1>10. \A t \in Session :
         /\ cookie'[t] = cookie[t] \/ (Token(cookie[t]) /\ Holds(cookie[t]))'
         /\ access'[t] = access[t] \/ (Token(access[t]) /\ Holds(access[t]))'
  BY <1>7, <1>8 DEF Token, Holds
<1>11. /\ \A t \in Session : session'[t] = session[t] \/ Settled(t)'
       /\ session' = [t \in Session |-> session'[t]]
  BY <1>3 DEF AccountTypes, Settled
<1> QED BY <1>3, <1>5, <1>9, <1>10, <1>11, AccountStep

\* A step that leaves the accounts and requests alone.
LEMMA CookieStep ==
    ASSUME AccountInv, UNCHANGED <<user, session, overlapped>>,
           cookie' = [t \in Session |-> cookie'[t]],
           access' = [t \in Session |-> access'[t]],
           NEW x, Token(x), Holds(x),
           \A t \in Session : /\ cookie'[t] \in {cookie[t], x}
                              /\ access'[t] \in {access[t], x}
    PROVE  AccountInv'
<1>1. AccountRows' /\ NamesOnce' /\ HeldOnce' /\ TypesTrue' /\ Kept
  BY UserSame DEF AccountInv, AccountRows, AccountTypes, NamesOnce, HeldOnce,
     TypesTrue, Login!Ids, Account
<1>2. \A p, i : Login!Holders(p, i)' = Login!Holders(p, i)
  BY DEF Login!Holders, Login!Ids
<1>3. Token(x)' /\ Holds(x)'
  BY <1>1, TokenKept
<1>4. \A t \in Session :
         /\ cookie'[t] = cookie[t] \/ (Token(cookie[t]) /\ Holds(cookie[t]))'
         /\ access'[t] = access[t] \/ (Token(access[t]) /\ Holds(access[t]))'
  BY <1>3 DEF Token, Holds
<1>5. \A t \in Session : session'[t] = session[t] \/ Settled(t)'
  OBVIOUS
<1>6. session' = [t \in Session |-> session'[t]]
  BY DEF AccountInv, AccountTypes
<1> QED BY <1>1, <1>2, <1>4, <1>5, <1>6, AccountStep

LEMMA CookiesKeep ==
    ASSUME AccountInv, NEW s \in Session,
           \/ Login!PasswordLogin(s) \/ Login!Refresh(s)
           \/ Login!Logout(s) \/ Login!BindSocial(s)
    PROVE  AccountInv'
<1> USE DEF AccountInv, AccountTypes
<1>1. CASE Login!PasswordLogin(s)
  <2>1. PICK u \in Login!Ids :
            /\ cookie' =
                   [cookie EXCEPT ![s] = [Login!NoToken EXCEPT !.user = u]]
            /\ access' =
                   [access EXCEPT ![s] = [Login!NoToken EXCEPT !.user = u]]
            /\ UNCHANGED <<user, session, overlapped>>
    BY <1>1 DEF Login!PasswordLogin
  <2> DEFINE x == [Login!NoToken EXCEPT !.user = u]
  <2>2. Token(x) /\ Holds(x)
    BY DEF Token, Holds, Login!NoToken
  <2> HIDE DEF x
  <2>3. /\ cookie' = [cookie EXCEPT ![s] = x]
        /\ access' = [access EXCEPT ![s] = x]
    BY <2>1 DEF x
  <2> QED BY <2>1, <2>2, <2>3, CookieStep
<1>2. CASE Login!Refresh(s)
  <2>1. PICK x : x = cookie[s]
    OBVIOUS
  <2>2. Token(x) /\ Holds(x)
    BY <2>1 DEF TokensTrue
  <2>3. /\ access' = [access EXCEPT ![s] = x]
        /\ UNCHANGED <<user, session, cookie, overlapped>>
    BY <1>2, <2>1 DEF Login!Refresh
  <2> QED BY <2>2, <2>3, CookieStep
<1>3. CASE Login!Logout(s)
  <2>1. Token(Login!NoToken) /\ Holds(Login!NoToken)
    BY DEF Token, Holds, Login!NoToken
  <2>2. /\ cookie' = [cookie EXCEPT ![s] = Login!NoToken]
        /\ UNCHANGED <<user, session, access, overlapped>>
    BY <1>3 DEF Login!Logout
  <2> QED BY <2>1, <2>2, CookieStep
<1>4. CASE Login!BindSocial(s)
  <2>1. Token(Login!NoToken) /\ Holds(Login!NoToken)
    BY DEF Token, Holds, Login!NoToken
  <2>2. UNCHANGED <<user, session, cookie, access, overlapped>>
    BY <1>4 DEF Login!BindSocial
  <2> QED BY <2>1, <2>2, CookieStep
<1> QED BY <1>1, <1>2, <1>3, <1>4

LEMMA SetActiveKeeps == ASSUME AccountInv, Login!SetActive PROVE AccountInv'
<1> USE DEF AccountInv, AccountTypes
<1>1. PICK u \in Login!Ids : /\ user' = [user EXCEPT ![u].active = ~@]
                       /\ UNCHANGED <<session, cookie, access, overlapped>>
  BY DEF Login!SetActive
<1> DEFINE row == [user[u] EXCEPT !.active = ~@]
<1>2. Account(row) /\ row.name = user[u].name
      /\ row.identity = user[u].identity /\ row.type = user[u].type
  BY DEF Account
<1> HIDE DEF row
<1>3. user' = [user EXCEPT ![u] = row]
  BY <1>1 DEF row
<1> QED BY <1>1, <1>2, <1>3, FieldChange, AccountStep

LEMMA AccountNext == AccountInv /\ [Login!Next]_accountVars => AccountInv'
<1> SUFFICES ASSUME AccountInv, [Login!Next]_accountVars PROVE AccountInv'
  OBVIOUS
<1>1. ASSUME NEW s \in Session,
             \/ Login!GitHubCallback(s) \/ Login!GitHubLogin(s)
             \/ Login!WeChatCallback(s)
             \/ Login!WeChatLogin(s) \/ Login!LdapLogin(s)
      PROVE  AccountInv'
  BY <1>1, LoginKeeps, AccountNames DEF Login!GitHubCallback,
     Login!GitHubLogin, Login!WeChatCallback, Login!WeChatLogin,
     Login!LdapLogin
<1>2. CASE UNCHANGED accountVars
  <2>1. Token(Login!NoToken) /\ Holds(Login!NoToken)
    BY DEF Token, Holds, Login!NoToken
  <2> QED BY <1>2, <2>1, CookieStep DEF accountVars, AccountInv, AccountTypes
<1> QED BY <1>1, <1>2, FindUserKeeps, NameUserKeeps, CreateUserKeeps,
           EnterKeeps, CookiesKeep, SetActiveKeeps DEF Login!Next

LEMMA AccountFollows == AccountInv => Login!AccountsSound
<1> SUFFICES ASSUME AccountInv PROVE Login!AccountsSound
  OBVIOUS
<1>1. ASSUME NEW p \in Provider, NEW i \in Identity,
             Cardinality(Login!Holders(p, i)) > 1
      PROVE  p \notin Unique /\ <<p, i>> \in overlapped
  <2>1. PICK u, v \in Login!Holders(p, i) : u # v
    <3>1. SUFFICES ASSUME \A u, v \in Login!Holders(p, i) : u = v PROVE FALSE
      OBVIOUS
    <3>2. Login!Holders(p, i) = {} \/ \E u : Login!Holders(p, i) = {u}
      BY <3>1
    <3>3. Cardinality(Login!Holders(p, i)) \in {0, 1}
      BY <3>2, FS_EmptySet, FS_Singleton
    <3> QED BY <1>1, <3>3, AccountCount
  <2> QED BY <2>1 DEF AccountInv, HeldOnce, Login!Holders
<1>2. Login!OneAccount
  BY <1>1, AccountCount DEF Login!OneAccount, AccountInv, NamesOnce
<1>3. Login!SignedIn
  <2>1. ASSUME NEW x \in Login!Range(cookie) \cup Login!Range(access)
        PROVE  Holds(x)
    BY DEF Login!Range, AccountInv, AccountTypes, TokensTrue
  <2> QED BY <2>1 DEF Login!SignedIn, Holds
<1>4. ASSUME NEW s \in Session, session[s].pc = "enter"
      PROVE  user[session[s].user].type = session[s].provider
  <2>1. Visit(session[s]) /\ Holds(session[s])
    BY <1>4 DEF AccountInv, AccountTypes, TokensTrue
  <2>2. /\ session[s].user \in Login!Ids /\ session[s].provider \in Provider
        /\ session[s].identity \in Identity
    BY <1>4, <2>1 DEF Visit
  <2>3. user[session[s].user].identity[session[s].provider] # Login!NoIdentity
    BY <2>1, <2>2, AccountNames DEF Holds
  <2>4. PICK u, p : u = session[s].user /\ p = session[s].provider
    OBVIOUS
  <2>5. user[u].type = p
    BY <2>2, <2>3, <2>4 DEF AccountInv, TypesTrue
  <2> QED BY <2>4, <2>5
<1>5. Login!TypesFit
  BY <1>4 DEF Login!TypesFit, AccountInv, TypesTrue
<1> QED BY <1>2, <1>3, <1>5 DEF Login!AccountsSound

LEMMA AccountsSteps ==
    ASSUME part = "accounts", [Next]_vars
    PROVE  [Login!Next]_accountVars
BY DEF Next, vars, accountVars

\* User names are taken once, an identity has one account unless two first
\* logins of LDAP met, a token won with an identity is for the account that has
\* it, and no login comes to correct a login_type, for any number of browsers,
\* accounts and identities.
\* Code: auth views (callbacks, logins, bind_social), CookieTokenRefreshView.
AccountsHeld == part = "accounts" => AccountInv
THEOREM AccountsHold == Spec => []AccountsSound
<1>1. Init => AccountsHeld
  BY AccountInit DEF Init, AccountsHeld
<1>2. AccountsHeld /\ [Next]_vars => AccountsHeld'
  BY PartStays, AccountsSteps, AccountNext DEF AccountsHeld
<1>3. AccountsHeld => AccountsSound
  BY AccountFollows DEF AccountsHeld, AccountsSound
<1> QED BY <1>1, <1>2, <1>3, PTL DEF Spec

=============================================================================
