--------------------------- MODULE ProjectAccess ----------------------------
(***************************************************************************)
(* Projects, their members and the assets they share, and the decision on  *)
(* each request: SmartRBACPermission and DataScopeMixin (utils/            *)
(* rbac_permission.py), ProjectMemberViewSet and ProjectAssetShareViewSet. *)
(***************************************************************************)
EXTENDS Naturals, FiniteSets, Sequences, SequencesExt

CONSTANTS
    User, Project, Asset,
    SuperUser,       \* users whom every check lets pass
    MemberId,        \* ids of memberships, numbers
    Home,            \* [Asset -> Project]
    Creator,         \* [Asset -> User]
    Resource,        \* the resource code of the assets' view, a sequence
    Granted,         \* [User -> set of permission codes, sequences]
    Scope,           \* [User -> [{"use", "manage"} -> set of assets]]
    Handler,         \* processes of the web server
    AccessBudget     \* bound: requests

VARIABLES
    owner,           \* of the projects, or "nobody"
    member,          \* the table of memberships
    shares,          \* assets open to other projects
    handler,         \* request that has been checked and is to be carried out
    removed,         \* rows that were deleted
    crossed,         \* rows that two requests were at
    strayed,         \* owners who are no members for another reason than a
                     \* request to remove them
    accessBudget

vars == <<owner, member, shares, handler, removed, crossed, strayed,
          accessBudget>>

Role   == {"viewer", "member", "admin"}
Member == Project \X User
Membership == [of : Member, role : Role]
NoRow  == [of |-> <<>>, role |-> "none"]
Idle   == [op |-> "idle", row |-> 0, new |-> NoRow]
\* The pair of project and user is unique.
Holders(m) == {r \in MemberId : member[r].of = m}

Init ==
    /\ owner \in [Project -> User \cup {"nobody"}]
    /\ member \in [MemberId -> Membership \cup {NoRow}]
    /\ \A r, q \in MemberId :
          member[r] # NoRow /\ r # q => member[q].of # member[r].of
    /\ \A r, q \in MemberId : member[r] # NoRow /\ q < r => member[q] # NoRow
    /\ \E r \in MemberId : member[r] = NoRow
    /\ shares = {}
    /\ handler = [h \in Handler |-> Idle]
    /\ removed = {} /\ crossed = {}
    /\ strayed = {m \in Member : owner[m[1]] = m[2] /\ Holders(m) = {}}
    /\ accessBudget = AccessBudget

-----------------------------------------------------------------------------
(* The decision on a request of a user in a project.                       *)

Action == {"list", "retrieve", "create", "update", "destroy", "trigger"}
\* RBAC_ACTION_MAP; an action it does not name stands for itself.
Mapped == [a \in Action |-> CASE a \in {"list", "retrieve"} -> "view"
                              [] a = "create"  -> "add"
                              [] a = "update"  -> "edit"
                              [] a = "destroy" -> "delete"
                              [] OTHER -> a]

\* The code itself, or a wildcard for one of its prefixes; who may write a
\* resource may view it.
CodeGrants(held, action) ==
    LET code == Append(Resource, Mapped[action]) IN
    \/ <<"*">> \in held \/ code \in held
    \/ \E n \in 1..Len(code) - 1 :
         Append(SubSeq(code, 1, n), "*") \in held
    \/ /\ Mapped[action] = "view"
       /\ \E c \in held : /\ IsStrictPrefix(Resource, c)
                          /\ Last(c) \in {"add", "edit", "delete"}

\* The project's door: members only, viewers for reading only.
ProjectGrants(u, p, action) ==
    \E r \in Holders(<<p, u>>) :
        member[r].role = "viewer" => Mapped[action] = "view"
HasPermission(u, p, action) ==
    \/ u \in SuperUser
    \/ ProjectGrants(u, p, action) /\ CodeGrants(Granted[u], action)

\* DataScopeMixin: the project's own and shared assets, of these the ones in
\* the user's scope or created by the user; who manages an asset may use it.
\* Superusers have every asset in their scope.
InProject(a, p) == Home[a] = p \/ [asset |-> a, to |-> p] \in shares
InScope(u, need) == IF u \in SuperUser THEN Asset
                    ELSE IF need = "use" THEN Scope[u].use \cup Scope[u].manage
                    ELSE Scope[u].manage
Visible(u, p) == {a \in Asset : /\ InProject(a, p)
                                /\ a \in InScope(u, "use") \/ Creator[a] = u}
Needed(action) == IF action \in {"update", "destroy"} THEN "manage" ELSE "use"
ObjectGrants(u, a, action) ==
    Creator[a] = u \/ a \in InScope(u, Needed(action))
Allowed(u, p, a, action) ==
    /\ HasPermission(u, p, action)
    /\ a \in Visible(u, p) /\ ObjectGrants(u, a, action)

-----------------------------------------------------------------------------
(* ProjectMemberViewSet: the request is checked, then carried out.         *)

Admin(p, u) ==
    \/ u \in SuperUser \/ owner[p] = u
    \/ \E r \in Holders(<<p, u>>) : member[r].role = "admin"
Busy(r) == {h \in Handler : handler[h].op # "idle" /\ handler[h].row = r}
Removing(m) == \E h \in Handler : handler[h].op = "destroy"
                                  /\ member[handler[h].row].of = m
\* Someone who administers project p asks.
Begin(h, p, request) ==
    /\ handler[h].op = "idle"
    /\ accessBudget > 0 /\ accessBudget' = accessBudget - 1
    /\ \E u \in User : Admin(p, u)
    /\ handler' = [handler EXCEPT ![h] = request]
    /\ UNCHANGED <<owner, member, shares, removed, strayed>>
\* The row is read; a request that is at it already crosses this one.
BeginAt(h, r, op, new) ==
    /\ member[r] # NoRow
    /\ Begin(h, member[r].of[1], [op |-> op, row |-> r, new |-> new])
    /\ crossed' = IF Busy(r) = {} THEN crossed ELSE crossed \cup {r}
End(h) == handler' = [handler EXCEPT ![h] = Idle]

AddMember(h, m) ==
    /\ Holders(m) = {}
    /\ \E r \in Role : Begin(h, m[1], [op |-> "add", row |-> 0,
                                       new |-> [of |-> m, role |-> r]])
    /\ UNCHANGED crossed
\* The next id is given, unless the pair is taken meanwhile.
AddSave(h, r) ==
    /\ handler[h].op = "add"
    /\ member[r] = NoRow /\ r \notin removed
    /\ \A q \in MemberId : q < r => member[q] # NoRow \/ q \in removed
    /\ IF Holders(handler[h].new.of) = {}
       THEN /\ member' = [member EXCEPT ![r] = handler[h].new]
            /\ strayed' = strayed \ {handler[h].new.of}
       ELSE UNCHANGED <<member, strayed>>
    /\ End(h)
    /\ UNCHANGED <<owner, shares, removed, crossed, accessBudget>>

\* A PATCH gives the row another role, user or project, also the owner's and
\* also a project the one who asks does not administer.
UpdateMember(h, r) ==
    \E new \in Membership :
        Holders(new.of) \subseteq {r} /\ BeginAt(h, r, "update", new)
\* The row that was read is saved as a whole, with its id, also when it has
\* been deleted since, unless another row has its pair.
UpdateSave(h) ==
    LET r == handler[h].row
        new == handler[h].new IN
    /\ handler[h].op = "update"
    /\ IF Holders(new.of) \subseteq {r}
       THEN /\ member' = [member EXCEPT ![r] = new]
            /\ strayed' = (strayed \cup ({member[r].of} \cap Member)) \ {new.of}
       ELSE UNCHANGED <<member, strayed>>
    /\ End(h)
    /\ UNCHANGED <<owner, shares, removed, crossed, accessBudget>>
\* Variant: whoever is asked for is removed.
DestroyAnyMember(h, r) == BeginAt(h, r, "destroy", NoRow)
\* The project's owner is not removed.
DestroyMember(h, r) ==
    /\ member[r] # NoRow => owner[member[r].of[1]] # member[r].of[2]
    /\ BeginAt(h, r, "destroy", NoRow)
\* The row is deleted by its id, whomever it belongs to by now.
DestroySave(h) ==
    LET r == handler[h].row IN
    /\ handler[h].op = "destroy"
    /\ member' = [member EXCEPT ![r] = NoRow]
    /\ removed' = removed \cup {r}
    /\ strayed' = IF r \in crossed
                  THEN strayed \cup ({member[r].of} \cap Member)
                  ELSE strayed
    /\ End(h)
    /\ UNCHANGED <<owner, shares, crossed, accessBudget>>

\* ProjectViewSet: a PATCH names another owner, or none.
SetOwner(p, u) ==
    /\ accessBudget > 0 /\ accessBudget' = accessBudget - 1
    /\ owner[p] # u /\ owner' = [owner EXCEPT ![p] = u]
    /\ strayed' = strayed \cup
         {m \in Member : m = <<p, u>> /\ (Removing(m) \/ Holders(m) = {})}
    /\ UNCHANGED <<member, shares, handler, removed, crossed>>

-----------------------------------------------------------------------------
(* ProjectAssetShareViewSet                                                *)

Share(a, p) ==
    /\ accessBudget > 0 /\ accessBudget' = accessBudget - 1
    /\ Home[a] # p
    /\ shares' = shares \cup {[asset |-> a, to |-> p]}
    /\ UNCHANGED <<owner, member, handler, removed, crossed, strayed>>
\* revoke: the shares of the current project that are named.
Revoke(p) ==
    /\ \E gone \in SUBSET {s \in shares : Home[s.asset] = p} :
         gone # {} /\ shares' = shares \ gone
    /\ UNCHANGED <<owner, member, handler, removed, crossed, strayed,
                   accessBudget>>

Next == \/ \E h \in Handler, m \in Member : AddMember(h, m)
        \/ \E h \in Handler, r \in MemberId :
             AddSave(h, r) \/ UpdateMember(h, r) \/ DestroyMember(h, r)
        \/ \E h \in Handler : UpdateSave(h) \/ DestroySave(h)
        \/ \E p \in Project, u \in User \cup {"nobody"} : SetOwner(p, u)
        \/ \E a \in Asset, p \in Project : Share(a, p)
        \/ \E p \in Project : Revoke(p)

Spec == Init /\ [][Next]_vars

-----------------------------------------------------------------------------
\* Types.
AccessTypeOK ==
    /\ owner \in [Project -> User \cup {"nobody"}]
    /\ member \in [MemberId -> Membership \cup {NoRow}]
    /\ shares \subseteq [asset : Asset, to : Project]
    /\ removed \subseteq MemberId /\ crossed \subseteq MemberId /\ strayed \subseteq Member

\* A membership that was deleted does not come back, unless another request
\* was at its row.  Who owns a project and was a member then or since is one,
\* unless a PATCH moved the row to another user or project, a request to
\* remove the member was under way when the project got this owner, or the
\* row was deleted by one of two requests at it.
MembersHeld ==
    /\ \A r \in removed \ crossed : member[r] = NoRow
    /\ \A m \in Member \ strayed : owner[m[1]] = m[2] => Holders(m) # {}

\* The rules of the list, of the single object and of the codes agree: who
\* may list a resource may open every asset the list shows, and who may
\* change an asset may open it.
RulesAgree ==
    \A u \in User, p \in Project :
        \A a \in Visible(u, p) :
            \/ HasPermission(u, p, "list") \/ Allowed(u, p, a, "update")
            => Allowed(u, p, a, "retrieve")
AccessSound == MembersHeld /\ RulesAgree
=============================================================================
