--------------------------- MODULE PermissionCache ---------------------------
(***************************************************************************)
(* Roles and what a user gets through them (apps/rbac_permission), kept in *)
(* Redis per user (utils/rbac_permission) and refreshed by tasks that the  *)
(* signals of a change send.  One permission, one menu and two policies    *)
(* stand for all: the task clears the scopes to manage and use resources   *)
(* of six types ("scope"); those of other types, of artifacts and their    *)
(* registries, and those to view ("artifact") nobody clears.               *)
(*                                                                         *)
(* Roles, permissions and menus are linked in transactions; the message    *)
(* leaves inside, and a refused one rolls the change back.  It waits a     *)
(* second, by which the transaction is taken to be committed: the change   *)
(* and its message are one step.  Policies and permissions themselves are  *)
(* saved at once, and announced in a later step or never.                  *)
(***************************************************************************)
EXTENDS Integers, FiniteSets

CONSTANTS
    User, Role,
    Request,           \* HTTP requests in progress
    Refresher,         \* workers of refresh_user_cache_chunk
    RoleChanges,       \* bound: changes of roles, users, permissions
    CacheFaults        \* bound: refresh messages the broker refuses

VARIABLES
    roles,             \* per user: the roles assigned
    parents,           \* per role: the roles it inherits from
    holds,             \* per role: does it hold the permission, menu, policy
    active,            \* Permission.is_active
    cached,            \* per user and kind: "missing" or what is cached
    request,           \* per request: the value it computed, to be cached
    untold,            \* saves that are still to be announced
    queued,            \* users a refresh message waits for
    refresher,         \* per worker: the user and the values computed
    excused,           \* history: why a user's entries may be out of date
    roleChangesLeft, cacheFaultsLeft

rbac == <<roles, parents, holds, active>>
vars == <<roles, parents, holds, active, cached, request, untold, queued,
          refresher, excused, roleChangesLeft, cacheFaultsLeft>>

Refreshed == {"perms", "menus", "scope"}
Kind == Refreshed \cup {"artifact"}
Cached == {"missing", "yes", "no"}

\* Role._get_all_ids: what is inherited, cycles included.
Ancestors(up, r) ==
    {s \in Role : \A S \in SUBSET Role :
                     (r \in S /\ \A t \in S : up[t] \subseteq S) => s \in S}

\* calculate_user_perms, calculate_user_menu_tree, get_user_data_scope.
Effective(u, k) ==
    IF /\ k = "perms" => active
       /\ \E r \in roles[u] : \E s \in Ancestors(parents, r) : holds[s][k]
    THEN "yes" ELSE "no"

Idle == [pc |-> "idle"]

Init ==
    /\ roles = [u \in User |-> {}]
    /\ parents \in {p \in [Role -> SUBSET Role] :
                       \A r \in Role : Cardinality(p[r]) <= 1}
    /\ holds = [r \in Role |-> [k \in Kind |-> FALSE]]
    /\ active = TRUE
    /\ cached = [u \in User |-> [k \in Kind |-> "missing"]]
    /\ request = [q \in Request |-> Idle]
    /\ untold = {} /\ queued = {}
    /\ refresher = [w \in Refresher |-> Idle]
    /\ excused = [u \in User |-> {}]
    /\ roleChangesLeft = RoleChanges /\ cacheFaultsLeft = CacheFaults

-----------------------------------------------------------------------------
(* Changes and the signals they send.                                      *)

\* Users with one of the roles; Role.get_all_descendant_roles.
Having(owners, R) == {u \in User : owners[u] \cap R # {}}
Descendants(up, R) == {s \in Role : Ancestors(up, s) \cap R # {}}

Change == roleChangesLeft > 0 /\ roleChangesLeft' = roleChangesLeft - 1

\* dispatch_refresh of a change in its transaction.
DispatchRefresh(users) ==
    /\ Change /\ queued' = queued \cup users
    /\ UNCHANGED <<cached, request, untold, refresher, excused,
                   cacheFaultsLeft>>

\* UserViewSet.assign_roles, UserSerializer.update: on_user_role_change, or
\* on_user_info_change with the roles there were.
AssignRoles(u, R) ==
    /\ roles' = [roles EXCEPT ![u] = R]
    /\ UNCHANGED <<parents, holds, active>>
    /\ DispatchRefresh({u})

\* RoleViewSet.update of permissions or menus: on_role_structure_change.  The
\* affected users are found after the change.
Linked == {"perms", "menus"}
GrantDirect(r, k) ==           \* variant: only users with the role itself
    /\ k \in Linked
    /\ holds' = [holds EXCEPT ![r][k] = ~@]
    /\ UNCHANGED <<roles, parents, active>>
    /\ DispatchRefresh(Having(roles, {r}))
Grant(r, k) ==
    /\ k \in Linked
    /\ holds' = [holds EXCEPT ![r][k] = ~@]
    /\ UNCHANGED <<roles, parents, active>>
    /\ DispatchRefresh(Having(roles, Descendants(parents, {r})))

\* RoleViewSet.update of the inheritance: on_role_structure_change.
SetParents(r, R) ==
    /\ parents' = [parents EXCEPT ![r] = R]
    /\ UNCHANGED <<roles, holds, active>>
    /\ DispatchRefresh(Having(roles, Descendants(parents', {r})))

\* Saves: update_data_policies, of a role; a permission, e.g. switched off.
Save(k, R) ==
    /\ Change
    /\ untold' = untold \cup {[kind |-> k, of |-> R, id |-> roleChangesLeft]}
    /\ UNCHANGED <<roles, parents, cached, request, queued, refresher, excused,
                   cacheFaultsLeft>>
UpdatePolicies(r, k) ==
    /\ k \in Kind \ Linked
    /\ holds' = [holds EXCEPT ![r][k] = ~@] /\ UNCHANGED active
    /\ Save(k, {r})
SwitchPermission ==
    /\ active' = ~active /\ UNCHANGED holds
    /\ Save("perms", {})

\* Whom the message of a save will name: on_permission_change looks for the
\* roles that hold the permission now.
Concerned(c) ==
    LET R == IF c.kind = "perms" THEN {r \in Role : holds[r]["perms"]}
             ELSE c.of
    IN  Having(roles, Descendants(parents, R))
\* The message of a save leaves, or the broker refuses it.
Announce(c) ==
    /\ untold' = untold \ {c}
    /\ queued' = queued \cup Concerned(c)
    /\ UNCHANGED <<rbac, cached, request, refresher, excused, roleChangesLeft,
                   cacheFaultsLeft>>
RefuseMessage(c) ==
    /\ cacheFaultsLeft > 0 /\ cacheFaultsLeft' = cacheFaultsLeft - 1
    /\ untold' = untold \ {c}
    /\ excused' = [u \in User |-> IF u \in Concerned(c)
                                  THEN excused[u] \cup {"refused"}
                                  ELSE excused[u]]
    /\ UNCHANGED <<rbac, cached, request, queued, refresher, roleChangesLeft>>

\* Who is out of date when nobody is told of a deletion.
Unheard(R) ==
    [u \in User |-> IF u \in Having(roles, Descendants(parents, R))
                    THEN excused[u] \cup {"deleted"} ELSE excused[u]]

\* A role is destroyed: no signal is connected to it.
DestroyRole(r) ==
    /\ Change
    /\ roles' = [u \in User |-> roles[u] \ {r}]
    /\ parents' = [s \in Role |-> IF s = r THEN {} ELSE parents[s] \ {r}]
    /\ holds' = [holds EXCEPT ![r] = [k \in Kind |-> FALSE]]
    /\ excused' = Unheard({r})
    /\ UNCHANGED <<active, cached, request, untold, queued, refresher,
                   cacheFaultsLeft>>

\* A permission or menu is destroyed: post_delete finds the roles that held
\* it, but the database has already deleted the rows that said so.
DestroyItem(k) ==
    /\ k \in Linked
    /\ Change
    /\ holds' = [r \in Role |-> [holds[r] EXCEPT ![k] = FALSE]]
    /\ excused' = Unheard({r \in Role : holds[r][k]})
    /\ UNCHANGED <<roles, parents, active, cached, request, untold, queued,
                   refresher, cacheFaultsLeft>>

-----------------------------------------------------------------------------
(* Requests: has_permission, me, my_menus, get_user_data_scope.            *)

\* A miss, or an empty menu tree, leads to the database.
RequestLoad(q, u, k) ==
    /\ request[q].pc = "idle"
    /\ \/ cached[u][k] = "missing"
       \/ k = "menus" /\ cached[u][k] = "no"
    /\ request' = [request EXCEPT ![q] =
                     [pc |-> "loaded", user |-> u, kind |-> k,
                      found |-> Effective(u, k)]]
    /\ UNCHANGED <<rbac, cached, untold, queued, refresher, excused,
                   roleChangesLeft, cacheFaultsLeft>>

\* A refresh of the user waits, or will.
Coming(u) == u \in queued \/ \E c \in untold : u \in Concerned(c)

\* History: what is stored is out of date, and no refresh comes after it.
Overtaken(u, stale) ==
    IF stale /\ ~Coming(u)
    THEN [excused EXCEPT ![u] = @ \cup {"overtaken"}] ELSE excused

RequestFill(q) ==
    LET u == request[q].user
        k == request[q].kind
    IN  /\ request[q].pc = "loaded"
        /\ cached' = [cached EXCEPT ![u][k] = request[q].found]
        /\ excused' = Overtaken(u, /\ k \in Refreshed
                                   /\ request[q].found # Effective(u, k))
        /\ request' = [request EXCEPT ![q] = Idle]
        /\ UNCHANGED <<rbac, untold, queued, refresher, roleChangesLeft,
                       cacheFaultsLeft>>

\* An hour, or five minutes for an empty list of permissions.
ExpireEntry(u, k) ==
    /\ cached[u][k] # "missing"
    /\ cached' = [cached EXCEPT ![u][k] = "missing"]
    /\ UNCHANGED <<rbac, request, untold, queued, refresher, excused,
                   roleChangesLeft, cacheFaultsLeft>>

-----------------------------------------------------------------------------
(* refresh_bulk_cache_task, refresh_user_cache_chunk.                      *)

RefreshLoad(w, u) ==
    /\ refresher[w].pc = "idle" /\ u \in queued
    /\ queued' = queued \ {u}
    /\ refresher' = [refresher EXCEPT ![w] =
                       [pc |-> "loaded", user |-> u,
                        perms |-> Effective(u, "perms"),
                        menus |-> Effective(u, "menus")]]
    /\ UNCHANGED <<rbac, cached, request, untold, excused, roleChangesLeft,
                   cacheFaultsLeft>>

\* Permissions and menus are overwritten, the scopes to manage and use the six
\* resource types deleted.
RefreshStore(w) ==
    LET job == refresher[w]
    IN  /\ job.pc = "loaded"
        /\ cached' = [cached EXCEPT ![job.user].perms = job.perms,
                                    ![job.user].menus = job.menus,
                                    ![job.user].scope = "missing"]
        /\ excused' = Overtaken(job.user,
                         \/ job.perms # Effective(job.user, "perms")
                         \/ job.menus # Effective(job.user, "menus"))
        /\ refresher' = [refresher EXCEPT ![w] = Idle]
        /\ UNCHANGED <<rbac, request, untold, queued, roleChangesLeft,
                       cacheFaultsLeft>>

-----------------------------------------------------------------------------
Next ==
    \/ \E u \in User, R \in SUBSET Role : AssignRoles(u, R)
    \/ \E r \in Role :
          \/ DestroyRole(r)
          \/ \E k \in Kind : Grant(r, k) \/ UpdatePolicies(r, k)
          \/ \E s \in Role : SetParents(r, {s})
    \/ SwitchPermission
    \/ \E k \in Kind : DestroyItem(k)
    \/ \E c \in untold : Announce(c) \/ RefuseMessage(c)
    \/ \E q \in Request :
          RequestFill(q) \/ \E u \in User, k \in Kind : RequestLoad(q, u, k)
    \/ \E u \in User, k \in Kind : ExpireEntry(u, k)
    \/ \E w \in Refresher :
          RefreshStore(w) \/ \E u \in User : RefreshLoad(w, u)

Spec == Init /\ [][Next]_vars

-----------------------------------------------------------------------------
(* Properties.                                                             *)

RbacTypeOK ==
    /\ roles \in [User -> SUBSET Role]
    /\ parents \in [Role -> SUBSET Role]
    /\ holds \in [Role -> [Kind -> BOOLEAN]] /\ active \in BOOLEAN
    /\ cached \in [User -> [Kind -> Cached]]
    /\ request \in [Request -> {Idle} \cup
          [pc : {"loaded"}, user : User, kind : Kind, found : {"yes", "no"}]]
    /\ untold \subseteq [kind : Kind, of : SUBSET Role, id : 1..RoleChanges]
    /\ queued \subseteq User
    /\ refresher \in [Refresher -> {Idle} \cup
          [pc : {"loaded"}, user : User, perms : {"yes", "no"},
           menus : {"yes", "no"}]]
    /\ excused \in [User -> SUBSET {"refused", "deleted", "overtaken"}]
    /\ roleChangesLeft \in 0..RoleChanges /\ cacheFaultsLeft \in 0..CacheFaults

\* When nothing is to be announced for a user and no refresh of them is queued
\* or being computed, what Redis says of their permissions, menus and scopes of
\* the six types is what the roles give, inherited along any graph of parents,
\* cycles included: the users a change affects are all found, though saves are
\* announced later, among roles that have changed since.  The exceptions are a
\* refused message, a deleted role, permission or menu, and a value stored
\* after the change that made it wrong.
PermissionsFollow ==
    \A u \in User :
        (/\ excused[u] = {} /\ ~Coming(u)
         /\ \A w \in Refresher : refresher[w].pc = "loaded"
                                 => refresher[w].user # u)
        => \A k \in Refreshed : cached[u][k] \in {"missing", Effective(u, k)}
=============================================================================
