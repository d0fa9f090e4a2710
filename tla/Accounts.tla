------------------------------ MODULE Accounts ------------------------------
(***************************************************************************)
(* Local accounts and the identities of GitHub, WeChat and an LDAP         *)
(* directory they are signed in with.  The first login of an identity      *)
(* creates its account: the view looks for the identity, then for a user   *)
(* name that is free, then inserts, each a query of its own.               *)
(***************************************************************************)
EXTENDS Naturals, FiniteSets, FiniteSetsExt, Functions

CONSTANTS
    Provider,        \* where identities come from
    Identity,        \* the identities of a provider
    Unique,          \* providers whose column is unique: all but ldap
    Base(_, _),      \* user name built from an identity of a provider
    Password,        \* user names of accounts with a password
    Session,         \* browsers
    MaxUsers,
    AccountBudgets   \* bounds on the requests and on SetActive, with them

VARIABLES
    user,            \* rows of the user table, by id
    session,         \* what each browser's request is doing
    cookie,          \* each browser's refresh_token
    access,          \* and the access token it sends with its requests
    overlapped,      \* identities two first logins met for
    left

vars == <<user, session, cookie, access, overlapped, left>>

None == 0
NoIdentity == "none"
Quiet == [pc |-> "idle", provider |-> NoIdentity, identity |-> NoIdentity,
          keep |-> FALSE, user |-> None, name |-> <<NoIdentity, 0>>]
NoToken == [user |-> None, provider |-> NoIdentity, identity |-> NoIdentity]
Ids   == DOMAIN user
Bare(name) == [name |-> name, type |-> "password", active |-> TRUE,
               identity |-> [p \in Provider |-> NoIdentity]]

Init ==
    /\ \E table \in [1..Cardinality(Password) -> Password] :
         /\ \A i, j \in DOMAIN table : table[i] = table[j] => i = j
         /\ user = [i \in DOMAIN table |-> Bare(<<table[i], 0>>)]
    /\ session = [s \in Session |-> Quiet]
    /\ cookie = [s \in Session |-> NoToken]
    /\ access = [s \in Session |-> NoToken]
    /\ overlapped = {}
    /\ left \in AccountBudgets

Spend(budget) == /\ left[budget] > 0
                 /\ left' = [left EXCEPT ![budget] = @ - 1]
Holders(p, i) == {u \in Ids : user[u].identity[p] = i}
Taken(name)   == \E u \in Ids : user[u].name = name
Fail(s) == session' = [session EXCEPT ![s] = Quiet]

-----------------------------------------------------------------------------
(* A login asks the provider for the identity; without an answer nothing   *)
(* changes.  The callbacks and LDAP keep the refresh token in the cookie,  *)
(* the two POST forms return it and leave the cookie as it is.             *)

Looking(p, i) == {s \in Session :
    /\ session[s].pc \in {"find", "name", "create"}
    /\ session[s].provider = p /\ session[s].identity = i}
Login(s, p, keep) ==
    /\ session[s].pc = "idle" /\ Spend("calls")
    /\ \E i \in Identity :
         /\ session' = [session EXCEPT ![s] =
              [Quiet EXCEPT !.pc = "find", !.provider = p, !.identity = i,
                            !.keep = keep]]
         /\ overlapped' = IF Looking(p, i) = {} THEN overlapped
                          ELSE overlapped \cup {<<p, i>>}
    /\ UNCHANGED <<user, cookie, access>>
GitHubCallback(s) == Login(s, "github", TRUE)
GitHubLogin(s)    == Login(s, "github", FALSE)
WeChatCallback(s) == Login(s, "wechat", TRUE)
WeChatLogin(s)    == Login(s, "wechat", FALSE)
LdapLogin(s)      == Login(s, "ldap", TRUE)

FindUser(s) ==
    /\ session[s].pc = "find"
    /\ LET held == Holders(session[s].provider, session[s].identity) IN
         session' = IF held = {} THEN [session EXCEPT ![s].pc = "name"]
                    ELSE [session EXCEPT ![s].pc = "enter",
                                         ![s].user = Min(held)]
    /\ UNCHANGED <<user, cookie, access, overlapped, left>>
\* The base name, or the first of its numbered forms nobody has.
NameUser(s) ==
    /\ session[s].pc = "name"
    /\ LET base == Base(session[s].provider, session[s].identity)
           n == Min({k \in 0..MaxUsers : ~Taken(<<base, k>>)}) IN
         session' = [session EXCEPT ![s].pc = "create",
                                      ![s].name = <<base, n>>]
    /\ UNCHANGED <<user, cookie, access, overlapped, left>>

\* The columns' constraints refuse a second row; the request then fails.
Refused(s) ==
    \/ Taken(session[s].name)
    \/ /\ session[s].provider \in Unique
       /\ Holders(session[s].provider, session[s].identity) # {}
Row(s) == [Bare(session[s].name) EXCEPT
             !.type = session[s].provider,
             !.identity[session[s].provider] = session[s].identity]
\* The users with a new one.
With(u, row) == [v \in Ids \cup {u} |-> IF v = u THEN row ELSE user[v]]

\* Variant: an account that has the name is taken for the new one.
CreateOrTake(s) ==
    /\ session[s].pc = "create"
    /\ IF Taken(session[s].name)
       THEN /\ session' = [session EXCEPT ![s].pc = "enter",
                 ![s].user = CHOOSE u \in Ids : user[u].name = session[s].name]
            /\ UNCHANGED user
       ELSE IF Refused(s) THEN Fail(s) /\ UNCHANGED user
       ELSE LET u == Cardinality(Ids) + 1 IN
            /\ user' = With(u, Row(s))
            /\ session' = [session EXCEPT ![s].pc = "enter", ![s].user = u]
    /\ UNCHANGED <<cookie, access, overlapped, left>>
CreateUser(s) ==
    /\ session[s].pc = "create"
    /\ IF Refused(s) THEN Fail(s) /\ UNCHANGED user
       ELSE LET u == Cardinality(Ids) + 1 IN
            /\ u <= MaxUsers
            /\ user' = With(u, Row(s))
            /\ session' = [session EXCEPT ![s].pc = "enter", ![s].user = u]
    /\ UNCHANGED <<cookie, access, overlapped, left>>

\* The pair of tokens is issued.  A login_type to correct would end the login:
\* the save names a column update_time, which the table has not.
Enter(s) ==
    /\ session[s].pc = "enter"
    /\ LET u == session[s].user  p == session[s].provider
           token == [user |-> u, provider |-> p,
                     identity |-> session[s].identity] IN
         IF user[u].type = p
         THEN /\ access' = [access EXCEPT ![s] = token]
              /\ cookie' = IF session[s].keep
                           THEN [cookie EXCEPT ![s] = token] ELSE cookie
         ELSE UNCHANGED <<access, cookie>>
    /\ Fail(s)
    /\ UNCHANGED <<user, overlapped, left>>

\* CookieTokenObtainPairView: an active account with a password.
PasswordLogin(s) ==
    /\ session[s].pc = "idle" /\ Spend("calls")
    /\ \E u \in Ids :
         /\ user[u].name[1] \in Password /\ user[u].active
         /\ LET token == [NoToken EXCEPT !.user = u] IN
              /\ cookie' = [cookie EXCEPT ![s] = token]
              /\ access' = [access EXCEPT ![s] = token]
    /\ UNCHANGED <<user, session, overlapped>>
\* CookieTokenRefreshView: the cookie's account must still be active.
Refresh(s) ==
    /\ session[s].pc = "idle" /\ cookie[s] # NoToken
    /\ user[cookie[s].user].active
    /\ access' = [access EXCEPT ![s] = cookie[s]]
    /\ UNCHANGED <<user, session, cookie, overlapped, left>>
Logout(s) ==
    /\ session[s].pc = "idle"
    /\ cookie' = [cookie EXCEPT ![s] = NoToken]
    /\ UNCHANGED <<user, session, access, overlapped, left>>

-----------------------------------------------------------------------------
\* bind_social asks the provider and looks for others who have the identity;
\* the save that follows names the same column, so that nothing is bound.
BindSocial(s) ==
    /\ session[s].pc = "idle" /\ access[s] # NoToken /\ Spend("calls")
    /\ user[access[s].user].active
    /\ UNCHANGED <<user, session, cookie, access, overlapped>>

\* UserViewSet: an administrator takes the account out or puts it back.
SetActive ==
    /\ Spend("edits")
    /\ \E u \in Ids : user' = [user EXCEPT ![u].active = ~@]
    /\ UNCHANGED <<session, cookie, access, overlapped>>

Next == \/ \E s \in Session :
             \/ GitHubCallback(s) \/ GitHubLogin(s) \/ WeChatCallback(s)
             \/ WeChatLogin(s) \/ LdapLogin(s) \/ PasswordLogin(s)
             \/ FindUser(s) \/ NameUser(s) \/ CreateUser(s) \/ Enter(s)
             \/ Refresh(s) \/ Logout(s)
             \/ BindSocial(s)
        \/ SetActive

Spec == Init /\ [][Next]_vars

-----------------------------------------------------------------------------
\* Types.
AccountTypeOK ==
    /\ Ids = 1..Cardinality(Ids) /\ Cardinality(Ids) <= MaxUsers
    /\ \A u \in Ids : /\ user[u].type \in Provider \cup {"password"}
                      /\ user[u].identity \in
                             [Provider -> Identity \cup {NoIdentity}]
    /\ \A s \in Session : /\ cookie[s].user \in Ids \cup {None}
                          /\ access[s].user \in Ids \cup {None}
                          /\ session[s].pc \in {"idle", "find", "name",
                                                "create", "enter"}

\* An identity has one account, whoever signs in with it first and however
\* many accounts are after its user name; only for LDAP, whose column is not
\* unique, two first logins that overlap may end in two.
OneAccount ==
    /\ \A u, v \in Ids : user[u].name = user[v].name => u = v
    /\ \A p \in Provider, i \in Identity :
         Cardinality(Holders(p, i)) > 1 => /\ p \notin Unique
                                           /\ <<p, i>> \in overlapped

\* A token won with an identity is for the account that has it.
SignedIn ==
    \A token \in Range(cookie) \cup Range(access) :
        token.provider = NoIdentity
        \/ user[token.user].identity[token.provider] = token.identity

\* Whoever is found or made for an identity has the type of its provider, so
\* that no login comes to the save that would fail.
TypesFit ==
    /\ \A u \in Ids, p \in Provider :
          user[u].identity[p] # NoIdentity => user[u].type = p
    /\ \A s \in Session : session[s].pc = "enter" =>
          user[session[s].user].type = session[s].provider
AccountsSound == OneAccount /\ SignedIn /\ TypesFit
=============================================================================
