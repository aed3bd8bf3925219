---------------------------- MODULE AdminAccounts ----------------------------
(***************************************************************************)
(* The portal's administrator accounts and sessions: login, logout, expiry,*)
(* creation, deletion with its last-owner rule, and the identities that an *)
(* SSO proxy asserts, in both implementations.                             *)
(*                                                                         *)
(* Handlers run concurrently and every store call is one step.  The master *)
(* token is an owner at any time, so a management request can always be    *)
(* made and its guard on the caller's role does not restrict the model.    *)
(***************************************************************************)
EXTENDS RoleMap, FiniteSets

CONSTANTS
  Portals,     \* the implementations: subset of {"python", "go"}
  Thread,      \* handlers that may run at a time
  User,        \* user names, root-token not among them
  Roles,       \* roles that new accounts are given
  Session,     \* session tokens alive at a time
  None,        \* no account, no session
  MaxCreated   \* bound: accounts created

ASSUME PortalsAssumption == Portals \subseteq {"python", "go"}
ASSUME RolesAssumption == Roles \subseteq Role
ASSUME UserAssumption == IsFiniteSet(User)
ASSUME ThreadAssumption == IsFiniteSet(Thread)
ASSUME NoneAssumption == None \notin [role: Role, sso: BOOLEAN]
                         /\ None \notin [user: User, role: Role] /\ None \notin User
ASSUME CreatedAssumption == MaxCreated \in Nat

VARIABLES
  portal,    \* the implementation that runs
  admins,    \* table admins: the account of each user name
  sessions,  \* table sessions
  h,         \* per thread: where its handler is, whom it is about, the role read
  logged,    \* table audit: the admin_created, admin_deleted rows about each user name
  created,   \* accounts created, also for SSO
  happened,  \* history: creations and deletions of each user name
  earned,    \* history: <<user, role>> of the accounts that have a password
  overtaken  \* history: Go's deletions that decided on accounts since changed

vars == <<portal, admins, sessions, h, logged, created, happened, earned, overtaken>>

Event == {"created", "deleted"}
Account == [role: Role, sso: BOOLEAN]
SessionRow == [user: User, role: Role]
PCs == {"idle", "createSession", "count", "delete"} \cup Event
Handler == [pc: PCs, user: User \cup {None}, role: Role \cup {None}]
Idle == [pc |-> "idle", user |-> None, role |-> None]

Exists(u)  == admins[u] # None
IsLocal(u) == Exists(u) /\ ~admins[u].sso
Owners     == {u \in User : Exists(u) /\ admins[u].role = "owner"}

At(t, l)        == h[t].pc = l
Become(t, l, u, r) == h' = [h EXCEPT ![t] = [pc |-> l, user |-> u, role |-> r]]
Finish(t)       == h' = [h EXCEPT ![t] = Idle]

-----------------------------------------------------------------------------
(* Sessions.                                                               *)

\* Mutant: an account without a password is not refused.
Login_AnyAccount(t, u) ==
  /\ At(t, "idle") /\ Exists(u)
  /\ Become(t, "createSession", u, admins[u].role)
  /\ UNCHANGED <<portal, admins, sessions, logged, created, happened, earned, overtaken>>

\* The account is read and the password verified against it ...
Login(t, u) ==
  /\ At(t, "idle") /\ IsLocal(u)
  /\ Become(t, "createSession", u, admins[u].role)
  /\ UNCHANGED <<portal, admins, sessions, logged, created, happened, earned, overtaken>>

\* ... and the session gets the role that was read.
CreateSession(t, s) ==
  /\ At(t, "createSession") /\ sessions[s] = None
  /\ sessions' = [sessions EXCEPT ![s] = [user |-> h[t].user, role |-> h[t].role]]
  /\ Finish(t)
  /\ UNCHANGED <<portal, admins, logged, created, happened, earned, overtaken>>

\* Logout, or the session expires.
EndSession(s) ==
  /\ sessions[s] # None
  /\ sessions' = [sessions EXCEPT ![s] = None]
  /\ UNCHANGED <<portal, admins, h, logged, created, happened, earned, overtaken>>

-----------------------------------------------------------------------------
(* Accounts.                                                               *)

Happens(e, u) == happened' = [happened EXCEPT ![e][u] = @ + 1]

\* Mutant: the role is not validated.
Create_Unvalidated(t, u, r) ==
  /\ At(t, "idle") /\ ~Exists(u)
  /\ created < MaxCreated /\ created' = created + 1
  /\ admins' = [admins EXCEPT ![u] = [role |-> "", sso |-> FALSE]]
  /\ earned' = earned \cup {<<u, r>>}
  /\ Happens("created", u)
  /\ Become(t, "created", u, None)
  /\ UNCHANGED <<portal, sessions, logged, overtaken>>

\* POST admins: a user name that exists is refused, by the lookup of Go or by
\* the UNIQUE constraint.
Create(t, u, r) ==
  /\ At(t, "idle") /\ ~Exists(u)
  /\ created < MaxCreated /\ created' = created + 1
  /\ admins' = [admins EXCEPT ![u] = [role |-> r, sso |-> FALSE]]
  /\ earned' = earned \cup {<<u, r>>}
  /\ Happens("created", u)
  /\ Become(t, "created", u, None)
  /\ UNCHANGED <<portal, sessions, logged, overtaken>>

\* The deletions of Go that have made their check: a deletion or an upsert that
\* changes an account overtakes them.
Checked   == {t \in Thread : At(t, "delete")}
Overtakes == IF admins' = admins THEN {} ELSE Checked

\* Mutant: the conflict is looked for on the user name.
SsoRequest_ByName(u, r) ==
  /\ created < MaxCreated \/ Exists(u)
  /\ created' = IF Exists(u) THEN created ELSE created + 1
  /\ admins' = [admins EXCEPT ![u] = [role |-> r, sso |-> IF Exists(u) THEN admins[u].sso ELSE TRUE]]
  /\ overtaken' = overtaken \cup Overtakes
  /\ UNCHANGED <<portal, sessions, h, logged, happened, earned>>

\* The roles that the groups of an identity may give it, in either portal.
SsoRoles == {MapRole(groups) : groups \in GroupLists}

\* A request through the proxy upserts the row of its subject with the role of
\* its groups.  The name of a local account violates UNIQUE: the request fails.
SsoRequest(u, r) ==
  /\ ~IsLocal(u)
  /\ created < MaxCreated \/ Exists(u)
  /\ created' = IF Exists(u) THEN created ELSE created + 1
  /\ admins' = [admins EXCEPT ![u] = [role |-> r, sso |-> TRUE]]
  /\ overtaken' = overtaken \cup Overtakes
  /\ UNCHANGED <<portal, sessions, h, logged, happened, earned>>

Remove(u) ==
  /\ admins' = [admins EXCEPT ![u] = None]
  /\ IF Exists(u) THEN Happens("deleted", u) ELSE UNCHANGED happened

\* Mutant: a name without an account is not refused.
DeleteLocked_NotFoundIgnored(t, u) ==
  /\ portal = "python"
  /\ At(t, "idle") /\ Owners # {u}
  /\ Remove(u)
  /\ Become(t, "deleted", u, None)
  /\ UNCHANGED <<portal, sessions, logged, created, earned, overtaken>>

\* DELETE admins/{username}.  Python: lookup, count and deletion under the lock.
DeleteLocked(t, u) ==
  /\ portal = "python"
  /\ At(t, "idle") /\ Exists(u) /\ Owners # {u}
  /\ Remove(u)
  /\ Become(t, "deleted", u, None)
  /\ UNCHANGED <<portal, sessions, logged, created, earned, overtaken>>

\* Go: the lookup ...
Lookup(t, u) ==
  /\ portal = "go"
  /\ At(t, "idle") /\ Exists(u)
  /\ Become(t, IF admins[u].role = "owner" THEN "count" ELSE "delete", u, None)
  /\ UNCHANGED <<portal, admins, sessions, logged, created, happened, earned, overtaken>>

\* Mutant: one owner is enough.
Count_OffByOne(t) ==
  /\ At(t, "count")
  /\ IF Cardinality(Owners) >= 1 THEN Become(t, "delete", h[t].user, None) ELSE Finish(t)
  /\ UNCHANGED <<portal, admins, sessions, logged, created, happened, earned, overtaken>>

\* ... for an owner the count, which may refuse ...
Count(t) ==
  /\ At(t, "count")
  /\ IF Cardinality(Owners) > 1 THEN Become(t, "delete", h[t].user, None) ELSE Finish(t)
  /\ UNCHANGED <<portal, admins, sessions, logged, created, happened, earned, overtaken>>

\* ... and the deletion, whose result is not looked at.
Delete(t) ==
  /\ At(t, "delete")
  /\ Remove(h[t].user)
  /\ Become(t, "deleted", h[t].user, None)
  /\ overtaken' = (overtaken \cup Overtakes) \ {t}
  /\ UNCHANGED <<portal, sessions, logged, created, earned>>

\* The audit row of the creation or deletion, at the end of the handler.
Log(t) ==
  /\ h[t].pc \in Event
  /\ logged' = [logged EXCEPT ![h[t].pc][h[t].user] = @ + 1]
  /\ Finish(t)
  /\ UNCHANGED <<portal, admins, sessions, created, happened, earned, overtaken>>

\* A store call fails, or the portal is restarted.
Dies(t) ==
  /\ ~At(t, "idle")
  /\ Finish(t)
  /\ overtaken' = overtaken \ {t}
  /\ UNCHANGED <<portal, admins, sessions, logged, created, happened, earned>>

-----------------------------------------------------------------------------
Init ==
  /\ portal \in Portals
  /\ admins = [u \in User |-> None]
  /\ sessions = [s \in Session |-> None]
  /\ h = [t \in Thread |-> Idle]
  /\ logged = [e \in Event |-> [u \in User |-> 0]]
  /\ created = 0
  /\ happened = [e \in Event |-> [u \in User |-> 0]]
  /\ earned = {}
  /\ overtaken = {}

Next ==
  \/ \E t \in Thread :
       \/ \E u \in User : Login(t, u) \/ DeleteLocked(t, u) \/ Lookup(t, u)
       \/ \E s \in Session : CreateSession(t, s)
       \/ \E u \in User, r \in Roles : Create(t, u, r)
       \/ Count(t) \/ Delete(t) \/ Log(t) \/ Dies(t)
  \/ \E u \in User, r \in SsoRoles : SsoRequest(u, r)
  \/ \E s \in Session : EndSession(s)

Spec == Init /\ [][Next]_vars

-----------------------------------------------------------------------------
(* Properties.                                                             *)

TypeOK ==
  /\ portal \in Portals
  /\ admins \in [User -> Account \cup {None}]
  /\ sessions \in [Session -> SessionRow \cup {None}]
  /\ h \in [Thread -> Handler]
  /\ logged \in [Event -> [User -> Nat]] /\ happened \in [Event -> [User -> Nat]]
  /\ created \in 0..MaxCreated
  /\ earned \subseteq User \X Role
  /\ overtaken \subseteq Thread

\* The contract: the last owner cannot be removed.  (A demotion by the groups
\* of the proxy is not a removal.)  Python keeps to it whatever handlers
\* overlap.  Go looks, counts and deletes in three calls, and the contract is
\* broken in one way only: a deletion or an upsert by the proxy changed an
\* account between the check and the deletion.  No slower login, creation,
\* failing call or overlapping lookup, and nothing before the check, does it.
LastOwnerKept ==
  [][\A u \in Owners : admins'[u] = None =>
       Owners' # {} \/ \E t \in overtaken : Delete(t)]_vars

\* What the proxy asserts never takes a local account over: neither its role
\* nor its password row changes until it is deleted.
LocalAccountIsFixed ==
  [][\A u \in User : IsLocal(u) => admins'[u] \in {admins[u], None}]_vars

\* A session, also one made while its account is being deleted or replaced, has
\* a role that an account with a password had: none stems from an SSO row.
SessionIsEarned ==
  \A s \in Session : sessions[s] # None => <<sessions[s].user, sessions[s].role>> \in earned

\* The audit log shows no creation that did not happen, and in Python no such
\* deletion either, whatever handlers overlap or die.
AccountLogIsTrue ==
  \A e \in Event : (e = "created" \/ portal = "python") =>
    \A u \in User : logged[e][u] <= happened[e][u]
=============================================================================
