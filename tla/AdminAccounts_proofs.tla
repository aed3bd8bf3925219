------------------------ MODULE AdminAccounts_proofs ------------------------
(***************************************************************************)
(* Proofs about AdminAccounts, for any user names, roles, sessions and     *)
(* numbers of overlapping handlers: where the role of a session comes from,*)
(* the last owner and the audit of Python, what the proxy cannot do, and   *)
(* that the two portals map the groups of an identity to the same role.    *)
(***************************************************************************)
EXTENDS AdminAccounts, FiniteSetTheorems, WellFoundedInduction, TLAPS

-----------------------------------------------------------------------------
(* The conjuncts of the inductive invariant.                               *)

\* What a handler holds, by where it is.  Python deletes in one call.
Handlers ==
  \A t \in Thread :
    /\ ~At(t, "idle") => h[t].user \in User
    /\ At(t, "createSession") => h[t].role \in Role
    /\ portal = "python" => ~At(t, "count") /\ ~At(t, "delete")

\* The role of an account with a password, and the role that a login has read
\* from it, is earned.
Earned ==
  /\ \A u \in User : IsLocal(u) => <<u, admins[u].role>> \in earned
  /\ \A t \in Thread : At(t, "createSession") => <<h[t].user, h[t].role>> \in earned

\* The handlers that have created or deleted an account and are still to log it.
ToLog(e, u) == {t \in Thread : At(t, e) /\ h[t].user = u}

\* A creation, and in Python a deletion, is logged at most once, whatever
\* handlers overlap.
LogsAccounted ==
  \A e \in Event : (e = "created" \/ portal = "python") =>
    \A u \in User : logged[e][u] + Cardinality(ToLog(e, u)) <= happened[e][u]

IInv ==
  /\ TypeOK
  /\ Handlers
  /\ Earned
  /\ SessionIsEarned
  /\ LogsAccounted

-----------------------------------------------------------------------------
(* One lemma per conjunct, one step per action.                            *)

\* Whatever groups are asserted, the role is one of the four.
LEMMA MappedRole == ASSUME NEW groups PROVE MapRole(groups) \in Role
<1>1. CASE Matched(groups) = {}
  BY <1>1 DEF MapRole, Role, Rank
<1>2. CASE Matched(groups) # {}
  <2>1. Matched(groups) \subseteq {"owner", "admin", "helpdesk", "auditor"}
    BY DEF Matched, Role, Rank
  <2>2. \E r \in Matched(groups) : \A q \in Matched(groups) : Rank[q] <= Rank[r]
    BY <1>2, <2>1 DEF Rank
  <2>3. MapRole(groups) \in Matched(groups)
    BY <1>2, <2>2 DEF MapRole
  <2>4. QED
    BY <2>3 DEF Matched
<1>3. QED
  BY <1>1, <1>2

LEMMA RolesOK == Roles \subseteq Role /\ SsoRoles \subseteq Role
  BY MappedRole, RolesAssumption DEF SsoRoles

\* Every step keeps the types.
LEMMA TypeNext == TypeOK /\ Handlers /\ [Next]_vars => TypeOK'
<1> SUFFICES ASSUME TypeOK, Handlers, [Next]_vars
             PROVE  TypeOK'
  OBVIOUS
<1> USE CreatedAssumption, RolesOK DEF TypeOK, Event, Handlers, Handler, Account, SessionRow,
        PCs, Exists, IsLocal, At, Become, Finish, Idle, Checked, Overtakes, vars
<1>1. ASSUME NEW t \in Thread, NEW u \in User, Login(t, u) PROVE TypeOK'
  BY <1>1 DEF Login
<1>2. ASSUME NEW t \in Thread, NEW s \in Session, CreateSession(t, s) PROVE TypeOK'
  BY <1>2 DEF CreateSession
<1>3. ASSUME NEW s \in Session, EndSession(s) PROVE TypeOK'
  BY <1>3 DEF EndSession
<1>4. ASSUME NEW t \in Thread, NEW u \in User, NEW r \in Roles, Create(t, u, r) PROVE TypeOK'
  BY <1>4 DEF Create, Happens
<1>5. ASSUME NEW u \in User, NEW r \in SsoRoles, SsoRequest(u, r) PROVE TypeOK'
  BY <1>5 DEF SsoRequest
<1>6. ASSUME NEW t \in Thread, NEW u \in User, DeleteLocked(t, u) PROVE TypeOK'
  BY <1>6 DEF DeleteLocked, Remove, Happens
<1>7. ASSUME NEW t \in Thread, NEW u \in User, Lookup(t, u) PROVE TypeOK'
  BY <1>7 DEF Lookup
<1>8. ASSUME NEW t \in Thread, Count(t) PROVE TypeOK'
  BY <1>8 DEF Count
<1>9. ASSUME NEW t \in Thread, Delete(t) PROVE TypeOK'
  BY <1>9 DEF Delete, Remove, Happens
<1>10. ASSUME NEW t \in Thread, Log(t) PROVE TypeOK'
  BY <1>10 DEF Log
<1>11. ASSUME NEW t \in Thread, Dies(t) PROVE TypeOK'
  BY <1>11 DEF Dies
<1>12. CASE UNCHANGED vars
  BY <1>12
<1>13. QED
  BY <1>1, <1>2, <1>3, <1>4, <1>5, <1>6, <1>7, <1>8, <1>9, <1>10, <1>11,
     <1>12 DEF Next

\* A handler keeps the name it was asked about, and a login the role it read.
LEMMA HandlersNext == TypeOK /\ Handlers /\ [Next]_vars => Handlers'
<1> SUFFICES ASSUME TypeOK, Handlers, [Next]_vars
             PROVE  Handlers'
  OBVIOUS
<1> USE NoneAssumption, RolesOK DEF TypeOK, Handlers, Handler, Account, PCs, Event, Exists,
        IsLocal, At, Become, Finish, Idle, vars
<1>1. ASSUME NEW t \in Thread, NEW u \in User, Login(t, u) PROVE Handlers'
  BY <1>1 DEF Login
<1>2. ASSUME NEW t \in Thread, NEW s \in Session, CreateSession(t, s)
     PROVE  Handlers'
  BY <1>2 DEF CreateSession
<1>3. ASSUME NEW s \in Session, EndSession(s) PROVE Handlers'
  BY <1>3 DEF EndSession
<1>4. ASSUME NEW t \in Thread, NEW u \in User, NEW r \in Roles, Create(t, u, r) PROVE Handlers'
  BY <1>4 DEF Create, Happens
<1>5. ASSUME NEW u \in User, NEW r \in SsoRoles, SsoRequest(u, r) PROVE Handlers'
  BY <1>5 DEF SsoRequest
<1>6. ASSUME NEW t \in Thread, NEW u \in User, DeleteLocked(t, u) PROVE Handlers'
  BY <1>6 DEF DeleteLocked, Remove, Happens
<1>7. ASSUME NEW t \in Thread, NEW u \in User, Lookup(t, u) PROVE Handlers'
  BY <1>7 DEF Lookup
<1>8. ASSUME NEW t \in Thread, Count(t) PROVE Handlers'
  BY <1>8 DEF Count
<1>9. ASSUME NEW t \in Thread, Delete(t) PROVE Handlers'
  BY <1>9 DEF Delete, Remove, Happens
<1>10. ASSUME NEW t \in Thread, Log(t) PROVE Handlers'
  BY <1>10 DEF Log
<1>11. ASSUME NEW t \in Thread, Dies(t) PROVE Handlers'
  BY <1>11 DEF Dies
<1>12. CASE UNCHANGED vars
  BY <1>12
<1>13. QED
  BY <1>1, <1>2, <1>3, <1>4, <1>5, <1>6, <1>7, <1>8, <1>9, <1>10, <1>11,
     <1>12 DEF Next

\* Roles are earned when the account is created, and stay earned.
LEMMA EarnedNext == TypeOK /\ Handlers /\ Earned /\ [Next]_vars => Earned'
<1> SUFFICES ASSUME TypeOK, Handlers, Earned, [Next]_vars
             PROVE  Earned'
  OBVIOUS
<1> USE NoneAssumption, RolesOK DEF TypeOK, Handlers, Handler, Account, PCs, Event, Exists,
        IsLocal, Earned, At, Become, Finish, Idle, vars
<1>1. ASSUME NEW t \in Thread, NEW u \in User, Login(t, u) PROVE Earned'
  BY <1>1 DEF Login
<1>2. ASSUME NEW t \in Thread, NEW s \in Session, CreateSession(t, s) PROVE Earned'
  BY <1>2 DEF CreateSession
<1>3. ASSUME NEW s \in Session, EndSession(s) PROVE Earned'
  BY <1>3 DEF EndSession
<1>4. ASSUME NEW t \in Thread, NEW u \in User, NEW r \in Roles, Create(t, u, r) PROVE Earned'
  BY <1>4 DEF Create, Happens
<1>5. ASSUME NEW u \in User, NEW r \in SsoRoles, SsoRequest(u, r) PROVE Earned'
  BY <1>5 DEF SsoRequest
<1>6. ASSUME NEW t \in Thread, NEW u \in User, DeleteLocked(t, u) PROVE Earned'
  BY <1>6 DEF DeleteLocked, Remove, Happens
<1>7. ASSUME NEW t \in Thread, NEW u \in User, Lookup(t, u) PROVE Earned'
  BY <1>7 DEF Lookup
<1>8. ASSUME NEW t \in Thread, Count(t) PROVE Earned'
  BY <1>8 DEF Count
<1>9. ASSUME NEW t \in Thread, Delete(t) PROVE Earned'
  BY <1>9 DEF Delete, Remove, Happens
<1>10. ASSUME NEW t \in Thread, Log(t) PROVE Earned'
  BY <1>10 DEF Log
<1>11. ASSUME NEW t \in Thread, Dies(t) PROVE Earned'
  BY <1>11 DEF Dies
<1>12. CASE UNCHANGED vars
  BY <1>12
<1>13. QED
  BY <1>1, <1>2, <1>3, <1>4, <1>5, <1>6, <1>7, <1>8, <1>9, <1>10, <1>11,
     <1>12 DEF Next

\* A session takes over the role that its login has read.
LEMMA SessionNext ==
  TypeOK /\ Handlers /\ Earned /\ SessionIsEarned /\ [Next]_vars => SessionIsEarned'
<1> SUFFICES ASSUME TypeOK, Handlers, Earned, SessionIsEarned, [Next]_vars
             PROVE  SessionIsEarned'
  OBVIOUS
<1> USE NoneAssumption DEF TypeOK, Handlers, Earned, SessionIsEarned, At,
        Become, Finish, Idle, vars
<1>1. ASSUME NEW t \in Thread, NEW u \in User, Login(t, u) PROVE SessionIsEarned'
  BY <1>1 DEF Login
<1>2. ASSUME NEW t \in Thread, NEW s \in Session, CreateSession(t, s)
     PROVE  SessionIsEarned'
  BY <1>2 DEF CreateSession
<1>3. ASSUME NEW s \in Session, EndSession(s) PROVE SessionIsEarned'
  BY <1>3 DEF EndSession
<1>4. ASSUME NEW t \in Thread, NEW u \in User, NEW r \in Roles, Create(t, u, r) PROVE SessionIsEarned'
  BY <1>4 DEF Create, Happens
<1>5. ASSUME NEW u \in User, NEW r \in SsoRoles, SsoRequest(u, r)
     PROVE  SessionIsEarned'
  BY <1>5 DEF SsoRequest
<1>6. ASSUME NEW t \in Thread, NEW u \in User, DeleteLocked(t, u)
     PROVE  SessionIsEarned'
  BY <1>6 DEF DeleteLocked, Remove, Happens
<1>7. ASSUME NEW t \in Thread, NEW u \in User, Lookup(t, u) PROVE SessionIsEarned'
  BY <1>7 DEF Lookup
<1>8. ASSUME NEW t \in Thread, Count(t) PROVE SessionIsEarned'
  BY <1>8 DEF Count
<1>9. ASSUME NEW t \in Thread, Delete(t) PROVE SessionIsEarned'
  BY <1>9 DEF Delete, Remove, Happens
<1>10. ASSUME NEW t \in Thread, Log(t) PROVE SessionIsEarned'
  BY <1>10 DEF Log
<1>11. ASSUME NEW t \in Thread, Dies(t) PROVE SessionIsEarned'
  BY <1>11 DEF Dies
<1>12. CASE UNCHANGED vars
  BY <1>12
<1>13. QED
  BY <1>1, <1>2, <1>3, <1>4, <1>5, <1>6, <1>7, <1>8, <1>9, <1>10, <1>11,
     <1>12 DEF Next

\* The handlers that are to log are finitely many.
LEMMA ToLogFinite ==
  ASSUME NEW e, NEW u
  PROVE  IsFiniteSet(ToLog(e, u)) /\ Cardinality(ToLog(e, u)) \in Nat
  BY ThreadAssumption, FS_Subset, FS_CardinalityType DEF ToLog

\* A step that adds no handler that is to log keeps the account.
LEMMA Fewer ==
  ASSUME TypeOK, LogsAccounted, UNCHANGED <<logged, happened, portal>>,
         \A x \in Thread, e \in Event :
           At(x, e)' => At(x, e) /\ h'[x].user = h[x].user
  PROVE  LogsAccounted'
<1>1. ASSUME NEW e \in Event, NEW u \in User
      PROVE  Cardinality(ToLog(e, u)') <= Cardinality(ToLog(e, u))
  <2>1. ToLog(e, u)' \subseteq ToLog(e, u)
    BY DEF ToLog
  <2>2. QED
    BY <2>1, ToLogFinite, FS_Subset
<1>2. ASSUME NEW e \in Event, NEW u \in User PROVE Cardinality(ToLog(e, u)') \in Nat
  <2>1. ToLog(e, u)' \subseteq Thread
    BY DEF ToLog
  <2>2. QED
    BY <2>1, ThreadAssumption, FS_Subset, FS_CardinalityType
<1>3. QED
  BY <1>1, <1>2, ToLogFinite DEF LogsAccounted, TypeOK

\* An idle handler that does what is counted, and goes on to log it, keeps the
\* account.
LEMMA Counts ==
  ASSUME TypeOK, LogsAccounted, NEW t \in Thread, NEW e \in Event, NEW u \in User,
         At(t, "idle"), Happens(e, u), Become(t, e, u, None),
         UNCHANGED <<logged, portal>>
  PROVE  LogsAccounted'
<1> USE DEF Event, At, Become
<1>1. t \notin ToLog(e, u) /\ ToLog(e, u)' = ToLog(e, u) \cup {t}
  BY DEF ToLog, TypeOK
<1>2. Cardinality(ToLog(e, u)') = Cardinality(ToLog(e, u)) + 1
  BY <1>1, ToLogFinite, FS_AddElement
<1>3. ASSUME NEW f \in Event, NEW v \in User, f # e \/ v # u
      PROVE  ToLog(f, v)' = ToLog(f, v) /\ happened'[f][v] = happened[f][v]
  BY <1>3 DEF ToLog, Happens, TypeOK
<1>4. happened'[e][u] = happened[e][u] + 1 /\ happened[e][u] \in Nat /\ logged[e][u] \in Nat
  BY DEF Happens, TypeOK
<1>5. ASSUME NEW f \in Event, NEW v \in User, f = "created" \/ portal = "python"
      PROVE  logged[f][v] + Cardinality(ToLog(f, v)') <= happened'[f][v]
  <2>1. logged[f][v] + Cardinality(ToLog(f, v)) <= happened[f][v]
    BY <1>5 DEF LogsAccounted
  <2>2. CASE f = e /\ v = u
    BY <1>2, <1>4, <2>1, <2>2, ToLogFinite
  <2>3. CASE f # e \/ v # u
    BY <1>3, <2>1, <2>3
  <2>4. QED
    BY <2>2, <2>3
<1>6. QED
  BY <1>5 DEF LogsAccounted

\* A creation or deletion is counted when it happens, and logged once after that.
LEMMA LogsNext == TypeOK /\ Handlers /\ LogsAccounted /\ [Next]_vars => LogsAccounted'
<1> SUFFICES ASSUME TypeOK, Handlers, LogsAccounted, [Next]_vars
             PROVE  LogsAccounted'
  OBVIOUS
<1> USE DEF TypeOK, Handler, PCs, Event, Exists, At, Become, Finish, Idle, vars
<1>1. ASSUME NEW t \in Thread, NEW u \in User, Login(t, u) PROVE LogsAccounted'
  <2>1. UNCHANGED <<logged, happened, portal>>
    BY <1>1 DEF Login
  <2>2. ASSUME NEW x \in Thread, NEW e \in Event, At(x, e)'
        PROVE  At(x, e) /\ h'[x].user = h[x].user
    BY <1>1, <2>2 DEF Login
  <2>3. QED
    BY <2>1, <2>2, Fewer
<1>2. ASSUME NEW t \in Thread, NEW s \in Session, CreateSession(t, s)
     PROVE  LogsAccounted'
  <2>1. UNCHANGED <<logged, happened, portal>>
    BY <1>2 DEF CreateSession
  <2>2. ASSUME NEW x \in Thread, NEW e \in Event, At(x, e)'
        PROVE  At(x, e) /\ h'[x].user = h[x].user
    BY <1>2, <2>2 DEF CreateSession
  <2>3. QED
    BY <2>1, <2>2, Fewer
<1>3. ASSUME NEW s \in Session, EndSession(s) PROVE LogsAccounted'
  <2>1. UNCHANGED <<logged, happened, portal>>
    BY <1>3 DEF EndSession
  <2>2. ASSUME NEW x \in Thread, NEW e \in Event, At(x, e)'
        PROVE  At(x, e) /\ h'[x].user = h[x].user
    BY <1>3, <2>2 DEF EndSession
  <2>3. QED
    BY <2>1, <2>2, Fewer
<1>4. ASSUME NEW t \in Thread, NEW u \in User, NEW r \in Roles, Create(t, u, r)
     PROVE  LogsAccounted'
  <2>1. At(t, "idle") /\ Happens("created", u) /\ Become(t, "created", u, None)
        /\ UNCHANGED <<logged, portal>>
    BY <1>4 DEF Create
  <2>2. QED
    BY <2>1, Counts
<1>5. ASSUME NEW u \in User, NEW r \in SsoRoles, SsoRequest(u, r) PROVE LogsAccounted'
  <2>1. UNCHANGED <<logged, happened, portal>>
    BY <1>5 DEF SsoRequest
  <2>2. ASSUME NEW x \in Thread, NEW e \in Event, At(x, e)'
        PROVE  At(x, e) /\ h'[x].user = h[x].user
    BY <1>5, <2>2 DEF SsoRequest
  <2>3. QED
    BY <2>1, <2>2, Fewer
<1>6. ASSUME NEW t \in Thread, NEW u \in User, DeleteLocked(t, u)
     PROVE  LogsAccounted'
  <2>1. At(t, "idle") /\ Happens("deleted", u) /\ Become(t, "deleted", u, None)
        /\ UNCHANGED <<logged, portal>>
    BY <1>6 DEF DeleteLocked, Remove
  <2>2. QED
    BY <2>1, Counts
<1>7. ASSUME NEW t \in Thread, NEW u \in User, Lookup(t, u) PROVE LogsAccounted'
  <2>1. UNCHANGED <<logged, happened, portal>>
    BY <1>7 DEF Lookup
  <2>2. ASSUME NEW x \in Thread, NEW e \in Event, At(x, e)'
        PROVE  At(x, e) /\ h'[x].user = h[x].user
    BY <1>7, <2>2 DEF Lookup
  <2>3. QED
    BY <2>1, <2>2, Fewer
<1>8. ASSUME NEW t \in Thread, Count(t) PROVE LogsAccounted'
  <2>1. UNCHANGED <<logged, happened, portal>>
    BY <1>8 DEF Count
  <2>2. ASSUME NEW x \in Thread, NEW e \in Event, At(x, e)'
        PROVE  At(x, e) /\ h'[x].user = h[x].user
    BY <1>8, <2>2 DEF Count
  <2>3. QED
    BY <2>1, <2>2, Fewer
<1>9. ASSUME NEW t \in Thread, Delete(t) PROVE LogsAccounted'
  <2>1. portal # "python" /\ UNCHANGED <<logged, portal>>
    BY <1>9 DEF Delete, Handlers
  <2>2. happened'["created"] = happened["created"]
    BY <1>9 DEF Delete, Remove, Happens
  <2>3. ASSUME NEW u \in User PROVE ToLog("created", u)' \subseteq ToLog("created", u)
    BY <1>9 DEF Delete, ToLog
  <2>4. ASSUME NEW u \in User
        PROVE  /\ Cardinality(ToLog("created", u)') <= Cardinality(ToLog("created", u))
               /\ Cardinality(ToLog("created", u)') \in Nat
    BY <2>3, ToLogFinite, FS_Subset, FS_CardinalityType
  <2>5. ASSUME NEW u \in User
        PROVE  logged["created"][u] + Cardinality(ToLog("created", u)') <= happened["created"][u]
    <3>1. logged["created"][u] \in Nat /\ happened["created"][u] \in Nat
      OBVIOUS
    <3>2. logged["created"][u] + Cardinality(ToLog("created", u)) <= happened["created"][u]
      BY DEF LogsAccounted
    <3>3. QED
      BY <2>4, <3>1, <3>2, ToLogFinite
  <2>6. QED
    BY <2>1, <2>2, <2>5 DEF LogsAccounted
<1>10. ASSUME NEW t \in Thread, Log(t) PROVE LogsAccounted'
  <2> PICK e \in Event, u \in User : e = h[t].pc /\ u = h[t].user
    BY <1>10 DEF Log, Handlers
  <2>1. UNCHANGED <<happened, portal>> /\ t \in ToLog(e, u)
    BY <1>10 DEF Log, ToLog
  <2>2. ToLog(e, u)' = ToLog(e, u) \ {t}
    BY <1>10 DEF Log, ToLog
  <2>3. Cardinality(ToLog(e, u)') = Cardinality(ToLog(e, u)) - 1
    <3>1. IsFiniteSet(ToLog(e, u)) /\ t \in ToLog(e, u)
      BY <2>1, ToLogFinite
    <3>2. Cardinality(ToLog(e, u) \ {t}) = Cardinality(ToLog(e, u)) - 1
      BY <3>1, FS_RemoveElement
    <3>3. QED
      BY <2>2, <3>2
  <2>4. logged' = [logged EXCEPT ![e][u] = logged[e][u] + 1] /\ logged[e][u] \in Nat
    BY <1>10 DEF Log
  <2>5. ASSUME NEW f \in Event, NEW v \in User, f # e \/ v # u
        PROVE  ToLog(f, v)' = ToLog(f, v) /\ logged'[f][v] = logged[f][v]
    BY <1>10, <2>1, <2>4, <2>5 DEF Log, ToLog
  <2>6. ASSUME NEW f \in Event, NEW v \in User, f = "created" \/ portal = "python"
        PROVE  logged'[f][v] + Cardinality(ToLog(f, v)') <= happened[f][v]
    <3>1. logged[f][v] + Cardinality(ToLog(f, v)) <= happened[f][v]
      BY <2>6 DEF LogsAccounted
    <3>2. CASE f = e /\ v = u
      BY <2>3, <2>4, <3>1, <3>2, ToLogFinite
    <3>3. CASE f # e \/ v # u
      BY <2>5, <3>1, <3>3
    <3>4. QED
      BY <3>2, <3>3
  <2>7. QED
    BY <2>1, <2>6 DEF LogsAccounted
<1>11. ASSUME NEW t \in Thread, Dies(t) PROVE LogsAccounted'
  <2>1. UNCHANGED <<logged, happened, portal>>
    BY <1>11 DEF Dies
  <2>2. ASSUME NEW x \in Thread, NEW e \in Event, At(x, e)'
        PROVE  At(x, e) /\ h'[x].user = h[x].user
    BY <1>11, <2>2 DEF Dies
  <2>3. QED
    BY <2>1, <2>2, Fewer
<1>12. CASE UNCHANGED vars
  BY <1>12, Fewer
<1>13. QED
  BY <1>1, <1>2, <1>3, <1>4, <1>5, <1>6, <1>7, <1>8, <1>9, <1>10, <1>11,
     <1>12 DEF Next

-----------------------------------------------------------------------------
(* The theorems.                                                           *)

\* There are no accounts, sessions or handlers at first.
LEMMA InvInit == Init => IInv
<1> SUFFICES ASSUME Init PROVE IInv
  OBVIOUS
<1>1. TypeOK
  BY CreatedAssumption DEF Init, TypeOK, Handler, Idle, PCs, Event
<1>2. Handlers /\ Earned /\ SessionIsEarned
  BY DEF Init, Handlers, Earned, SessionIsEarned, Exists, IsLocal, At, Idle
<1>3. \A e \in Event, u \in User : ToLog(e, u) = {}
  BY DEF Init, ToLog, At, Idle, Event
<1>4. LogsAccounted
  <2>1. ASSUME NEW e \in Event, NEW u \in User
        PROVE  Cardinality(ToLog(e, u)) = 0 /\ logged[e][u] = 0 /\ happened[e][u] = 0
    BY <1>3, FS_EmptySet DEF Init
  <2>2. QED
    BY <2>1 DEF LogsAccounted
<1>5. QED
  BY <1>1, <1>2, <1>4 DEF IInv

\* The conjuncts are inductive together.
LEMMA InvNext == IInv /\ [Next]_vars => IInv'
  BY TypeNext, HandlersNext, EarnedNext, SessionNext, LogsNext DEF IInv

\* The invariant holds in every state the portal reaches.
THEOREM Invariance == Spec => []IInv
  BY InvInit, InvNext, PTL DEF Spec

\* Every variable keeps its type: the tables, and the variables of the handlers.
THEOREM TypeCorrect == Spec => []TypeOK
<1>1. IInv => TypeOK
  BY DEF IInv
<1>2. QED
  BY Invariance, <1>1, PTL

\* The role of a session was the role of an account with a password: no login
\* that overlaps a deletion or an upsert turns an SSO row into a session.
THEOREM SessionsEarned == Spec => []SessionIsEarned
<1>1. IInv => SessionIsEarned
  BY DEF IInv
<1>2. QED
  BY Invariance, <1>1, PTL

\* No audit row tells of a creation, nor in Python of a deletion, that did not happen.
THEOREM AccountLogTrue == Spec => []AccountLogIsTrue
<1>1. IInv => AccountLogIsTrue
  BY ToLogFinite DEF IInv, LogsAccounted, AccountLogIsTrue, TypeOK
<1>2. QED
  BY Invariance, <1>1, PTL

\* A step that changes a local account deletes it.
LEMMA LocalStep ==
  TypeOK /\ Handlers /\ [Next]_vars =>
    (\A u \in User : IsLocal(u) => admins'[u] \in {admins[u], None})
<1> SUFFICES ASSUME TypeOK, Handlers, [Next]_vars
             PROVE  (\A u \in User : IsLocal(u) => admins'[u] \in {admins[u], None})
  OBVIOUS
<1> DEFINE Fixed == \A u \in User : IsLocal(u) => admins'[u] \in {admins[u], None}
<1> USE NoneAssumption, RolesOK DEF TypeOK, Handlers, Account, Exists, IsLocal, At,
        Become, Finish, Idle, vars
<1>1. ASSUME NEW t \in Thread, NEW u \in User, Login(t, u)
     PROVE  Fixed
  BY <1>1 DEF Login
<1>2. ASSUME NEW t \in Thread, NEW s \in Session, CreateSession(t, s)
     PROVE  Fixed
  BY <1>2 DEF CreateSession
<1>3. ASSUME NEW s \in Session, EndSession(s)
     PROVE  Fixed
  BY <1>3 DEF EndSession
<1>4. ASSUME NEW t \in Thread, NEW u \in User, NEW r \in Roles, Create(t, u, r)
     PROVE  Fixed
  BY <1>4 DEF Create, Happens
<1>5. ASSUME NEW u \in User, NEW r \in SsoRoles, SsoRequest(u, r)
     PROVE  Fixed
  BY <1>5 DEF SsoRequest
<1>6. ASSUME NEW t \in Thread, NEW u \in User, DeleteLocked(t, u)
     PROVE  Fixed
  BY <1>6 DEF DeleteLocked, Remove, Happens
<1>7. ASSUME NEW t \in Thread, NEW u \in User, Lookup(t, u)
     PROVE  Fixed
  BY <1>7 DEF Lookup
<1>8. ASSUME NEW t \in Thread, Count(t)
     PROVE  Fixed
  BY <1>8 DEF Count
<1>9. ASSUME NEW t \in Thread, Delete(t)
     PROVE  Fixed
  BY <1>9 DEF Delete, Remove, Happens
<1>10. ASSUME NEW t \in Thread, Log(t)
     PROVE  Fixed
  BY <1>10 DEF Log
<1>11. ASSUME NEW t \in Thread, Dies(t)
     PROVE  Fixed
  BY <1>11 DEF Dies
<1>12. CASE UNCHANGED vars
  BY <1>12
<1>13. QED
  BY <1>1, <1>2, <1>3, <1>4, <1>5, <1>6, <1>7, <1>8, <1>9, <1>10, <1>11,
     <1>12 DEF Next

\* No identity that the proxy asserts changes an account with a password.
THEOREM LocalAccountsFixed == Spec => LocalAccountIsFixed
<1> DEFINE Fixed == \A u \in User : IsLocal(u) => admins'[u] \in {admins[u], None}
<1>1. IInv /\ [Next]_vars => [Fixed]_vars
  BY LocalStep DEF IInv
<1>2. Spec => [][Fixed]_vars
  BY <1>1, Invariance, PTL DEF Spec
<1>3. QED
  BY <1>2 DEF LocalAccountIsFixed

-----------------------------------------------------------------------------
(* Which overlap the last-owner rule of Go is exposed to.                  *)

\* What a check of Go that was not overtaken still says at the deletion: it does
\* not take the only owner, and where there is no owner the account is there, so
\* that nobody can create it as one.
Holds(u) == Owners # {u} /\ (Owners = {} => Exists(u))
ChecksHold == \A t \in Thread : At(t, "delete") /\ t \notin overtaken => Holds(h[t].user)

\* A handler comes to its deletion by the lookup or by the count.
LEMMA ComesToDelete ==
  ASSUME TypeOK, [Next]_vars, NEW t \in Thread, h'[t].pc = "delete"
  PROVE  h'[t] = h[t] \/ Count(t) \/ \E u \in User : Lookup(t, u)
<1> DEFINE Comes == h'[t] = h[t] \/ Count(t) \/ \E u \in User : Lookup(t, u)
<1> USE DEF TypeOK, At, Become, Finish, Idle, vars
<1>1. ASSUME NEW p \in Thread, NEW u \in User, Login(p, u) PROVE Comes
  BY <1>1 DEF Login
<1>2. ASSUME NEW p \in Thread, NEW s \in Session, CreateSession(p, s) PROVE Comes
  BY <1>2 DEF CreateSession
<1>3. ASSUME NEW s \in Session, EndSession(s) PROVE Comes
  BY <1>3 DEF EndSession
<1>4. ASSUME NEW p \in Thread, NEW u \in User, NEW r \in Roles, Create(p, u, r) PROVE Comes
  BY <1>4 DEF Create
<1>5. ASSUME NEW u \in User, NEW r \in SsoRoles, SsoRequest(u, r) PROVE Comes
  BY <1>5 DEF SsoRequest
<1>6. ASSUME NEW p \in Thread, NEW u \in User, DeleteLocked(p, u) PROVE Comes
  BY <1>6 DEF DeleteLocked
<1>7. ASSUME NEW p \in Thread, NEW u \in User, Lookup(p, u) PROVE Comes
  BY <1>7 DEF Lookup
<1>8. ASSUME NEW p \in Thread, Count(p) PROVE Comes
  BY <1>8 DEF Count
<1>9. ASSUME NEW p \in Thread, Delete(p) PROVE Comes
  BY <1>9 DEF Delete
<1>10. ASSUME NEW p \in Thread, Log(p) PROVE Comes
  BY <1>10 DEF Log
<1>11. ASSUME NEW p \in Thread, Dies(p) PROVE Comes
  BY <1>11 DEF Dies
<1>12. CASE UNCHANGED vars
  BY <1>12
<1>13. QED
  BY <1>1, <1>2, <1>3, <1>4, <1>5, <1>6, <1>7, <1>8, <1>9, <1>10, <1>11,
     <1>12 DEF Next

\* The check of the lookup, of an account that is no owner, and that of the count
\* hold when they are made.
LEMMA LookupHolds ==
  ASSUME TypeOK, NEW t \in Thread, NEW u \in User, Lookup(t, u), h'[t].pc = "delete"
  PROVE  Holds(h'[t].user)
<1>1. h'[t].user = u /\ Exists(u) /\ admins[u].role # "owner"
  BY DEF Lookup, Become, At, TypeOK
<1>2. QED
  BY <1>1 DEF Holds, Owners

LEMMA CountHolds ==
  ASSUME TypeOK, NEW t \in Thread, Count(t), h'[t].pc = "delete"
  PROVE  Holds(h'[t].user)
<1>1. h'[t] # Idle
  BY DEF Idle
<1>2. Cardinality(Owners) > 1
  BY <1>1 DEF Count, Finish, TypeOK
<1>3. Cardinality({h'[t].user}) = 1 /\ Cardinality({}) = 0
  BY FS_Singleton, FS_EmptySet
<1>4. QED
  BY <1>2, <1>3 DEF Holds

\* A handler that does not move stays overtaken.
LEMMA StaysOvertaken ==
  ASSUME TypeOK, [Next]_vars, NEW t \in overtaken, h'[t] = h[t], At(t, "delete")
  PROVE  t \in overtaken'
<1> DEFINE Stays == t \in overtaken'
<1> USE DEF TypeOK, At, Become, Finish, Idle, vars
<1>1. ASSUME NEW p \in Thread, NEW u \in User, Login(p, u) PROVE Stays
  BY <1>1 DEF Login
<1>2. ASSUME NEW p \in Thread, NEW s \in Session, CreateSession(p, s) PROVE Stays
  BY <1>2 DEF CreateSession
<1>3. ASSUME NEW s \in Session, EndSession(s) PROVE Stays
  BY <1>3 DEF EndSession
<1>4. ASSUME NEW p \in Thread, NEW u \in User, NEW r \in Roles, Create(p, u, r) PROVE Stays
  BY <1>4 DEF Create
<1>5. ASSUME NEW u \in User, NEW r \in SsoRoles, SsoRequest(u, r) PROVE Stays
  BY <1>5 DEF SsoRequest
<1>6. ASSUME NEW p \in Thread, NEW u \in User, DeleteLocked(p, u) PROVE Stays
  BY <1>6 DEF DeleteLocked
<1>7. ASSUME NEW p \in Thread, NEW u \in User, Lookup(p, u) PROVE Stays
  BY <1>7 DEF Lookup
<1>8. ASSUME NEW p \in Thread, Count(p) PROVE Stays
  BY <1>8 DEF Count
<1>9. ASSUME NEW p \in Thread, Delete(p) PROVE Stays
  BY <1>9 DEF Delete
<1>10. ASSUME NEW p \in Thread, Log(p) PROVE Stays
  BY <1>10 DEF Log
<1>11. ASSUME NEW p \in Thread, Dies(p) PROVE Stays
  BY <1>11 DEF Dies
<1>12. CASE UNCHANGED vars
  BY <1>12
<1>13. QED
  BY <1>1, <1>2, <1>3, <1>4, <1>5, <1>6, <1>7, <1>8, <1>9, <1>10, <1>11,
     <1>12 DEF Next

\* A step that changes an account creates one or overtakes the checks made.
LEMMA ChangesOvertake ==
  ASSUME TypeOK, Handlers, [Next]_vars, ~UNCHANGED admins
  PROVE  \/ \E t \in Thread, u \in User, r \in Roles : Create(t, u, r)
         \/ \A t \in Thread : h'[t].pc = "delete" => t \in overtaken'
<1> DEFINE Some == \E t \in Thread, u \in User, r \in Roles : Create(t, u, r)
           Overtaken == \A t \in Thread : h'[t].pc = "delete" => t \in overtaken'
<1> USE DEF TypeOK, At, Become, Finish, Idle, Checked, Overtakes, vars
<1>1. ASSUME NEW u \in User, NEW r \in SsoRoles, SsoRequest(u, r) PROVE Overtaken
  BY <1>1 DEF SsoRequest
<1>2. ASSUME NEW p \in Thread, NEW u \in User, DeleteLocked(p, u) PROVE Overtaken
  BY <1>2 DEF DeleteLocked, Handlers
<1>3. ASSUME NEW p \in Thread, Delete(p) PROVE Overtaken
  BY <1>3 DEF Delete
<1>4. ASSUME NEW p \in Thread, NEW u \in User, NEW r \in Roles, Create(p, u, r) PROVE Some
  BY <1>4
<1> HIDE DEF Some, Overtaken
<1>5. QED
  BY <1>1, <1>2, <1>3, <1>4
     DEF Next, Login, CreateSession, EndSession, Lookup, Count, Log, Dies, Some, Overtaken

\* A creation leaves a check true that was.
LEMMA CreateHolds ==
  ASSUME TypeOK, NEW p \in Thread, NEW v \in User, NEW r \in Roles, Create(p, v, r),
         NEW u \in User, Holds(u)
  PROVE  Holds(u)'
<1>1. [role |-> r, sso |-> FALSE] # None
  <2>1. [role |-> r, sso |-> FALSE] \in [role: Role, sso: BOOLEAN]
    BY RolesOK
  <2>2. QED
    BY <2>1, NoneAssumption
<1>2. /\ ~Exists(v) /\ admins'[v] # None
      /\ \A w \in User : w # v => admins'[w] = admins[w]
  BY <1>1 DEF Create, TypeOK
<1>3. Owners' = Owners \/ Owners' = Owners \cup {v}
  BY <1>2 DEF Owners, Exists
<1>4. Exists(u) => u # v /\ Exists(u)'
  BY <1>2 DEF Exists
<1>5. v \notin Owners
  BY <1>2 DEF Owners
<1>6. Owners' # {u}
  BY <1>3, <1>4, <1>5 DEF Holds
<1>7. Owners' = {} => Exists(u)'
  BY <1>3, <1>4 DEF Holds
<1>8. QED
  BY <1>6, <1>7 DEF Holds, Owners, Exists

\* The checks of Go hold until they are overtaken.
LEMMA ChecksNext == TypeOK /\ Handlers /\ ChecksHold /\ [Next]_vars => ChecksHold'
<1> SUFFICES ASSUME TypeOK, Handlers, ChecksHold, [Next]_vars,
                    NEW t \in Thread, h'[t].pc = "delete", t \notin overtaken'
             PROVE  Holds(h[t].user)'
  BY DEF ChecksHold, At, Holds, Owners, Exists
<1>1. CASE UNCHANGED admins
  <2>1. ASSUME Holds(h'[t].user) PROVE Holds(h[t].user)'
    BY <1>1, <2>1 DEF Holds, Owners, Exists
  <2>2. CASE h'[t] = h[t]
    <3>1. At(t, "delete") /\ t \notin overtaken
      BY <2>2, StaysOvertaken DEF At
    <3>2. QED
      BY <2>1, <2>2, <3>1 DEF ChecksHold
  <2>3. CASE Count(t)
    BY <2>1, <2>3, CountHolds
  <2>4. ASSUME NEW u \in User, Lookup(t, u) PROVE Holds(h[t].user)'
    BY <2>1, <2>4, LookupHolds
  <2>5. QED
    BY <2>2, <2>3, <2>4, ComesToDelete
<1>2. CASE ~UNCHANGED admins
  <2>1. PICK p \in Thread, v \in User, r \in Roles : Create(p, v, r)
    BY <1>2, ChangesOvertake
  <2>2. h'[t] = h[t]
    BY <2>1 DEF Create, Become, TypeOK
  <2>3. At(t, "delete") /\ t \notin overtaken /\ h[t].user \in User
    BY <2>2, StaysOvertaken DEF At, Handlers
  <2>4. Holds(h[t].user)
    BY <2>3 DEF ChecksHold
  <2>5. Holds(h[t].user)'
    <3> DEFINE u == h[t].user
    <3>1. Owners' # {u} /\ (Owners' = {} => admins'[u] # None)
      <4> HIDE DEF u
      <4>1. u \in User /\ Holds(u)
        BY <2>3, <2>4 DEF u
      <4>2. QED
        BY <2>1, <4>1, CreateHolds DEF Holds, Exists
    <3>2. h'[t].user = u
      BY <2>2
    <3>3. QED
      BY <3>1, <3>2 DEF Holds, Exists
  <2>6. QED
    BY <2>5
<1>3. QED
  BY <1>1, <1>2

\* The deletion of a check that holds leaves an owner, if it takes one.
LEMMA LastOwnerStep ==
  TypeOK /\ Handlers /\ ChecksHold /\ [Next]_vars =>
    \A u \in Owners : admins'[u] = None => Owners' # {} \/ \E t \in overtaken : Delete(t)
<1> SUFFICES ASSUME TypeOK, Handlers, ChecksHold, [Next]_vars,
                    ~ \E t \in overtaken : Delete(t)
             PROVE  \A u \in Owners : admins'[u] = None => Owners' # {}
  OBVIOUS
<1> DEFINE Kept == \A u \in Owners : admins'[u] = None => Owners' # {}
<1> USE NoneAssumption, RolesOK DEF TypeOK, Handlers, ChecksHold, Holds, Account, Exists,
        Owners, At, Become, Finish, Idle, vars
<1>1. ASSUME NEW t \in Thread, NEW u \in User, Login(t, u) PROVE Kept
  BY <1>1 DEF Login
<1>2. ASSUME NEW t \in Thread, NEW s \in Session, CreateSession(t, s) PROVE Kept
  BY <1>2 DEF CreateSession
<1>3. ASSUME NEW s \in Session, EndSession(s) PROVE Kept
  BY <1>3 DEF EndSession
<1>4. ASSUME NEW t \in Thread, NEW u \in User, NEW r \in Roles, Create(t, u, r) PROVE Kept
  BY <1>4 DEF Create, Happens
<1>5. ASSUME NEW u \in User, NEW r \in SsoRoles, SsoRequest(u, r) PROVE Kept
  <2>1. [role |-> r, sso |-> TRUE] \in Account /\ None \notin Account
    BY DEF Account
  <2>2. \A v \in User : Exists(v) => admins'[v] # None
    BY <1>5, <2>1 DEF SsoRequest
  <2>3. QED
    BY <2>2
<1>6. ASSUME NEW t \in Thread, NEW u \in User, DeleteLocked(t, u) PROVE Kept
  BY <1>6 DEF DeleteLocked, Remove, Happens
<1>7. ASSUME NEW t \in Thread, NEW u \in User, Lookup(t, u) PROVE Kept
  BY <1>7 DEF Lookup
<1>8. ASSUME NEW t \in Thread, Count(t) PROVE Kept
  BY <1>8 DEF Count
<1>9. ASSUME NEW t \in Thread, Delete(t) PROVE Kept
  <2>1. At(t, "delete") /\ t \notin overtaken
    BY <1>9 DEF Delete
  <2>2. Owners # {h[t].user}
    BY <2>1
  <2>3. admins' = [admins EXCEPT ![h[t].user] = None]
    BY <1>9 DEF Delete, Remove
  <2>4. ASSUME NEW u \in Owners, admins'[u] = None PROVE Owners' # {}
    <3>1. u = h[t].user
      BY <2>3, <2>4
    <3>2. PICK w \in Owners : w # h[t].user
      BY <2>2, <3>1
    <3>3. w \in Owners'
      BY <2>3, <3>2
    <3>4. QED
      BY <3>3
  <2>5. QED
    BY <2>4
<1>10. ASSUME NEW t \in Thread, Log(t) PROVE Kept
  BY <1>10 DEF Log
<1>11. ASSUME NEW t \in Thread, Dies(t) PROVE Kept
  BY <1>11 DEF Dies
<1>12. CASE UNCHANGED vars
  BY <1>12
<1>13. QED
  BY <1>1, <1>2, <1>3, <1>4, <1>5, <1>6, <1>7, <1>8, <1>9, <1>10, <1>11,
     <1>12 DEF Next

\* The last owner goes only with a deletion of Go whose check was overtaken by
\* another deletion or by an upsert of the proxy: in Python, which has no such
\* handler, it never goes.
THEOREM LastOwnerStays == Spec => LastOwnerKept
<1> DEFINE Kept == \A u \in Owners : admins'[u] = None =>
                     Owners' # {} \/ \E t \in overtaken : Delete(t)
<1>1. Init => ChecksHold
  BY DEF Init, ChecksHold, At, Idle
<1>2. IInv /\ ChecksHold /\ [Next]_vars => ChecksHold' /\ [Kept]_vars
  BY ChecksNext, LastOwnerStep DEF IInv
<1>3. Spec => [][Kept]_vars
  <2> HIDE DEF Kept
  <2>1. QED
    BY <1>1, <1>2, Invariance, PTL DEF Spec
<1>4. QED
  BY <1>3 DEF LastOwnerKept

-----------------------------------------------------------------------------
(* The role of an identity is the same in both portals.                    *)

\* Induction over the naturals, for a set rather than for a predicate.
LEMMA SetInduction ==
  ASSUME NEW S, 0 \in S, \A n \in Nat : n \in S => n + 1 \in S
  PROVE  Nat \subseteq S
<1> DEFINE Less == {ss \in Nat \X Nat : ss[1] < ss[2]}
           Out == Nat \ S
<1>1. IsWellFoundedOn(Less, Nat)
  BY NatLessThanWellFounded DEF OpToRel
<1> SUFFICES ASSUME Out # {} PROVE FALSE
  OBVIOUS
<1>2. PICK n \in Out : \A k \in Out : <<k, n>> \notin Less
  <2> HIDE DEF Less
  <2> QED
    BY <1>1, WFMin
<1>3. n \in Nat /\ n \notin S /\ n - 1 \in Nat
  BY <1>2
<1>4. n - 1 \in S
  <2>1. <<n - 1, n>> \in Less
    BY <1>3
  <2> HIDE DEF Less
  <2>2. n - 1 \notin Out
    BY <1>2, <2>1
  <2>3. QED
    BY <1>3, <2>2
<1>5. QED
  BY <1>3, <1>4

NoRole == ""

\* The role so far, and what one more group makes of it, in Go.
MapsOn(best, g) ==
  IF \E r \in Role : MapsTo(g, r) /\ (best = NoRole \/ Rank[r] > Rank[best])
  THEN CHOOSE r \in Role : MapsTo(g, r)
  ELSE best
GoRoles(groups) ==
  LET Better(r, best) == best = "" \/ Rank[r] > Rank[best]
      matched[i \in 0..Len(groups)] ==
        IF i = 0 THEN ""
        ELSE IF \E r \in Role : MapsTo(groups[i], r) /\ Better(r, matched[i - 1])
             THEN CHOOSE r \in Role : MapsTo(groups[i], r)
             ELSE matched[i - 1]
  IN  matched

LEMMA GoDef ==
  ASSUME NEW groups, Len(groups) \in Nat
  PROVE  GoRoles(groups) = [i \in 0..Len(groups) |->
                         IF i = 0 THEN NoRole ELSE MapsOn(GoRoles(groups)[i - 1], groups[i])]
<1> DEFINE Is(f, n) == f = [i \in 0..n |-> IF i = 0 THEN NoRole ELSE MapsOn(f[i - 1], groups[i])]
           S == {n \in Nat : \E f : Is(f, n)}
<1>1. 0 \in S
  <2> DEFINE f == [i \in 0..0 |-> NoRole]
  <2>1. Is(f, 0)
    OBVIOUS
  <2>2. QED
    BY <2>1
<1>2. ASSUME NEW n \in Nat, n \in S PROVE n + 1 \in S
  <2>1. PICK f : Is(f, n)
    BY <1>2
  <2> DEFINE g == [i \in 0..n + 1 |-> IF i = n + 1 THEN MapsOn(f[n], groups[n + 1]) ELSE f[i]]
  <2>2. ASSUME NEW i \in 0..n + 1
        PROVE  g[i] = IF i = 0 THEN NoRole ELSE MapsOn(g[i - 1], groups[i])
    <3>1. CASE i = n + 1
      <4>1. g[i] = MapsOn(f[n], groups[i]) /\ i # 0 /\ i - 1 = n /\ n \in 0..n + 1 /\ n # n + 1
        BY <3>1
      <4>2. QED
        BY <4>1
    <3>2. CASE i \in 0..n
      <4>1. g[i] = f[i] /\ f[i] = IF i = 0 THEN NoRole ELSE MapsOn(f[i - 1], groups[i])
        BY <2>1, <3>2
      <4>2. i # 0 => g[i - 1] = f[i - 1]
        BY <3>2
      <4>3. QED
        BY <4>1, <4>2
    <3>3. QED
      BY <3>1, <3>2
  <2>3. Is(g, n + 1)
    BY <2>2
  <2> HIDE DEF g, Is
  <2>4. QED
    BY <2>3
<1> HIDE DEF S
<1>3. Len(groups) \in S
  BY <1>1, <1>2, SetInduction
<1>4. PICK f : Is(f, Len(groups))
  BY <1>3 DEF S
<1> DEFINE Eq(g) == g = [i \in 0..Len(groups) |->
      IF i = 0 THEN ""
      ELSE IF \E r \in Role : MapsTo(groups[i], r) /\ (g[i - 1] = "" \/ Rank[r] > Rank[g[i - 1]])
           THEN CHOOSE r \in Role : MapsTo(groups[i], r)
           ELSE g[i - 1]]
<1>5. Eq(f)
  BY <1>4 DEF MapsOn, NoRole
<1>6. GoRoles(groups) = CHOOSE g : Eq(g)
  BY DEF GoRoles
<1> HIDE DEF Eq
<1>7. Eq(GoRoles(groups))
  BY <1>5, <1>6
<1>8. QED
  BY <1>7 DEF Eq, MapsOn, NoRole

LEMMA GoStep ==
  ASSUME NEW groups, Len(groups) \in Nat
  PROVE  /\ GoRoles(groups)[0] = NoRole
         /\ \A n \in Nat : n + 1 <= Len(groups) =>
              GoRoles(groups)[n + 1] = MapsOn(GoRoles(groups)[n], groups[n + 1])
<1> DEFINE k == GoRoles(groups)
           z == Len(groups)
<1>1. k = [i \in 0..z |-> IF i = 0 THEN NoRole ELSE MapsOn(k[i - 1], groups[i])]
  BY GoDef
<1> HIDE DEF k, z
<1>2. k[0] = NoRole
  <2>1. z \in Nat
    BY DEF z
  <2>2. QED
    BY <1>1, <2>1
<1>3. ASSUME NEW n \in Nat, n + 1 <= z PROVE k[n + 1] = MapsOn(k[n], groups[n + 1])
  <2>1. n + 1 \in 0..z /\ n + 1 # 0 /\ (n + 1) - 1 = n
    BY <1>3 DEF z
  <2>2. k[n + 1] = IF n + 1 = 0 THEN NoRole ELSE MapsOn(k[(n + 1) - 1], groups[n + 1])
    BY <1>1, <2>1
  <2>3. QED
    BY <2>1, <2>2
<1>4. QED
  BY <1>2, <1>3 DEF k, z

\* A group maps to one role at most.
LEMMA MapsToOne ==
  ASSUME NEW g, NEW r, NEW q, MapsTo(g, r), MapsTo(g, q)
  PROVE  r = q
<1> DEFINE all == Defaults \o Pairs
           A == {<<"luksmith-owners", "owner">>, <<"luksmith-admins", "admin">>,
                 <<"luksmith-auditors", "auditor">>}
<1>1. Defaults \in Seq(A)
  <2>1. ASSUME NEW T, NEW x \in T, NEW y \in T, NEW z \in T PROVE <<x, y, z>> \in Seq(T)
    OBVIOUS
  <2>2. QED
    BY <2>1 DEF Defaults
<1>2. all \in Seq(A \cup (STRING \X STRING))
  <2> HIDE DEF A
  <2>1. QED
    BY <1>1, PairsAssumption
<1>3. DOMAIN all = 1..Len(all) /\ Len(all) \in Nat
  BY <1>2
<1>4. PICK i \in DOMAIN all :
        /\ all[i] = <<g, r>> /\ r \in Role
        /\ \A j \in i + 1..Len(all) : all[j][1] = g => all[j][2] \notin Role
  BY DEF MapsTo
<1>5. PICK k \in DOMAIN all :
        /\ all[k] = <<g, q>> /\ q \in Role
        /\ \A j \in k + 1..Len(all) : all[j][1] = g => all[j][2] \notin Role
  BY DEF MapsTo
<1> HIDE DEF all
<1>6. all[i][1] = g /\ all[i][2] = r /\ all[k][1] = g /\ all[k][2] = q
  BY <1>4, <1>5
<1>7. ~(i \in k + 1..Len(all)) /\ ~(k \in i + 1..Len(all))
  BY <1>4, <1>5, <1>6
<1>8. i = k
  BY <1>3, <1>7
<1>9. QED
  BY <1>4, <1>5, <1>8

\* The greatest of a set of roles, NoRole if there is none.
Top(S) == IF S = {} THEN NoRole ELSE CHOOSE r \in S : \A q \in S : Rank[q] <= Rank[r]

LEMMA TopIs ==
  ASSUME NEW S, S \subseteq Role, NEW r \in S, \A q \in S : Rank[q] <= Rank[r]
  PROVE  Top(S) = r
<1>1. Role = {"owner", "admin", "helpdesk", "auditor"}
  BY DEF Role, Rank
<1>2. \A p, q \in Role : Rank[p] <= Rank[q] /\ Rank[q] <= Rank[p] => p = q
  BY <1>1 DEF Rank
<1> DEFINE t == CHOOSE p \in S : \A q \in S : Rank[q] <= Rank[p]
<1>3. t \in S /\ \A q \in S : Rank[q] <= Rank[t]
  OBVIOUS
<1>4. Top(S) = t
  BY DEF Top
<1> HIDE DEF t
<1>5. QED
  BY <1>2, <1>3, <1>4

LEMMA TopOf ==
  ASSUME NEW S, S \subseteq Role, S # {}
  PROVE  Top(S) \in S /\ Top(S) # NoRole /\ \A q \in S : Rank[q] <= Rank[Top(S)]
<1>1. Role = {"owner", "admin", "helpdesk", "auditor"}
  BY DEF Role, Rank
<1>2. PICK r \in S : \A q \in S : Rank[q] <= Rank[r]
  <2>1. Rank["owner"] = 3 /\ Rank["admin"] = 2 /\ Rank["helpdesk"] = 1 /\ Rank["auditor"] = 0
    BY DEF Rank
  <2>2. CASE "owner" \in S
    BY <1>1, <2>1, <2>2
  <2>3. CASE "owner" \notin S /\ "admin" \in S
    BY <1>1, <2>1, <2>3
  <2>4. CASE "owner" \notin S /\ "admin" \notin S /\ "helpdesk" \in S
    BY <1>1, <2>1, <2>4
  <2>5. CASE "owner" \notin S /\ "admin" \notin S /\ "helpdesk" \notin S
    <3>1. S = {"auditor"}
      BY <1>1, <2>5
    <3>2. QED
      BY <2>1, <3>1
  <2>6. QED
    BY <2>2, <2>3, <2>4, <2>5
<1>3. Top(S) = r
  BY <1>2, TopIs
<1>4. r # NoRole
  BY <1>1 DEF NoRole
<1>5. QED
  BY <1>2, <1>3, <1>4

\* One more group: Go's comparison keeps the greatest of the roles so far.
LEMMA TopStep ==
  ASSUME NEW S, S \subseteq Role, NEW g
  PROVE  MapsOn(Top(S), g) = Top(S \cup {r \in Role : MapsTo(g, r)})
<1> DEFINE R == {r \in Role : MapsTo(g, r)}
<1>0. \A r \in Role : Rank[r] \in Int
  BY DEF Role, Rank
<1>1. CASE R = {}
  BY <1>1 DEF MapsOn
<1>2. ASSUME NEW r \in R PROVE MapsOn(Top(S), g) = Top(S \cup R)
  <2>1. \A q \in Role : MapsTo(g, q) <=> q = r
    BY MapsToOne
  <2>2. R = {r} /\ (CHOOSE q \in Role : MapsTo(g, q)) = r
    BY <2>1
  <2>3. MapsOn(Top(S), g) = IF Top(S) = NoRole \/ Rank[r] > Rank[Top(S)] THEN r ELSE Top(S)
    BY <2>1, <2>2 DEF MapsOn
  <2>4. r \in Role /\ S \cup {r} \subseteq Role
    OBVIOUS
  <2> HIDE DEF R
  <2>5. CASE S = {}
    <3>1. Top(S) = NoRole
      BY <2>5 DEF Top
    <3>2. Top({r}) = r
      BY <1>0, <2>4, TopIs
    <3>3. QED
      BY <2>2, <2>3, <2>5, <3>1, <3>2
  <2>6. CASE S # {}
    <3> DEFINE b == Top(S)
    <3>1. b \in S /\ b # NoRole /\ b \in Role /\ \A q \in S : Rank[q] <= Rank[b]
      BY <2>6, TopOf
    <3> HIDE DEF b
    <3>2. CASE Rank[r] > Rank[b]
      <4>1. \A q \in S \cup {r} : Rank[q] <= Rank[r]
        <5>1. Rank[b] \in Int /\ Rank[r] \in Int /\ \A q \in S : Rank[q] \in Int
          BY <1>0, <2>4, <3>1
        <5>2. QED
          BY <3>1, <3>2, <5>1
      <4>2. Top(S \cup {r}) = r
        BY <2>4, <4>1, TopIs
      <4>3. QED
        BY <2>2, <2>3, <3>2, <4>2 DEF b
    <3>3. CASE ~(Rank[r] > Rank[b])
      <4>1. \A q \in S \cup {r} : Rank[q] <= Rank[b]
        <5>1. Rank[b] \in Int /\ Rank[r] \in Int
          BY <1>0, <2>4, <3>1
        <5>2. QED
          BY <3>1, <3>3, <5>1
      <4>2. Top(S \cup {r}) = b
        BY <2>4, <3>1, <4>1, TopIs
      <4>3. QED
        BY <2>2, <2>3, <3>1, <3>3, <4>2 DEF b
    <3>4. QED
      BY <3>2, <3>3
  <2>7. QED
    BY <2>5, <2>6
<1>3. QED
  BY <1>1, <1>2

\* The roles of the first groups.
RolesOf(groups, n) == {r \in Role : \E i \in 1..n : MapsTo(groups[i], r)}

LEMMA GoIsTop ==
  ASSUME NEW groups, Len(groups) \in Nat
  PROVE  GoRoles(groups)[Len(groups)] = Top(RolesOf(groups, Len(groups)))
<1> DEFINE z == Len(groups)
           S == {n \in Nat : n <= z => GoRoles(groups)[n] = Top(RolesOf(groups, n))}
<1>1. 0 \in S
  <2>1. RolesOf(groups, 0) = {}
    BY DEF RolesOf
  <2>2. GoRoles(groups)[0] = NoRole
    BY GoStep
  <2>3. QED
    BY <2>1, <2>2 DEF Top
<1>2. ASSUME NEW n \in Nat, n \in S PROVE n + 1 \in S
  <2>1. ASSUME n + 1 <= z PROVE GoRoles(groups)[n + 1] = Top(RolesOf(groups, n + 1))
    <3>1. GoRoles(groups)[n] = Top(RolesOf(groups, n))
      BY <1>2, <2>1
    <3>2. GoRoles(groups)[n + 1] = MapsOn(GoRoles(groups)[n], groups[n + 1])
      BY <2>1, GoStep
    <3>3. RolesOf(groups, n + 1) = RolesOf(groups, n) \cup {r \in Role : MapsTo(groups[n + 1], r)}
      <4>1. 1..n + 1 = 1..n \cup {n + 1}
        OBVIOUS
      <4>2. QED
        BY <4>1 DEF RolesOf
    <3>4. RolesOf(groups, n) \subseteq Role
      BY DEF RolesOf
    <3>5. QED
      BY <3>1, <3>2, <3>3, <3>4, TopStep
  <2>2. QED
    BY <2>1
<1> HIDE DEF S
<1>3. Nat \subseteq S
  BY <1>1, <1>2, SetInduction
<1>4. QED
  BY <1>3 DEF S

\* Both portals give every identity the same role, whatever pairs are configured
\* and whatever groups the proxy lists: in any order, repeated, unknown, mapped
\* twice or to no role.
THEOREM SameRole == RoleMapsAgree
<1> SUFFICES ASSUME NEW groups \in GroupLists PROVE MapRole(groups) = MapGroups(groups)
  BY DEF RoleMapsAgree
<1>1. groups \in Seq(STRING)
  BY GroupListsAssumption
<1>2. Len(groups) \in Nat /\ DOMAIN groups = 1..Len(groups)
  BY <1>1
<1> DEFINE m == Matched(groups)
           b == GoRoles(groups)[Len(groups)]
<1>3. m = RolesOf(groups, Len(groups)) /\ m \subseteq Role
  BY <1>2 DEF Matched, RolesOf
<1>4. b = Top(m)
  BY <1>2, <1>3, GoIsTop
<1>5. MapGroups(groups) = IF b = NoRole THEN "helpdesk" ELSE b
  BY DEF MapGroups, GoRoles, NoRole
<1>6. MapRole(groups) = IF m = {} THEN "helpdesk" ELSE Top(m)
  BY DEF MapRole, Top
<1> HIDE DEF b, m
<1>7. CASE m = {}
  <2>1. b = NoRole
    BY <1>4, <1>7 DEF Top
  <2>2. QED
    BY <1>5, <1>6, <1>7, <2>1
<1>8. CASE m # {}
  <2>1. b # NoRole
    BY <1>3, <1>4, <1>8, TopOf
  <2>2. QED
    BY <1>4, <1>5, <1>6, <1>8, <2>1
<1>9. QED
  BY <1>7, <1>8
=============================================================================
