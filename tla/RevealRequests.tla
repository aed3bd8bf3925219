--------------------------- MODULE RevealRequests ---------------------------
(***************************************************************************)
(* The portal's reveal of escrowed ciphertexts: the two-person requests of *)
(* --require-approval and the immediate reveal, in both implementations.   *)
(*                                                                         *)
(* A handler runs in a thread (Python) or a goroutine (Go) of its own and  *)
(* is a sequence of store calls.  A call is one step: every method of the  *)
(* Python Store holds its lock, and Go's sql.DB has one connection, which  *)
(* a transaction keeps.  Between two calls other handlers run, the device  *)
(* may escrow a new key, and the handler may end early: a call fails, the  *)
(* client is gone, the portal is restarted.  One device stands for all.    *)
(***************************************************************************)
EXTENDS Naturals

CONSTANTS
  Portals,   \* the implementations: subset of {"python", "go"}
  Thread,    \* handlers that may run at a time
  User,      \* user names
  RolesOf,   \* per user: the roles a session or the proxy may give
  Request,   \* ids of reveal requests
  Key,       \* ids of escrowed keys
  None       \* SQL NULL

Role == {"owner", "admin", "helpdesk", "auditor"}

ASSUME PortalsAssumption == Portals \subseteq {"python", "go"}
ASSUME RolesAssumption == RolesOf \in [User -> SUBSET Role]
ASSUME NoneAssumption == None \notin User \cup Request \cup Key

VARIABLES
  portal,      \* the implementation that runs
  approvalOn,  \* --require-approval
  status, requester, approver, keyId,  \* columns of table reveal_requests
  active,      \* the device's active key
  stored,      \* keys of the device ever escrowed
  audit,       \* table audit: the rows about requests and reveals; the rows
               \* of reveals that found no key are left out
  pc,          \* per thread: the next step of its handler, and its variables:
  who,         \*   the resolved caller
  req,         \*   the request it is about
  verdict,     \*   approved or denied
  seen,        \*   the approver in the row as first read
  key,         \*   the key to give
  released,    \* history: per request, the keys it yielded
  given,       \* history: per request, the answers that carried a ciphertext
  since        \* history: keys that were active while the request was approved

config   == <<portal, approvalOn>>
columns  == <<status, requester, approver, keyId>>
keys     == <<active, stored>>
handlers == <<pc, who, req, verdict, seen, key>>
history  == <<released, given, since>>
vars == <<config, columns, keys, audit, handlers, history>>

Status == {"none", "pending", "approved", "denied", "consumed"}
Verdict == {"approved", "denied"}
PCs == {"idle", "logRequest", "logDirect", "decide", "logDecision",
        "findKey", "consume", "logMiss", "logReveal", "respond"}

Entry(action, actor, r, a) ==
  [action |-> action, actor |-> actor, req |-> r, approver |-> a]

\* The permission matrix.
May(u, roles) == RolesOf[u] \cap roles # {}
MayRequest(u) == May(u, {"owner", "admin", "helpdesk"})
MayApprove(u) == May(u, {"owner", "admin"})

-----------------------------------------------------------------------------
At(t, l)   == pc[t] = l
Goto(t, l) == pc' = [pc EXCEPT ![t] = l]
Log(e)     == audit' = audit \cup {e}

\* The handler is at l, with these values of its variables.
Become(t, l, u, r, v, a, k) ==
  /\ Goto(t, l)
  /\ who' = [who EXCEPT ![t] = u]
  /\ req' = [req EXCEPT ![t] = r]
  /\ verdict' = [verdict EXCEPT ![t] = v]
  /\ seen' = [seen EXCEPT ![t] = a]
  /\ key' = [key EXCEPT ![t] = k]

Finish(t) == Become(t, "idle", None, None, None, None, None)
Advance(t, l) == Goto(t, l) /\ UNCHANGED <<who, req, verdict, seen, key>>

-----------------------------------------------------------------------------
(* POST keys/{device}/reveal                                               *)

\* --require-approval: a pending request is inserted ...
FileRequest(t, u, r) ==
  /\ At(t, "idle") /\ approvalOn /\ MayRequest(u)
  /\ status[r] = "none"
  /\ status' = [status EXCEPT ![r] = "pending"]
  /\ requester' = [requester EXCEPT ![r] = u]
  /\ Become(t, "logRequest", u, r, None, None, None)
  /\ UNCHANGED <<config, approver, keyId, keys, audit, history>>

\* ... and audited.
LogRequest(t) ==
  /\ At(t, "logRequest")
  /\ Log(Entry("reveal_requested", who[t], req[t], None))
  /\ Finish(t)
  /\ UNCHANGED <<config, columns, keys, history>>

\* The immediate reveal: without --require-approval, and on the dashboard path
\* with or without it.
Direct(t, u) ==
  /\ At(t, "idle") /\ MayRequest(u)
  /\ Become(t, "logDirect", u, None, None, None, active)
  /\ UNCHANGED <<config, columns, keys, audit, history>>

LogDirect(t) ==
  /\ At(t, "logDirect")
  /\ \/ key[t] = None /\ Finish(t) /\ UNCHANGED audit
     \/ /\ key[t] # None
        /\ Log(Entry("key_revealed", who[t], None, None))
        /\ Advance(t, "respond")
  /\ UNCHANGED <<config, columns, keys, history>>

-----------------------------------------------------------------------------
(* POST reveal-requests/{id}/approve and /deny                             *)

\* The row is read, and the caller is not its requester ...
Decide(t, u, r, v) ==
  /\ At(t, "idle") /\ MayApprove(u)
  /\ status[r] # "none" /\ requester[r] # u
  /\ Become(t, "decide", u, r, v, None, None)
  /\ UNCHANGED <<config, columns, keys, audit, history>>

\* Mutant: the update does not look at the status.
CommitDecision_Unguarded(t) ==
  /\ At(t, "decide")
  /\ status' = [status EXCEPT ![req[t]] = verdict[t]]
  /\ approver' = [approver EXCEPT ![req[t]] = who[t]]
  /\ since' = [since EXCEPT ![req[t]] = {active}]
  /\ Advance(t, "logDecision")
  /\ UNCHANGED <<config, requester, keyId, keys, audit, released, given>>

\* ... it is decided if it is still pending, else the answer is 409 ...
CommitDecision(t) ==
  /\ At(t, "decide") /\ status[req[t]] = "pending"
  /\ status' = [status EXCEPT ![req[t]] = verdict[t]]
  /\ approver' = [approver EXCEPT ![req[t]] = who[t]]
  /\ since' = [since EXCEPT ![req[t]] = {active}]
  /\ Advance(t, "logDecision")
  /\ UNCHANGED <<config, requester, keyId, keys, audit, released, given>>

NotPending(t) ==
  /\ At(t, "decide") /\ status[req[t]] # "pending"
  /\ Finish(t)
  /\ UNCHANGED <<config, columns, keys, audit, history>>

\* ... and audited.
LogDecision(t) ==
  /\ At(t, "logDecision")
  /\ Log(Entry(verdict[t], who[t], req[t], None))
  /\ Finish(t)
  /\ UNCHANGED <<config, columns, keys, history>>

-----------------------------------------------------------------------------
(* POST reveal-requests/{id}/reveal                                        *)

AfterRead == IF portal = "python" THEN "findKey" ELSE "consume"

\* Mutant: Python leaves the check of the status to the update, as Go does.
Reveal_NoStatusCheck(t, u, r) ==
  /\ At(t, "idle")
  /\ status[r] # "none" /\ requester[r] = u
  /\ Become(t, AfterRead, u, r, None, approver[r], None)
  /\ UNCHANGED <<config, columns, keys, audit, history>>

\* The row is read.  Python answers 409 here unless it is approved, and then
\* reads the active key.
Reveal(t, u, r) ==
  /\ At(t, "idle")
  /\ status[r] # "none" /\ requester[r] = u
  /\ portal = "python" => status[r] = "approved"
  /\ Become(t, AfterRead, u, r, None, approver[r], None)
  /\ UNCHANGED <<config, columns, keys, audit, history>>

FindKey(t) ==
  /\ At(t, "findKey") /\ active # None
  /\ Become(t, "consume", who[t], req[t], None, seen[t], active)
  /\ UNCHANGED <<config, columns, keys, audit, history>>

\* consume_reveal_request; Go reads the active key in the same transaction.
KeyToGive(t) == IF portal = "python" THEN key[t] ELSE active

GiveKey(t, l) ==
  /\ status' = [status EXCEPT ![req[t]] = "consumed"]
  /\ keyId' = [keyId EXCEPT ![req[t]] = KeyToGive(t)]
  /\ Become(t, l, who[t], req[t], None, seen[t], KeyToGive(t))
  /\ UNCHANGED <<config, requester, approver, keys, audit, history>>

\* Mutant: the status guard of the update is missing.
Consume_Unguarded(t) ==
  At(t, "consume") /\ KeyToGive(t) # None /\ GiveKey(t, "logReveal")

\* Mutant: nobody asks whether there is a key.
Consume_NoKeyCheck(t) ==
  At(t, "consume") /\ status[req[t]] = "approved" /\ GiveKey(t, "logReveal")

\* Mutant: the answer is sent before the audit row is written.
Consume_RespondFirst(t) ==
  /\ At(t, "consume") /\ status[req[t]] = "approved" /\ KeyToGive(t) # None
  /\ GiveKey(t, "respond")

Consume(t) ==
  /\ At(t, "consume") /\ status[req[t]] = "approved" /\ KeyToGive(t) # None
  /\ GiveKey(t, "logReveal")

NotApproved(t) ==
  /\ At(t, "consume") /\ status[req[t]] # "approved"
  /\ Finish(t)
  /\ UNCHANGED <<config, columns, keys, audit, history>>

\* 404, which Go audits.
NoActiveKey(t) ==
  /\ \/ At(t, "findKey") /\ active = None /\ Finish(t)
     \/ /\ At(t, "consume") /\ status[req[t]] = "approved"
        /\ KeyToGive(t) = None /\ Advance(t, "logMiss")
  /\ UNCHANGED <<config, columns, keys, audit, history>>

LogMiss(t) ==
  /\ At(t, "logMiss")
  /\ Finish(t)
  /\ UNCHANGED <<config, columns, keys, audit, history>>

\* The audit row names the approver of the row as it was first read.
LogReveal(t) ==
  /\ At(t, "logReveal")
  /\ Log(Entry("key_revealed", who[t], req[t], seen[t]))
  /\ Advance(t, "respond")
  /\ UNCHANGED <<config, columns, keys, history>>

-----------------------------------------------------------------------------
\* The answer with the ciphertext.
Respond(t) ==
  /\ At(t, "respond")
  /\ released' = [r \in Request |->
       IF r = req[t] THEN released[r] \cup {key[t]} ELSE released[r]]
  /\ given' = [r \in Request |-> IF r = req[t] THEN given[r] + 1 ELSE given[r]]
  /\ Finish(t)
  /\ UNCHANGED <<config, columns, keys, audit, since>>

\* A store call fails, the connection is gone, or the portal is restarted.
Dies(t) ==
  /\ ~At(t, "idle")
  /\ Finish(t)
  /\ UNCHANGED <<config, columns, keys, audit, history>>

\* The device escrows a new key: enrollment or rotation.
Escrow(k) ==
  /\ k \notin stored
  /\ stored' = stored \cup {k}
  /\ active' = k
  /\ since' = [r \in Request |-> IF status[r] = "approved"
                                 THEN since[r] \cup {k} ELSE since[r]]
  /\ UNCHANGED <<config, columns, audit, handlers, released, given>>

-----------------------------------------------------------------------------
Init ==
  /\ portal \in Portals
  /\ approvalOn \in BOOLEAN
  /\ status = [r \in Request |-> "none"]
  /\ requester = [r \in Request |-> None]
  /\ approver = [r \in Request |-> None]
  /\ keyId = [r \in Request |-> None]
  /\ active = None
  /\ stored = {}
  /\ audit = {}
  /\ pc = [t \in Thread |-> "idle"]
  /\ who = [t \in Thread |-> None]
  /\ req = [t \in Thread |-> None]
  /\ verdict = [t \in Thread |-> None]
  /\ seen = [t \in Thread |-> None]
  /\ key = [t \in Thread |-> None]
  /\ released = [r \in Request |-> {}]
  /\ given = [r \in Request |-> 0]
  /\ since = [r \in Request |-> {}]

Start(t, u) ==
  \/ Direct(t, u)
  \/ \E r \in Request :
       \/ FileRequest(t, u, r) \/ Reveal(t, u, r)
       \/ \E v \in Verdict : Decide(t, u, r, v)

Step(t) ==
  \/ LogRequest(t) \/ LogDirect(t)
  \/ CommitDecision(t) \/ NotPending(t) \/ LogDecision(t)
  \/ FindKey(t) \/ Consume(t) \/ NotApproved(t) \/ NoActiveKey(t)
  \/ LogMiss(t) \/ LogReveal(t)
  \/ Respond(t) \/ Dies(t)

Next ==
  \/ \E t \in Thread : Step(t) \/ \E u \in User : Start(t, u)
  \/ \E k \in Key : Escrow(k)

Spec == Init /\ [][Next]_vars

-----------------------------------------------------------------------------
(* Properties.                                                             *)

AuditRow == [action: {"reveal_requested", "key_revealed"} \cup Verdict,
             actor: User, req: Request \cup {None}, approver: User \cup {None}]

TypeOK ==
  /\ portal \in Portals /\ approvalOn \in BOOLEAN
  /\ status \in [Request -> Status]
  /\ requester \in [Request -> User \cup {None}]
  /\ approver \in [Request -> User \cup {None}]
  /\ keyId \in [Request -> Key \cup {None}]
  /\ active \in Key \cup {None}
  /\ stored \subseteq Key
  /\ audit \subseteq AuditRow
  /\ pc \in [Thread -> PCs]
  /\ who \in [Thread -> User \cup {None}]
  /\ req \in [Thread -> Request \cup {None}]
  /\ verdict \in [Thread -> Verdict \cup {None}]
  /\ seen \in [Thread -> User \cup {None}]
  /\ key \in [Thread -> Key \cup {None}]
  /\ released \in [Request -> SUBSET Key]
  /\ given \in [Request -> Nat]
  /\ since \in [Request -> SUBSET (Key \cup {None})]

\* Every reveal is audited before the ciphertext leaves: a handler that is to
\* answer finds an audit row with its caller and, if there is one, the request,
\* which is the caller's own.
ReleaseIsAudited ==
  \A t \in Thread : At(t, "respond") =>
    /\ \E e \in audit : e.action = "key_revealed" /\ e.actor = who[t] /\ e.req = req[t]
    /\ req[t] # None => requester[req[t]] = who[t]

\* The audit log records the decision that was taken, not one that lost the
\* race for the request: decider and verdict are those of the row.
LoggedDecisionIsTheDecision ==
  \A e \in audit : e.action \in Verdict =>
    /\ approver[e.req] = e.actor
    /\ status[e.req] \in (IF e.action = "denied" THEN {"denied"}
                          ELSE {"approved", "consumed"})

\* The key a request yields was the active key at some time after the approval
\* and not after the request was consumed, and the row names it.
ReleasedKeyIsCurrent ==
  \A r \in Request : \A k \in released[r] : k \in since[r] /\ keyId[r] = k

\* The contract: a reveal is audited with its requester and its approver.
NamesBoth(e) == e.actor = requester[e.req] /\ e.approver = approver[e.req]

AuditNamesBoth ==
  \A e \in audit : e.action = "key_revealed" /\ e.req # None => NamesBoth(e)

\* Python checks the status of the row it audits from.
PythonAuditNamesBoth == portal = "python" => AuditNamesBoth

\* The handlers of either portal implement TwoPersonRelease.
GrantedBy == [r \in Request |-> IF status[r] \in {"approved", "consumed"}
                                THEN approver[r] ELSE None]
Denied == [r \in Request |-> status[r] = "denied"]

Abstract == INSTANCE TwoPersonRelease WITH
  asked <- requester, granted <- GrantedBy, refused <- Denied, given <- given

ImplementsTwoPersonRelease == Abstract!Spec
=============================================================================
