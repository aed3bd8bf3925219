------------------------ MODULE RevealRequests_proofs ------------------------
(***************************************************************************)
(* Proofs about RevealRequests, for any numbers of handlers, users,        *)
(* requests and keys, and either portal: types, the truth of the audit,    *)
(* the keys that are given, and the implementation of TwoPersonRelease.    *)
(***************************************************************************)
EXTENDS RevealRequests, TLAPS

-----------------------------------------------------------------------------
(* The conjuncts of the inductive invariant.                               *)

Deciding == {"decide", "logDecision"}
Revealing == {"findKey", "consume", "logMiss", "logReveal"}
Decided == {"approved", "denied", "consumed"}
Granted == {"approved", "consumed"}

\* What the variables of a handler hold, by where it is.
Handlers ==
  \A t \in Thread :
    /\ pc[t] # "idle" => who[t] \in User
    /\ pc[t] \in {"logRequest"} \cup Deciding \cup Revealing => req[t] \in Request
    /\ pc[t] = "logDirect" => req[t] = None
    /\ pc[t] = "findKey" => portal = "python"
    /\ pc[t] \in Deciding => verdict[t] \in Verdict
    /\ pc[t] \in {"logReveal", "respond"} => key[t] \in Key

\* The columns of a row fit its status.
Table ==
  \A r \in Request :
    /\ requester[r] = None <=> status[r] = "none"
    /\ approver[r] = None <=> status[r] \notin Decided

\* A handler that decides is not the requester's; once it has decided, the
\* row says so.
Outcomes(v) == IF v = "denied" THEN {"denied"} ELSE Granted

Deciders ==
  \A t \in Thread :
    /\ pc[t] \in Deciding => requester[req[t]] \notin {None, who[t]}
    /\ pc[t] = "logDecision" => /\ approver[req[t]] = who[t]
                                /\ status[req[t]] \in Outcomes(verdict[t])

\* A handler that reveals a request is its requester's.  In Python it has seen
\* it approved, and the approver it has seen is the one of the row.
Revealers ==
  \A t \in Thread :
    /\ pc[t] \in Revealing \/ (pc[t] = "respond" /\ req[t] # None)
         => requester[req[t]] = who[t]
    /\ portal = "python" /\ pc[t] \in {"findKey", "consume", "logReveal"}
         => status[req[t]] \in Granted /\ seen[t] = approver[req[t]]

\* The active key is among those that were active since the approval, and so
\* is the key that Python has found.
Fresh ==
  /\ \A r \in Request : status[r] = "approved" => active \in since[r]
  /\ \A t \in Thread :
       portal = "python" /\ pc[t] = "consume" /\ status[req[t]] = "approved"
         => key[t] \in since[req[t]]

\* A handler that holds the key of a request has consumed it, it is the only
\* one, and the request has yielded nothing yet.
Holds(t, r) == pc[t] \in {"logReveal", "respond"} /\ req[t] = r

Holders ==
  /\ \A t \in Thread, r \in Request : Holds(t, r) =>
       /\ status[r] = "consumed" /\ given[r] = 0
       /\ keyId[r] = key[t] /\ key[t] \in since[r]
  /\ \A t1, t2 \in Thread, r \in Request : Holds(t1, r) /\ Holds(t2, r) => t1 = t2

Yields ==
  \A r \in Request :
    /\ given[r] \in {0, 1}
    /\ given[r] = 1 \/ released[r] # {} => status[r] = "consumed"

\* The audit rows that name a request are about one that was decided or consumed.
AuditedRequests ==
  \A e \in audit :
    /\ e.action \in Verdict => e.req \in Request
    /\ e.action = "key_revealed" /\ e.req # None => status[e.req] = "consumed"

-----------------------------------------------------------------------------
(* One lemma per conjunct, one step per action.                            *)

\* Every step keeps the types.
LEMMA TypeNext == TypeOK /\ Handlers /\ [Next]_vars => TypeOK'
<1> SUFFICES ASSUME TypeOK, Handlers, [Next]_vars PROVE TypeOK'
  OBVIOUS
<1> USE DEF TypeOK, At, Goto, Log, Become, Finish, Advance, vars, config,
        columns, keys, handlers, history, Handlers, Entry, AuditRow, PCs,
        Status, KeyToGive, AfterRead, Deciding, Revealing, Verdict
<1>1. ASSUME NEW t \in Thread, NEW u \in User, NEW r \in Request,
             FileRequest(t, u, r)
     PROVE  TypeOK'
  BY <1>1 DEF FileRequest
<1>2. ASSUME NEW t \in Thread, LogRequest(t) PROVE TypeOK'
  BY <1>2 DEF LogRequest
<1>3. ASSUME NEW t \in Thread, NEW u \in User, Direct(t, u) PROVE TypeOK'
  BY <1>3 DEF Direct
<1>4. ASSUME NEW t \in Thread, LogDirect(t) PROVE TypeOK'
  BY <1>4 DEF LogDirect
<1>5. ASSUME NEW t \in Thread, NEW u \in User, NEW r \in Request,
             NEW v \in Verdict, Decide(t, u, r, v)
     PROVE  TypeOK'
  BY <1>5 DEF Decide
<1>6. ASSUME NEW t \in Thread, CommitDecision(t) PROVE TypeOK'
  BY <1>6 DEF CommitDecision
<1>7. ASSUME NEW t \in Thread, NotPending(t) PROVE TypeOK'
  BY <1>7 DEF NotPending
<1>8. ASSUME NEW t \in Thread, LogDecision(t) PROVE TypeOK'
  BY <1>8 DEF LogDecision
<1>9. ASSUME NEW t \in Thread, NEW u \in User, NEW r \in Request,
             Reveal(t, u, r)
     PROVE  TypeOK'
  BY <1>9 DEF Reveal
<1>10. ASSUME NEW t \in Thread, FindKey(t) PROVE TypeOK'
  BY <1>10 DEF FindKey
<1>11. ASSUME NEW t \in Thread, Consume(t) PROVE TypeOK'
  BY <1>11 DEF Consume, GiveKey
<1>12. ASSUME NEW t \in Thread, NotApproved(t) PROVE TypeOK'
  BY <1>12 DEF NotApproved
<1>13. ASSUME NEW t \in Thread, NoActiveKey(t) PROVE TypeOK'
  BY <1>13 DEF NoActiveKey
<1>14. ASSUME NEW t \in Thread, LogMiss(t) PROVE TypeOK'
  BY <1>14 DEF LogMiss
<1>15. ASSUME NEW t \in Thread, LogReveal(t) PROVE TypeOK'
  BY <1>15 DEF LogReveal
<1>16. ASSUME NEW t \in Thread, Respond(t) PROVE TypeOK'
  BY <1>16 DEF Respond
<1>17. ASSUME NEW t \in Thread, Dies(t) PROVE TypeOK'
  BY <1>17 DEF Dies
<1>18. ASSUME NEW k \in Key, Escrow(k) PROVE TypeOK'
  BY <1>18 DEF Escrow
<1>19. CASE UNCHANGED vars
  BY <1>19
<1> QED
  BY <1>1, <1>2, <1>3, <1>4, <1>5, <1>6, <1>7, <1>8, <1>9, <1>10, <1>11, <1>12,
     <1>13, <1>14, <1>15, <1>16, <1>17, <1>18, <1>19 DEF Next, Start, Step

\* Every step leaves a handler with the variables its next step reads.
LEMMA HandlersNext == TypeOK /\ Handlers /\ [Next]_vars => Handlers'
<1> SUFFICES ASSUME TypeOK, Handlers, [Next]_vars PROVE Handlers'
  OBVIOUS
<1> USE DEF Handlers, At, Goto, Log, Become, Finish, Advance, vars, config,
        columns, keys, handlers, history, TypeOK, PCs, KeyToGive, AfterRead,
        Deciding, Revealing, Verdict
<1>1. ASSUME NEW t \in Thread, NEW u \in User, NEW r \in Request,
             FileRequest(t, u, r)
     PROVE  Handlers'
  BY <1>1 DEF FileRequest
<1>2. ASSUME NEW t \in Thread, LogRequest(t) PROVE Handlers'
  BY <1>2 DEF LogRequest
<1>3. ASSUME NEW t \in Thread, NEW u \in User, Direct(t, u) PROVE Handlers'
  BY <1>3 DEF Direct
<1>4. ASSUME NEW t \in Thread, LogDirect(t) PROVE Handlers'
  BY <1>4 DEF LogDirect
<1>5. ASSUME NEW t \in Thread, NEW u \in User, NEW r \in Request,
             NEW v \in Verdict, Decide(t, u, r, v)
     PROVE  Handlers'
  BY <1>5 DEF Decide
<1>6. ASSUME NEW t \in Thread, CommitDecision(t) PROVE Handlers'
  BY <1>6 DEF CommitDecision
<1>7. ASSUME NEW t \in Thread, NotPending(t) PROVE Handlers'
  BY <1>7 DEF NotPending
<1>8. ASSUME NEW t \in Thread, LogDecision(t) PROVE Handlers'
  BY <1>8 DEF LogDecision
<1>9. ASSUME NEW t \in Thread, NEW u \in User, NEW r \in Request,
             Reveal(t, u, r)
     PROVE  Handlers'
  BY <1>9 DEF Reveal
<1>10. ASSUME NEW t \in Thread, FindKey(t) PROVE Handlers'
  BY <1>10 DEF FindKey
<1>11. ASSUME NEW t \in Thread, Consume(t) PROVE Handlers'
  BY <1>11 DEF Consume, GiveKey
<1>12. ASSUME NEW t \in Thread, NotApproved(t) PROVE Handlers'
  BY <1>12 DEF NotApproved
<1>13. ASSUME NEW t \in Thread, NoActiveKey(t) PROVE Handlers'
  BY <1>13 DEF NoActiveKey
<1>14. ASSUME NEW t \in Thread, LogMiss(t) PROVE Handlers'
  BY <1>14 DEF LogMiss
<1>15. ASSUME NEW t \in Thread, LogReveal(t) PROVE Handlers'
  BY <1>15 DEF LogReveal
<1>16. ASSUME NEW t \in Thread, Respond(t) PROVE Handlers'
  BY <1>16 DEF Respond
<1>17. ASSUME NEW t \in Thread, Dies(t) PROVE Handlers'
  BY <1>17 DEF Dies
<1>18. ASSUME NEW k \in Key, Escrow(k) PROVE Handlers'
  BY <1>18 DEF Escrow
<1>19. CASE UNCHANGED vars
  BY <1>19
<1> QED
  BY <1>1, <1>2, <1>3, <1>4, <1>5, <1>6, <1>7, <1>8, <1>9, <1>10, <1>11, <1>12,
     <1>13, <1>14, <1>15, <1>16, <1>17, <1>18, <1>19 DEF Next, Start, Step

\* Every step keeps the columns of a row in agreement with its status.
LEMMA TableNext == TypeOK /\ Handlers /\ Table /\ [Next]_vars => Table'
<1> SUFFICES ASSUME TypeOK, Handlers, Table, [Next]_vars PROVE Table'
  OBVIOUS
<1> USE NoneAssumption DEF Table, At, Goto, Log, Become, Finish, Advance, vars,
        config, columns, keys, handlers, history, TypeOK, Handlers, Status,
        Decided, AfterRead, Deciding, Revealing, Verdict
<1>1. ASSUME NEW t \in Thread, NEW u \in User, NEW r \in Request,
             FileRequest(t, u, r)
     PROVE  Table'
  BY <1>1 DEF FileRequest
<1>2. ASSUME NEW t \in Thread, LogRequest(t) PROVE Table'
  BY <1>2 DEF LogRequest
<1>3. ASSUME NEW t \in Thread, NEW u \in User, Direct(t, u) PROVE Table'
  BY <1>3 DEF Direct
<1>4. ASSUME NEW t \in Thread, LogDirect(t) PROVE Table'
  BY <1>4 DEF LogDirect
<1>5. ASSUME NEW t \in Thread, NEW u \in User, NEW r \in Request,
             NEW v \in Verdict, Decide(t, u, r, v)
     PROVE  Table'
  BY <1>5 DEF Decide
<1>6. ASSUME NEW t \in Thread, CommitDecision(t) PROVE Table'
  BY <1>6 DEF CommitDecision
<1>7. ASSUME NEW t \in Thread, NotPending(t) PROVE Table'
  BY <1>7 DEF NotPending
<1>8. ASSUME NEW t \in Thread, LogDecision(t) PROVE Table'
  BY <1>8 DEF LogDecision
<1>9. ASSUME NEW t \in Thread, NEW u \in User, NEW r \in Request,
             Reveal(t, u, r)
     PROVE  Table'
  BY <1>9 DEF Reveal
<1>10. ASSUME NEW t \in Thread, FindKey(t) PROVE Table'
  BY <1>10 DEF FindKey
<1>11. ASSUME NEW t \in Thread, Consume(t) PROVE Table'
  BY <1>11 DEF Consume, GiveKey
<1>12. ASSUME NEW t \in Thread, NotApproved(t) PROVE Table'
  BY <1>12 DEF NotApproved
<1>13. ASSUME NEW t \in Thread, NoActiveKey(t) PROVE Table'
  BY <1>13 DEF NoActiveKey
<1>14. ASSUME NEW t \in Thread, LogMiss(t) PROVE Table'
  BY <1>14 DEF LogMiss
<1>15. ASSUME NEW t \in Thread, LogReveal(t) PROVE Table'
  BY <1>15 DEF LogReveal
<1>16. ASSUME NEW t \in Thread, Respond(t) PROVE Table'
  BY <1>16 DEF Respond
<1>17. ASSUME NEW t \in Thread, Dies(t) PROVE Table'
  BY <1>17 DEF Dies
<1>18. ASSUME NEW k \in Key, Escrow(k) PROVE Table'
  BY <1>18 DEF Escrow
<1>19. CASE UNCHANGED vars
  BY <1>19
<1> QED
  BY <1>1, <1>2, <1>3, <1>4, <1>5, <1>6, <1>7, <1>8, <1>9, <1>10, <1>11, <1>12,
     <1>13, <1>14, <1>15, <1>16, <1>17, <1>18, <1>19 DEF Next, Start, Step

\* What a decider has found out about the request stays true while others run.
LEMMA DecidersNext ==
  TypeOK /\ Handlers /\ Table /\ Deciders /\ [Next]_vars => Deciders'
<1> SUFFICES ASSUME TypeOK, Handlers, Table, Deciders, [Next]_vars PROVE Deciders'
  OBVIOUS
<1> USE NoneAssumption DEF Deciders, At, Goto, Log, Become, Finish, Advance,
        vars, config, columns, keys, handlers, history, TypeOK, Handlers, Table,
        Status, Decided, Granted, Outcomes, AfterRead, Deciding, Revealing,
        Verdict
<1>1. ASSUME NEW t \in Thread, NEW u \in User, NEW r \in Request,
             FileRequest(t, u, r)
     PROVE  Deciders'
  BY <1>1 DEF FileRequest
<1>2. ASSUME NEW t \in Thread, LogRequest(t) PROVE Deciders'
  BY <1>2 DEF LogRequest
<1>3. ASSUME NEW t \in Thread, NEW u \in User, Direct(t, u) PROVE Deciders'
  BY <1>3 DEF Direct
<1>4. ASSUME NEW t \in Thread, LogDirect(t) PROVE Deciders'
  BY <1>4 DEF LogDirect
<1>5. ASSUME NEW t \in Thread, NEW u \in User, NEW r \in Request,
             NEW v \in Verdict, Decide(t, u, r, v)
     PROVE  Deciders'
  BY <1>5 DEF Decide
<1>6. ASSUME NEW t \in Thread, CommitDecision(t) PROVE Deciders'
  BY <1>6 DEF CommitDecision
<1>7. ASSUME NEW t \in Thread, NotPending(t) PROVE Deciders'
  BY <1>7 DEF NotPending
<1>8. ASSUME NEW t \in Thread, LogDecision(t) PROVE Deciders'
  BY <1>8 DEF LogDecision
<1>9. ASSUME NEW t \in Thread, NEW u \in User, NEW r \in Request,
             Reveal(t, u, r)
     PROVE  Deciders'
  BY <1>9 DEF Reveal
<1>10. ASSUME NEW t \in Thread, FindKey(t) PROVE Deciders'
  BY <1>10 DEF FindKey
<1>11. ASSUME NEW t \in Thread, Consume(t) PROVE Deciders'
  BY <1>11 DEF Consume, GiveKey
<1>12. ASSUME NEW t \in Thread, NotApproved(t) PROVE Deciders'
  BY <1>12 DEF NotApproved
<1>13. ASSUME NEW t \in Thread, NoActiveKey(t) PROVE Deciders'
  BY <1>13 DEF NoActiveKey
<1>14. ASSUME NEW t \in Thread, LogMiss(t) PROVE Deciders'
  BY <1>14 DEF LogMiss
<1>15. ASSUME NEW t \in Thread, LogReveal(t) PROVE Deciders'
  BY <1>15 DEF LogReveal
<1>16. ASSUME NEW t \in Thread, Respond(t) PROVE Deciders'
  BY <1>16 DEF Respond
<1>17. ASSUME NEW t \in Thread, Dies(t) PROVE Deciders'
  BY <1>17 DEF Dies
<1>18. ASSUME NEW k \in Key, Escrow(k) PROVE Deciders'
  BY <1>18 DEF Escrow
<1>19. CASE UNCHANGED vars
  BY <1>19
<1> QED
  BY <1>1, <1>2, <1>3, <1>4, <1>5, <1>6, <1>7, <1>8, <1>9, <1>10, <1>11, <1>12,
     <1>13, <1>14, <1>15, <1>16, <1>17, <1>18, <1>19 DEF Next, Start, Step

\* What a revealer has found out about the request stays true while others run.
LEMMA RevealersNext ==
  TypeOK /\ Handlers /\ Table /\ Revealers /\ [Next]_vars => Revealers'
<1> SUFFICES ASSUME TypeOK, Handlers, Table, Revealers, [Next]_vars PROVE Revealers'
  OBVIOUS
<1> USE NoneAssumption DEF Revealers, At, Goto, Log, Become, Finish, Advance,
        vars, config, columns, keys, handlers, history, TypeOK, Handlers, Table,
        Status, Decided, Granted, AfterRead, Deciding, Revealing, Verdict
<1>1. ASSUME NEW t \in Thread, NEW u \in User, NEW r \in Request,
             FileRequest(t, u, r)
     PROVE  Revealers'
  BY <1>1 DEF FileRequest
<1>2. ASSUME NEW t \in Thread, LogRequest(t) PROVE Revealers'
  BY <1>2 DEF LogRequest
<1>3. ASSUME NEW t \in Thread, NEW u \in User, Direct(t, u) PROVE Revealers'
  BY <1>3 DEF Direct
<1>4. ASSUME NEW t \in Thread, LogDirect(t) PROVE Revealers'
  BY <1>4 DEF LogDirect
<1>5. ASSUME NEW t \in Thread, NEW u \in User, NEW r \in Request,
             NEW v \in Verdict, Decide(t, u, r, v)
     PROVE  Revealers'
  BY <1>5 DEF Decide
<1>6. ASSUME NEW t \in Thread, CommitDecision(t) PROVE Revealers'
  BY <1>6 DEF CommitDecision
<1>7. ASSUME NEW t \in Thread, NotPending(t) PROVE Revealers'
  BY <1>7 DEF NotPending
<1>8. ASSUME NEW t \in Thread, LogDecision(t) PROVE Revealers'
  BY <1>8 DEF LogDecision
<1>9. ASSUME NEW t \in Thread, NEW u \in User, NEW r \in Request,
             Reveal(t, u, r)
     PROVE  Revealers'
  BY <1>9 DEF Reveal
<1>10. ASSUME NEW t \in Thread, FindKey(t) PROVE Revealers'
  BY <1>10 DEF FindKey
<1>11. ASSUME NEW t \in Thread, Consume(t) PROVE Revealers'
  BY <1>11 DEF Consume, GiveKey
<1>12. ASSUME NEW t \in Thread, NotApproved(t) PROVE Revealers'
  BY <1>12 DEF NotApproved
<1>13. ASSUME NEW t \in Thread, NoActiveKey(t) PROVE Revealers'
  BY <1>13 DEF NoActiveKey
<1>14. ASSUME NEW t \in Thread, LogMiss(t) PROVE Revealers'
  BY <1>14 DEF LogMiss
<1>15. ASSUME NEW t \in Thread, LogReveal(t) PROVE Revealers'
  BY <1>15 DEF LogReveal
<1>16. ASSUME NEW t \in Thread, Respond(t) PROVE Revealers'
  BY <1>16 DEF Respond
<1>17. ASSUME NEW t \in Thread, Dies(t) PROVE Revealers'
  BY <1>17 DEF Dies
<1>18. ASSUME NEW k \in Key, Escrow(k) PROVE Revealers'
  BY <1>18 DEF Escrow
<1>19. CASE UNCHANGED vars
  BY <1>19
<1> QED
  BY <1>1, <1>2, <1>3, <1>4, <1>5, <1>6, <1>7, <1>8, <1>9, <1>10, <1>11, <1>12,
     <1>13, <1>14, <1>15, <1>16, <1>17, <1>18, <1>19 DEF Next, Start, Step

\* An approved request knows every key that is active from then on.
LEMMA FreshNext == TypeOK /\ Handlers /\ Revealers /\ Fresh /\ [Next]_vars => Fresh'
<1> SUFFICES ASSUME TypeOK, Handlers, Revealers, Fresh, [Next]_vars PROVE Fresh'
  OBVIOUS
<1> USE DEF Fresh, At, Goto, Log, Become, Finish, Advance, vars, config,
        columns, keys, handlers, history, TypeOK, Handlers, Revealers, Status,
        Granted, KeyToGive, AfterRead, Deciding, Revealing, Verdict
<1>1. ASSUME NEW t \in Thread, NEW u \in User, NEW r \in Request,
             FileRequest(t, u, r)
     PROVE  Fresh'
  BY <1>1 DEF FileRequest
<1>2. ASSUME NEW t \in Thread, LogRequest(t) PROVE Fresh'
  BY <1>2 DEF LogRequest
<1>3. ASSUME NEW t \in Thread, NEW u \in User, Direct(t, u) PROVE Fresh'
  BY <1>3 DEF Direct
<1>4. ASSUME NEW t \in Thread, LogDirect(t) PROVE Fresh'
  BY <1>4 DEF LogDirect
<1>5. ASSUME NEW t \in Thread, NEW u \in User, NEW r \in Request,
             NEW v \in Verdict, Decide(t, u, r, v)
     PROVE  Fresh'
  BY <1>5 DEF Decide
<1>6. ASSUME NEW t \in Thread, CommitDecision(t) PROVE Fresh'
  BY <1>6 DEF CommitDecision
<1>7. ASSUME NEW t \in Thread, NotPending(t) PROVE Fresh'
  BY <1>7 DEF NotPending
<1>8. ASSUME NEW t \in Thread, LogDecision(t) PROVE Fresh'
  BY <1>8 DEF LogDecision
<1>9. ASSUME NEW t \in Thread, NEW u \in User, NEW r \in Request,
             Reveal(t, u, r)
     PROVE  Fresh'
  BY <1>9 DEF Reveal
<1>10. ASSUME NEW t \in Thread, FindKey(t) PROVE Fresh'
  BY <1>10 DEF FindKey
<1>11. ASSUME NEW t \in Thread, Consume(t) PROVE Fresh'
  BY <1>11 DEF Consume, GiveKey
<1>12. ASSUME NEW t \in Thread, NotApproved(t) PROVE Fresh'
  BY <1>12 DEF NotApproved
<1>13. ASSUME NEW t \in Thread, NoActiveKey(t) PROVE Fresh'
  BY <1>13 DEF NoActiveKey
<1>14. ASSUME NEW t \in Thread, LogMiss(t) PROVE Fresh'
  BY <1>14 DEF LogMiss
<1>15. ASSUME NEW t \in Thread, LogReveal(t) PROVE Fresh'
  BY <1>15 DEF LogReveal
<1>16. ASSUME NEW t \in Thread, Respond(t) PROVE Fresh'
  BY <1>16 DEF Respond
<1>17. ASSUME NEW t \in Thread, Dies(t) PROVE Fresh'
  BY <1>17 DEF Dies
<1>18. ASSUME NEW k \in Key, Escrow(k) PROVE Fresh'
  BY <1>18 DEF Escrow
<1>19. CASE UNCHANGED vars
  BY <1>19
<1> QED
  BY <1>1, <1>2, <1>3, <1>4, <1>5, <1>6, <1>7, <1>8, <1>9, <1>10, <1>11, <1>12,
     <1>13, <1>14, <1>15, <1>16, <1>17, <1>18, <1>19 DEF Next, Start, Step

\* The update that consumes a request lets one handler through.
LEMMA HoldersNext ==
  TypeOK /\ Handlers /\ Fresh /\ Yields /\ Holders /\ [Next]_vars => Holders'
<1> SUFFICES ASSUME TypeOK, Handlers, Fresh, Yields, Holders, [Next]_vars PROVE Holders'
  OBVIOUS
<1> USE NoneAssumption DEF Holders, At, Goto, Log, Become, Finish, Advance,
        vars, config, columns, keys, handlers, history, Holds, TypeOK, Handlers,
        Fresh, Yields, Status, KeyToGive, AfterRead, Deciding, Revealing,
        Verdict
<1>1. ASSUME NEW t \in Thread, NEW u \in User, NEW r \in Request,
             FileRequest(t, u, r)
     PROVE  Holders'
  BY <1>1 DEF FileRequest
<1>2. ASSUME NEW t \in Thread, LogRequest(t) PROVE Holders'
  BY <1>2 DEF LogRequest
<1>3. ASSUME NEW t \in Thread, NEW u \in User, Direct(t, u) PROVE Holders'
  BY <1>3 DEF Direct
<1>4. ASSUME NEW t \in Thread, LogDirect(t) PROVE Holders'
  BY <1>4 DEF LogDirect
<1>5. ASSUME NEW t \in Thread, NEW u \in User, NEW r \in Request,
             NEW v \in Verdict, Decide(t, u, r, v)
     PROVE  Holders'
  BY <1>5 DEF Decide
<1>6. ASSUME NEW t \in Thread, CommitDecision(t) PROVE Holders'
  BY <1>6 DEF CommitDecision
<1>7. ASSUME NEW t \in Thread, NotPending(t) PROVE Holders'
  BY <1>7 DEF NotPending
<1>8. ASSUME NEW t \in Thread, LogDecision(t) PROVE Holders'
  BY <1>8 DEF LogDecision
<1>9. ASSUME NEW t \in Thread, NEW u \in User, NEW r \in Request,
             Reveal(t, u, r)
     PROVE  Holders'
  BY <1>9 DEF Reveal
<1>10. ASSUME NEW t \in Thread, FindKey(t) PROVE Holders'
  BY <1>10 DEF FindKey
<1>11. ASSUME NEW t \in Thread, Consume(t) PROVE Holders'
  BY <1>11 DEF Consume, GiveKey
<1>12. ASSUME NEW t \in Thread, NotApproved(t) PROVE Holders'
  BY <1>12 DEF NotApproved
<1>13. ASSUME NEW t \in Thread, NoActiveKey(t) PROVE Holders'
  BY <1>13 DEF NoActiveKey
<1>14. ASSUME NEW t \in Thread, LogMiss(t) PROVE Holders'
  BY <1>14 DEF LogMiss
<1>15. ASSUME NEW t \in Thread, LogReveal(t) PROVE Holders'
  BY <1>15 DEF LogReveal
<1>16. ASSUME NEW t \in Thread, Respond(t) PROVE Holders'
  BY <1>16 DEF Respond
<1>17. ASSUME NEW t \in Thread, Dies(t) PROVE Holders'
  BY <1>17 DEF Dies
<1>18. ASSUME NEW k \in Key, Escrow(k) PROVE Holders'
  BY <1>18 DEF Escrow
<1>19. CASE UNCHANGED vars
  BY <1>19
<1> QED
  BY <1>1, <1>2, <1>3, <1>4, <1>5, <1>6, <1>7, <1>8, <1>9, <1>10, <1>11, <1>12,
     <1>13, <1>14, <1>15, <1>16, <1>17, <1>18, <1>19 DEF Next, Start, Step

\* A request yields at most once, and only after it was consumed.
LEMMA YieldsNext == TypeOK /\ Handlers /\ Holders /\ Yields /\ [Next]_vars => Yields'
<1> SUFFICES ASSUME TypeOK, Handlers, Holders, Yields, [Next]_vars PROVE Yields'
  OBVIOUS
<1> USE DEF Yields, At, Goto, Log, Become, Finish, Advance, vars, config,
        columns, keys, handlers, history, Holds, TypeOK, Handlers, Holders,
        Status, AfterRead, Deciding, Revealing, Verdict
<1>1. ASSUME NEW t \in Thread, NEW u \in User, NEW r \in Request,
             FileRequest(t, u, r)
     PROVE  Yields'
  BY <1>1 DEF FileRequest
<1>2. ASSUME NEW t \in Thread, LogRequest(t) PROVE Yields'
  BY <1>2 DEF LogRequest
<1>3. ASSUME NEW t \in Thread, NEW u \in User, Direct(t, u) PROVE Yields'
  BY <1>3 DEF Direct
<1>4. ASSUME NEW t \in Thread, LogDirect(t) PROVE Yields'
  BY <1>4 DEF LogDirect
<1>5. ASSUME NEW t \in Thread, NEW u \in User, NEW r \in Request,
             NEW v \in Verdict, Decide(t, u, r, v)
     PROVE  Yields'
  BY <1>5 DEF Decide
<1>6. ASSUME NEW t \in Thread, CommitDecision(t) PROVE Yields'
  BY <1>6 DEF CommitDecision
<1>7. ASSUME NEW t \in Thread, NotPending(t) PROVE Yields'
  BY <1>7 DEF NotPending
<1>8. ASSUME NEW t \in Thread, LogDecision(t) PROVE Yields'
  BY <1>8 DEF LogDecision
<1>9. ASSUME NEW t \in Thread, NEW u \in User, NEW r \in Request,
             Reveal(t, u, r)
     PROVE  Yields'
  BY <1>9 DEF Reveal
<1>10. ASSUME NEW t \in Thread, FindKey(t) PROVE Yields'
  BY <1>10 DEF FindKey
<1>11. ASSUME NEW t \in Thread, Consume(t) PROVE Yields'
  BY <1>11 DEF Consume, GiveKey
<1>12. ASSUME NEW t \in Thread, NotApproved(t) PROVE Yields'
  BY <1>12 DEF NotApproved
<1>13. ASSUME NEW t \in Thread, NoActiveKey(t) PROVE Yields'
  BY <1>13 DEF NoActiveKey
<1>14. ASSUME NEW t \in Thread, LogMiss(t) PROVE Yields'
  BY <1>14 DEF LogMiss
<1>15. ASSUME NEW t \in Thread, LogReveal(t) PROVE Yields'
  BY <1>15 DEF LogReveal
<1>16. ASSUME NEW t \in Thread, Respond(t) PROVE Yields'
  BY <1>16 DEF Respond
<1>17. ASSUME NEW t \in Thread, Dies(t) PROVE Yields'
  BY <1>17 DEF Dies
<1>18. ASSUME NEW k \in Key, Escrow(k) PROVE Yields'
  BY <1>18 DEF Escrow
<1>19. CASE UNCHANGED vars
  BY <1>19
<1> QED
  BY <1>1, <1>2, <1>3, <1>4, <1>5, <1>6, <1>7, <1>8, <1>9, <1>10, <1>11, <1>12,
     <1>13, <1>14, <1>15, <1>16, <1>17, <1>18, <1>19 DEF Next, Start, Step

\* What the audit says about a request stays true.
LEMMA AuditedRequestsNext ==
  TypeOK /\ Handlers /\ Holders /\ AuditedRequests /\ [Next]_vars =>
    AuditedRequests'
<1> SUFFICES ASSUME TypeOK, Handlers, Holders, AuditedRequests, [Next]_vars
     PROVE  AuditedRequests'
  OBVIOUS
<1> USE DEF AuditedRequests, At, Goto, Log, Become, Finish, Advance, vars,
        config, columns, keys, handlers, history, Holds, TypeOK, Handlers,
        Holders, Status, AuditRow, Entry, AfterRead, Deciding, Revealing,
        Verdict
<1>1. ASSUME NEW t \in Thread, NEW u \in User, NEW r \in Request,
             FileRequest(t, u, r)
     PROVE  AuditedRequests'
  BY <1>1 DEF FileRequest
<1>2. ASSUME NEW t \in Thread, LogRequest(t) PROVE AuditedRequests'
  BY <1>2 DEF LogRequest
<1>3. ASSUME NEW t \in Thread, NEW u \in User, Direct(t, u) PROVE AuditedRequests'
  BY <1>3 DEF Direct
<1>4. ASSUME NEW t \in Thread, LogDirect(t) PROVE AuditedRequests'
  BY <1>4 DEF LogDirect
<1>5. ASSUME NEW t \in Thread, NEW u \in User, NEW r \in Request,
             NEW v \in Verdict, Decide(t, u, r, v)
     PROVE  AuditedRequests'
  BY <1>5 DEF Decide
<1>6. ASSUME NEW t \in Thread, CommitDecision(t) PROVE AuditedRequests'
  BY <1>6 DEF CommitDecision
<1>7. ASSUME NEW t \in Thread, NotPending(t) PROVE AuditedRequests'
  BY <1>7 DEF NotPending
<1>8. ASSUME NEW t \in Thread, LogDecision(t) PROVE AuditedRequests'
  BY <1>8 DEF LogDecision
<1>9. ASSUME NEW t \in Thread, NEW u \in User, NEW r \in Request,
             Reveal(t, u, r)
     PROVE  AuditedRequests'
  BY <1>9 DEF Reveal
<1>10. ASSUME NEW t \in Thread, FindKey(t) PROVE AuditedRequests'
  BY <1>10 DEF FindKey
<1>11. ASSUME NEW t \in Thread, Consume(t) PROVE AuditedRequests'
  BY <1>11 DEF Consume, GiveKey
<1>12. ASSUME NEW t \in Thread, NotApproved(t) PROVE AuditedRequests'
  BY <1>12 DEF NotApproved
<1>13. ASSUME NEW t \in Thread, NoActiveKey(t) PROVE AuditedRequests'
  BY <1>13 DEF NoActiveKey
<1>14. ASSUME NEW t \in Thread, LogMiss(t) PROVE AuditedRequests'
  BY <1>14 DEF LogMiss
<1>15. ASSUME NEW t \in Thread, LogReveal(t) PROVE AuditedRequests'
  BY <1>15 DEF LogReveal
<1>16. ASSUME NEW t \in Thread, Respond(t) PROVE AuditedRequests'
  BY <1>16 DEF Respond
<1>17. ASSUME NEW t \in Thread, Dies(t) PROVE AuditedRequests'
  BY <1>17 DEF Dies
<1>18. ASSUME NEW k \in Key, Escrow(k) PROVE AuditedRequests'
  BY <1>18 DEF Escrow
<1>19. CASE UNCHANGED vars
  BY <1>19
<1> QED
  BY <1>1, <1>2, <1>3, <1>4, <1>5, <1>6, <1>7, <1>8, <1>9, <1>10, <1>11, <1>12,
     <1>13, <1>14, <1>15, <1>16, <1>17, <1>18, <1>19 DEF Next, Start, Step

\* Every step keeps the audit ahead of the answer.
LEMMA ReleaseIsAuditedNext ==
  TypeOK /\ Handlers /\ Table /\ Revealers /\ ReleaseIsAudited /\ [Next]_vars =>
    ReleaseIsAudited'
<1> SUFFICES ASSUME TypeOK, Handlers, Table, Revealers, ReleaseIsAudited,
       [Next]_vars
     PROVE  ReleaseIsAudited'
  OBVIOUS
<1> USE NoneAssumption DEF ReleaseIsAudited, At, Goto, Log, Become, Finish,
        Advance, vars, config, columns, keys, handlers, history, TypeOK,
        Handlers, Table, Revealers, Entry, Status, AfterRead, Deciding,
        Revealing, Verdict
<1>1. ASSUME NEW t \in Thread, NEW u \in User, NEW r \in Request,
             FileRequest(t, u, r)
     PROVE  ReleaseIsAudited'
  BY <1>1 DEF FileRequest
<1>2. ASSUME NEW t \in Thread, LogRequest(t) PROVE ReleaseIsAudited'
  BY <1>2 DEF LogRequest
<1>3. ASSUME NEW t \in Thread, NEW u \in User, Direct(t, u) PROVE ReleaseIsAudited'
  BY <1>3 DEF Direct
<1>4. ASSUME NEW t \in Thread, LogDirect(t) PROVE ReleaseIsAudited'
  <2>a. CASE key[t] = None
    BY <1>4, <2>a DEF LogDirect
  <2>b. CASE key[t] # None
    <3> DEFINE e == Entry("key_revealed", who[t], None, None)
    <3>1. audit' = audit \cup {e} /\ who' = who /\ req' = req /\ requester' = requester
      BY <1>4, <2>b DEF LogDirect
    <3>2. e \in audit' /\ e.action = "key_revealed" /\ e.actor = who'[t] /\ e.req = None
      BY <3>1
    <3>3. req'[t] = None /\ (req'[t] # None => requester'[req'[t]] = who'[t])
      BY <1>4, <2>b, <3>1 DEF LogDirect
    <3>4. ASSUME NEW x \in Thread, At(x, "respond")', x # t
          PROVE  At(x, "respond") /\ who'[x] = who[x] /\ req'[x] = req[x]
      BY <1>4, <2>b, <3>4 DEF LogDirect
    <3>5. ASSUME NEW x \in Thread, At(x, "respond")'
          PROVE  /\ \E f \in audit' : /\ f.action = "key_revealed"
                                     /\ f.actor = who'[x] /\ f.req = req'[x]
                 /\ req'[x] # None => requester'[req'[x]] = who'[x]
      <4>1. CASE x = t
        BY <4>1, <3>2, <3>3
      <4>2. CASE x # t
        <5>1. PICK f \in audit : /\ f.action = "key_revealed"
                                  /\ f.actor = who[x] /\ f.req = req[x]
          BY <4>2, <3>4, <3>5
        <5>2. f \in audit'
          BY <3>1
        <5>3. QED
          BY <4>2, <5>1, <5>2, <3>1, <3>4, <3>5
      <4>3. QED
        BY <4>1, <4>2
    <3>6. QED
      BY <3>5
  <2>c. QED
    BY <2>a, <2>b
<1>5. ASSUME NEW t \in Thread, NEW u \in User, NEW r \in Request,
             NEW v \in Verdict, Decide(t, u, r, v)
     PROVE  ReleaseIsAudited'
  BY <1>5 DEF Decide
<1>6. ASSUME NEW t \in Thread, CommitDecision(t) PROVE ReleaseIsAudited'
  BY <1>6 DEF CommitDecision
<1>7. ASSUME NEW t \in Thread, NotPending(t) PROVE ReleaseIsAudited'
  BY <1>7 DEF NotPending
<1>8. ASSUME NEW t \in Thread, LogDecision(t) PROVE ReleaseIsAudited'
  BY <1>8 DEF LogDecision
<1>9. ASSUME NEW t \in Thread, NEW u \in User, NEW r \in Request,
             Reveal(t, u, r)
     PROVE  ReleaseIsAudited'
  BY <1>9 DEF Reveal
<1>10. ASSUME NEW t \in Thread, FindKey(t) PROVE ReleaseIsAudited'
  BY <1>10 DEF FindKey
<1>11. ASSUME NEW t \in Thread, Consume(t) PROVE ReleaseIsAudited'
  BY <1>11 DEF Consume, GiveKey
<1>12. ASSUME NEW t \in Thread, NotApproved(t) PROVE ReleaseIsAudited'
  BY <1>12 DEF NotApproved
<1>13. ASSUME NEW t \in Thread, NoActiveKey(t) PROVE ReleaseIsAudited'
  BY <1>13 DEF NoActiveKey
<1>14. ASSUME NEW t \in Thread, LogMiss(t) PROVE ReleaseIsAudited'
  BY <1>14 DEF LogMiss
<1>15. ASSUME NEW t \in Thread, LogReveal(t) PROVE ReleaseIsAudited'
  <2> DEFINE e == Entry("key_revealed", who[t], req[t], seen[t])
  <2>1. audit' = audit \cup {e} /\ who' = who /\ req' = req /\ requester' = requester
    BY <1>15 DEF LogReveal
  <2>2. e \in audit' /\ e.action = "key_revealed" /\ e.actor = who'[t] /\ e.req = req[t]
    BY <2>1
  <2>3. req'[t] = req[t] /\ (req'[t] # None => requester'[req'[t]] = who'[t])
    BY <1>15, <2>1 DEF LogReveal
  <2>4. ASSUME NEW x \in Thread, At(x, "respond")', x # t
        PROVE  At(x, "respond") /\ who'[x] = who[x] /\ req'[x] = req[x]
    BY <1>15, <2>4 DEF LogReveal
  <2>5. ASSUME NEW x \in Thread, At(x, "respond")'
        PROVE  /\ \E f \in audit' : /\ f.action = "key_revealed"
                                   /\ f.actor = who'[x] /\ f.req = req'[x]
               /\ req'[x] # None => requester'[req'[x]] = who'[x]
    <3>1. CASE x = t
      BY <3>1, <2>2, <2>3
    <3>2. CASE x # t
      <4>1. PICK f \in audit : /\ f.action = "key_revealed"
                                /\ f.actor = who[x] /\ f.req = req[x]
        BY <3>2, <2>4, <2>5
      <4>2. f \in audit'
        BY <2>1
      <4>3. QED
        BY <3>2, <4>1, <4>2, <2>1, <2>4, <2>5
    <3>3. QED
      BY <3>1, <3>2
  <2>6. QED
    BY <2>5
<1>16. ASSUME NEW t \in Thread, Respond(t) PROVE ReleaseIsAudited'
  BY <1>16 DEF Respond
<1>17. ASSUME NEW t \in Thread, Dies(t) PROVE ReleaseIsAudited'
  BY <1>17 DEF Dies
<1>18. ASSUME NEW k \in Key, Escrow(k) PROVE ReleaseIsAudited'
  BY <1>18 DEF Escrow
<1>19. CASE UNCHANGED vars
  BY <1>19
<1> QED
  BY <1>1, <1>2, <1>3, <1>4, <1>5, <1>6, <1>7, <1>8, <1>9, <1>10, <1>11, <1>12,
     <1>13, <1>14, <1>15, <1>16, <1>17, <1>18, <1>19 DEF Next, Start, Step

\* Every step keeps the logged decisions those of the rows.
LEMMA LoggedDecisionNext ==
  TypeOK /\ Handlers /\ Table /\ Deciders /\ AuditedRequests /\
    LoggedDecisionIsTheDecision /\ [Next]_vars => LoggedDecisionIsTheDecision'
<1> SUFFICES ASSUME TypeOK, Handlers, Table, Deciders, AuditedRequests,
       LoggedDecisionIsTheDecision, [Next]_vars
     PROVE  LoggedDecisionIsTheDecision'
  OBVIOUS
<1> USE DEF LoggedDecisionIsTheDecision, At, Goto, Log, Become, Finish, Advance,
        vars, config, columns, keys, handlers, history, TypeOK, Handlers, Table,
        Deciders, AuditedRequests, Outcomes, Entry, Status, Granted, Decided,
        AfterRead, Deciding, Revealing, Verdict
<1>1. ASSUME NEW t \in Thread, NEW u \in User, NEW r \in Request,
             FileRequest(t, u, r)
     PROVE  LoggedDecisionIsTheDecision'
  BY <1>1 DEF FileRequest
<1>2. ASSUME NEW t \in Thread, LogRequest(t) PROVE LoggedDecisionIsTheDecision'
  BY <1>2 DEF LogRequest
<1>3. ASSUME NEW t \in Thread, NEW u \in User, Direct(t, u)
     PROVE  LoggedDecisionIsTheDecision'
  BY <1>3 DEF Direct
<1>4. ASSUME NEW t \in Thread, LogDirect(t) PROVE LoggedDecisionIsTheDecision'
  BY <1>4 DEF LogDirect
<1>5. ASSUME NEW t \in Thread, NEW u \in User, NEW r \in Request,
             NEW v \in Verdict, Decide(t, u, r, v)
     PROVE  LoggedDecisionIsTheDecision'
  BY <1>5 DEF Decide
<1>6. ASSUME NEW t \in Thread, CommitDecision(t) PROVE LoggedDecisionIsTheDecision'
  BY <1>6 DEF CommitDecision
<1>7. ASSUME NEW t \in Thread, NotPending(t) PROVE LoggedDecisionIsTheDecision'
  BY <1>7 DEF NotPending
<1>8. ASSUME NEW t \in Thread, LogDecision(t) PROVE LoggedDecisionIsTheDecision'
  BY <1>8 DEF LogDecision
<1>9. ASSUME NEW t \in Thread, NEW u \in User, NEW r \in Request,
             Reveal(t, u, r)
     PROVE  LoggedDecisionIsTheDecision'
  BY <1>9 DEF Reveal
<1>10. ASSUME NEW t \in Thread, FindKey(t) PROVE LoggedDecisionIsTheDecision'
  BY <1>10 DEF FindKey
<1>11. ASSUME NEW t \in Thread, Consume(t) PROVE LoggedDecisionIsTheDecision'
  BY <1>11 DEF Consume, GiveKey
<1>12. ASSUME NEW t \in Thread, NotApproved(t) PROVE LoggedDecisionIsTheDecision'
  BY <1>12 DEF NotApproved
<1>13. ASSUME NEW t \in Thread, NoActiveKey(t) PROVE LoggedDecisionIsTheDecision'
  BY <1>13 DEF NoActiveKey
<1>14. ASSUME NEW t \in Thread, LogMiss(t) PROVE LoggedDecisionIsTheDecision'
  BY <1>14 DEF LogMiss
<1>15. ASSUME NEW t \in Thread, LogReveal(t) PROVE LoggedDecisionIsTheDecision'
  BY <1>15 DEF LogReveal
<1>16. ASSUME NEW t \in Thread, Respond(t) PROVE LoggedDecisionIsTheDecision'
  BY <1>16 DEF Respond
<1>17. ASSUME NEW t \in Thread, Dies(t) PROVE LoggedDecisionIsTheDecision'
  BY <1>17 DEF Dies
<1>18. ASSUME NEW k \in Key, Escrow(k) PROVE LoggedDecisionIsTheDecision'
  BY <1>18 DEF Escrow
<1>19. CASE UNCHANGED vars
  BY <1>19
<1> QED
  BY <1>1, <1>2, <1>3, <1>4, <1>5, <1>6, <1>7, <1>8, <1>9, <1>10, <1>11, <1>12,
     <1>13, <1>14, <1>15, <1>16, <1>17, <1>18, <1>19 DEF Next, Start, Step

\* Every step keeps the keys that were given current.
LEMMA ReleasedKeyNext ==
  TypeOK /\ Handlers /\ Holders /\ Yields /\ ReleasedKeyIsCurrent /\ [Next]_vars
    => ReleasedKeyIsCurrent'
<1> SUFFICES ASSUME TypeOK, Handlers, Holders, Yields, ReleasedKeyIsCurrent,
       [Next]_vars
     PROVE  ReleasedKeyIsCurrent'
  OBVIOUS
<1> USE DEF ReleasedKeyIsCurrent, At, Goto, Log, Become, Finish, Advance, vars,
        config, columns, keys, handlers, history, Holds, TypeOK, Handlers,
        Holders, Yields, Status, KeyToGive, AfterRead, Deciding, Revealing,
        Verdict
<1>1. ASSUME NEW t \in Thread, NEW u \in User, NEW r \in Request,
             FileRequest(t, u, r)
     PROVE  ReleasedKeyIsCurrent'
  BY <1>1 DEF FileRequest
<1>2. ASSUME NEW t \in Thread, LogRequest(t) PROVE ReleasedKeyIsCurrent'
  BY <1>2 DEF LogRequest
<1>3. ASSUME NEW t \in Thread, NEW u \in User, Direct(t, u) PROVE ReleasedKeyIsCurrent'
  BY <1>3 DEF Direct
<1>4. ASSUME NEW t \in Thread, LogDirect(t) PROVE ReleasedKeyIsCurrent'
  BY <1>4 DEF LogDirect
<1>5. ASSUME NEW t \in Thread, NEW u \in User, NEW r \in Request,
             NEW v \in Verdict, Decide(t, u, r, v)
     PROVE  ReleasedKeyIsCurrent'
  BY <1>5 DEF Decide
<1>6. ASSUME NEW t \in Thread, CommitDecision(t) PROVE ReleasedKeyIsCurrent'
  BY <1>6 DEF CommitDecision
<1>7. ASSUME NEW t \in Thread, NotPending(t) PROVE ReleasedKeyIsCurrent'
  BY <1>7 DEF NotPending
<1>8. ASSUME NEW t \in Thread, LogDecision(t) PROVE ReleasedKeyIsCurrent'
  BY <1>8 DEF LogDecision
<1>9. ASSUME NEW t \in Thread, NEW u \in User, NEW r \in Request,
             Reveal(t, u, r)
     PROVE  ReleasedKeyIsCurrent'
  BY <1>9 DEF Reveal
<1>10. ASSUME NEW t \in Thread, FindKey(t) PROVE ReleasedKeyIsCurrent'
  BY <1>10 DEF FindKey
<1>11. ASSUME NEW t \in Thread, Consume(t) PROVE ReleasedKeyIsCurrent'
  BY <1>11 DEF Consume, GiveKey
<1>12. ASSUME NEW t \in Thread, NotApproved(t) PROVE ReleasedKeyIsCurrent'
  BY <1>12 DEF NotApproved
<1>13. ASSUME NEW t \in Thread, NoActiveKey(t) PROVE ReleasedKeyIsCurrent'
  BY <1>13 DEF NoActiveKey
<1>14. ASSUME NEW t \in Thread, LogMiss(t) PROVE ReleasedKeyIsCurrent'
  BY <1>14 DEF LogMiss
<1>15. ASSUME NEW t \in Thread, LogReveal(t) PROVE ReleasedKeyIsCurrent'
  BY <1>15 DEF LogReveal
<1>16. ASSUME NEW t \in Thread, Respond(t) PROVE ReleasedKeyIsCurrent'
  BY <1>16 DEF Respond
<1>17. ASSUME NEW t \in Thread, Dies(t) PROVE ReleasedKeyIsCurrent'
  BY <1>17 DEF Dies
<1>18. ASSUME NEW k \in Key, Escrow(k) PROVE ReleasedKeyIsCurrent'
  BY <1>18 DEF Escrow
<1>19. CASE UNCHANGED vars
  BY <1>19
<1> QED
  BY <1>1, <1>2, <1>3, <1>4, <1>5, <1>6, <1>7, <1>8, <1>9, <1>10, <1>11, <1>12,
     <1>13, <1>14, <1>15, <1>16, <1>17, <1>18, <1>19 DEF Next, Start, Step

\* Every step of Python keeps both names in the audit rows of reveals.
LEMMA NamesBothNext ==
  TypeOK /\ Handlers /\ Table /\ Revealers /\ AuditedRequests /\
    PythonAuditNamesBoth /\ [Next]_vars => PythonAuditNamesBoth'
<1> SUFFICES ASSUME TypeOK, Handlers, Table, Revealers, AuditedRequests,
       PythonAuditNamesBoth, [Next]_vars
     PROVE  PythonAuditNamesBoth'
  OBVIOUS
<1> USE NoneAssumption DEF PythonAuditNamesBoth, At, Goto, Log, Become, Finish,
        Advance, vars, config, columns, keys, handlers, history, AuditNamesBoth,
        NamesBoth, TypeOK, Handlers, Table, Revealers, AuditedRequests, Entry,
        Status, AuditRow, Granted, Decided, AfterRead, Deciding, Revealing,
        Verdict
<1>1. ASSUME NEW t \in Thread, NEW u \in User, NEW r \in Request,
             FileRequest(t, u, r)
     PROVE  PythonAuditNamesBoth'
  BY <1>1 DEF FileRequest
<1>2. ASSUME NEW t \in Thread, LogRequest(t) PROVE PythonAuditNamesBoth'
  BY <1>2 DEF LogRequest
<1>3. ASSUME NEW t \in Thread, NEW u \in User, Direct(t, u) PROVE PythonAuditNamesBoth'
  BY <1>3 DEF Direct
<1>4. ASSUME NEW t \in Thread, LogDirect(t) PROVE PythonAuditNamesBoth'
  BY <1>4 DEF LogDirect
<1>5. ASSUME NEW t \in Thread, NEW u \in User, NEW r \in Request,
             NEW v \in Verdict, Decide(t, u, r, v)
     PROVE  PythonAuditNamesBoth'
  BY <1>5 DEF Decide
<1>6. ASSUME NEW t \in Thread, CommitDecision(t) PROVE PythonAuditNamesBoth'
  BY <1>6 DEF CommitDecision
<1>7. ASSUME NEW t \in Thread, NotPending(t) PROVE PythonAuditNamesBoth'
  BY <1>7 DEF NotPending
<1>8. ASSUME NEW t \in Thread, LogDecision(t) PROVE PythonAuditNamesBoth'
  BY <1>8 DEF LogDecision
<1>9. ASSUME NEW t \in Thread, NEW u \in User, NEW r \in Request,
             Reveal(t, u, r)
     PROVE  PythonAuditNamesBoth'
  BY <1>9 DEF Reveal
<1>10. ASSUME NEW t \in Thread, FindKey(t) PROVE PythonAuditNamesBoth'
  BY <1>10 DEF FindKey
<1>11. ASSUME NEW t \in Thread, Consume(t) PROVE PythonAuditNamesBoth'
  BY <1>11 DEF Consume, GiveKey
<1>12. ASSUME NEW t \in Thread, NotApproved(t) PROVE PythonAuditNamesBoth'
  BY <1>12 DEF NotApproved
<1>13. ASSUME NEW t \in Thread, NoActiveKey(t) PROVE PythonAuditNamesBoth'
  BY <1>13 DEF NoActiveKey
<1>14. ASSUME NEW t \in Thread, LogMiss(t) PROVE PythonAuditNamesBoth'
  BY <1>14 DEF LogMiss
<1>15. ASSUME NEW t \in Thread, LogReveal(t) PROVE PythonAuditNamesBoth'
  BY <1>15 DEF LogReveal
<1>16. ASSUME NEW t \in Thread, Respond(t) PROVE PythonAuditNamesBoth'
  BY <1>16 DEF Respond
<1>17. ASSUME NEW t \in Thread, Dies(t) PROVE PythonAuditNamesBoth'
  BY <1>17 DEF Dies
<1>18. ASSUME NEW k \in Key, Escrow(k) PROVE PythonAuditNamesBoth'
  BY <1>18 DEF Escrow
<1>19. CASE UNCHANGED vars
  BY <1>19
<1> QED
  BY <1>1, <1>2, <1>3, <1>4, <1>5, <1>6, <1>7, <1>8, <1>9, <1>10, <1>11, <1>12,
     <1>13, <1>14, <1>15, <1>16, <1>17, <1>18, <1>19 DEF Next, Start, Step

-----------------------------------------------------------------------------
(* The inductive invariant and the theorems.                               *)

IInv ==
  /\ TypeOK
  /\ Handlers
  /\ Table
  /\ Deciders
  /\ Revealers
  /\ Fresh
  /\ Holders
  /\ Yields
  /\ AuditedRequests
  /\ ReleaseIsAudited
  /\ LoggedDecisionIsTheDecision
  /\ ReleasedKeyIsCurrent
  /\ PythonAuditNamesBoth

\* The tables are empty and no handler runs at first.
LEMMA InvInit == Init => IInv
<1> SUFFICES ASSUME Init PROVE IInv
  OBVIOUS
<1> USE DEF Init
<1>1. TypeOK
  BY DEF TypeOK, Status, PCs
<1>2. Handlers /\ Deciders /\ Revealers /\ ReleaseIsAudited
  BY DEF Handlers, Deciders, Revealers, ReleaseIsAudited, Deciding, Revealing, At
<1>3. Table /\ Yields /\ ReleasedKeyIsCurrent
  BY DEF Table, Yields, ReleasedKeyIsCurrent, Decided
<1>4. Fresh /\ Holders
  BY DEF Fresh, Holders, Holds
<1>5. AuditedRequests /\ LoggedDecisionIsTheDecision /\ PythonAuditNamesBoth
  BY DEF AuditedRequests, LoggedDecisionIsTheDecision, PythonAuditNamesBoth,
         AuditNamesBoth
<1>6. QED
  BY <1>1, <1>2, <1>3, <1>4, <1>5 DEF IInv

\* The conjuncts are inductive together.
LEMMA InvNext == IInv /\ [Next]_vars => IInv'
  BY TypeNext, HandlersNext, TableNext, DecidersNext, RevealersNext, FreshNext,
     HoldersNext, YieldsNext, AuditedRequestsNext, ReleaseIsAuditedNext,
     LoggedDecisionNext, ReleasedKeyNext, NamesBothNext DEF IInv

\* The invariant holds in every state the portal reaches.
THEOREM Invariance == Spec => []IInv
  BY InvInit, InvNext, PTL DEF Spec

\* Every variable keeps its type: the columns of reveal_requests, the audit,
\* the variables of the handlers.
THEOREM TypeCorrect == Spec => []TypeOK
<1>1. IInv => TypeOK
  BY DEF IInv
<1>2. QED
  BY Invariance, <1>1, PTL

\* No ciphertext leaves the portal before its audit row is written.
THEOREM ReleasesAudited == Spec => []ReleaseIsAudited
<1>1. IInv => ReleaseIsAudited
  BY DEF IInv
<1>2. QED
  BY Invariance, <1>1, PTL

\* Of overlapping decisions the audit shows the one that was taken.
THEOREM DecisionsLogged == Spec => []LoggedDecisionIsTheDecision
<1>1. IInv => LoggedDecisionIsTheDecision
  BY DEF IInv
<1>2. QED
  BY Invariance, <1>1, PTL

\* A request yields a key that was active after its approval, and records it.
THEOREM KeysCurrent == Spec => []ReleasedKeyIsCurrent
<1>1. IInv => ReleasedKeyIsCurrent
  BY DEF IInv
<1>2. QED
  BY Invariance, <1>1, PTL

\* In Python the audit row of a reveal names requester and approver.
THEOREM PythonNamesBoth == Spec => []PythonAuditNamesBoth
<1>1. IInv => PythonAuditNamesBoth
  BY DEF IInv
<1>2. QED
  BY Invariance, <1>1, PTL

-----------------------------------------------------------------------------
(* Which overlap the audit of Go is exposed to.                            *)

\* Nobody decides a request between the read of its row and the update that
\* consumes it.
Quiet == \A t \in Thread : pc[t] = "consume" => approver'[req[t]] = approver[req[t]]

SeenIsTheRow ==
  \A t \in Thread :
    pc[t] \in {"findKey", "consume", "logReveal"} => seen[t] = approver[req[t]]

LEMMA SeenNext ==
  TypeOK /\ Handlers /\ Revealers /\ Holders /\ SeenIsTheRow /\
    [Next]_vars /\ [Quiet]_vars => SeenIsTheRow'
<1> SUFFICES ASSUME TypeOK, Handlers, Revealers, Holders, SeenIsTheRow, [Next]_vars,
                    [Quiet]_vars
             PROVE  SeenIsTheRow'
  OBVIOUS
<1> USE DEF Quiet, SeenIsTheRow, At, Goto, Log, Become, Finish, Advance, vars,
        config, columns, keys, handlers, history, TypeOK, Handlers, AfterRead,
        Deciding, Revealing
<1>1. ASSUME NEW t \in Thread, NEW u \in User, NEW r \in Request,
             FileRequest(t, u, r)
     PROVE  SeenIsTheRow'
  BY <1>1 DEF FileRequest
<1>2. ASSUME NEW t \in Thread, LogRequest(t) PROVE SeenIsTheRow'
  BY <1>2 DEF LogRequest
<1>3. ASSUME NEW t \in Thread, NEW u \in User, Direct(t, u) PROVE SeenIsTheRow'
  BY <1>3 DEF Direct
<1>4. ASSUME NEW t \in Thread, LogDirect(t) PROVE SeenIsTheRow'
  BY <1>4 DEF LogDirect
<1>5. ASSUME NEW t \in Thread, NEW u \in User, NEW r \in Request,
             NEW v \in Verdict, Decide(t, u, r, v)
     PROVE  SeenIsTheRow'
  BY <1>5 DEF Decide
<1>6. ASSUME NEW t \in Thread, CommitDecision(t) PROVE SeenIsTheRow'
  BY <1>6 DEF CommitDecision, Revealers, Granted, Holders, Holds
<1>7. ASSUME NEW t \in Thread, NotPending(t) PROVE SeenIsTheRow'
  BY <1>7 DEF NotPending
<1>8. ASSUME NEW t \in Thread, LogDecision(t) PROVE SeenIsTheRow'
  BY <1>8 DEF LogDecision
<1>9. ASSUME NEW t \in Thread, NEW u \in User, NEW r \in Request,
             Reveal(t, u, r)
     PROVE  SeenIsTheRow'
  BY <1>9 DEF Reveal
<1>10. ASSUME NEW t \in Thread, FindKey(t) PROVE SeenIsTheRow'
  BY <1>10 DEF FindKey
<1>11. ASSUME NEW t \in Thread, Consume(t) PROVE SeenIsTheRow'
  BY <1>11 DEF Consume, GiveKey
<1>12. ASSUME NEW t \in Thread, NotApproved(t) PROVE SeenIsTheRow'
  BY <1>12 DEF NotApproved
<1>13. ASSUME NEW t \in Thread, NoActiveKey(t) PROVE SeenIsTheRow'
  BY <1>13 DEF NoActiveKey
<1>14. ASSUME NEW t \in Thread, LogMiss(t) PROVE SeenIsTheRow'
  BY <1>14 DEF LogMiss
<1>15. ASSUME NEW t \in Thread, LogReveal(t) PROVE SeenIsTheRow'
  BY <1>15 DEF LogReveal
<1>16. ASSUME NEW t \in Thread, Respond(t) PROVE SeenIsTheRow'
  BY <1>16 DEF Respond
<1>17. ASSUME NEW t \in Thread, Dies(t) PROVE SeenIsTheRow'
  BY <1>17 DEF Dies
<1>18. ASSUME NEW k \in Key, Escrow(k) PROVE SeenIsTheRow'
  BY <1>18 DEF Escrow
<1>19. CASE UNCHANGED vars
  BY <1>19
<1> QED
  BY <1>1, <1>2, <1>3, <1>4, <1>5, <1>6, <1>7, <1>8, <1>9, <1>10, <1>11, <1>12,
     <1>13, <1>14, <1>15, <1>16, <1>17, <1>18, <1>19 DEF Next, Start, Step

\* The row a reveal is audited from is that of the request, which nobody decides
\* any more.
LEMMA BothNext ==
  TypeOK /\ Handlers /\ Revealers /\ AuditedRequests /\ SeenIsTheRow /\
    AuditNamesBoth /\ [Next]_vars => AuditNamesBoth'
<1> SUFFICES ASSUME TypeOK, Handlers, Revealers, AuditedRequests, SeenIsTheRow,
                    AuditNamesBoth, [Next]_vars
             PROVE  AuditNamesBoth'
  OBVIOUS
<1> USE NoneAssumption DEF AuditNamesBoth, NamesBoth, SeenIsTheRow, At, Goto, Log,
        Become, Finish, Advance, vars, config, columns, keys, handlers, history,
        TypeOK, Handlers, Revealers, AuditedRequests, Entry, AuditRow, Deciding,
        Revealing, Verdict
<1>1. ASSUME NEW t \in Thread, NEW u \in User, NEW r \in Request,
             FileRequest(t, u, r)
     PROVE  AuditNamesBoth'
  BY <1>1 DEF FileRequest
<1>2. ASSUME NEW t \in Thread, LogRequest(t) PROVE AuditNamesBoth'
  BY <1>2 DEF LogRequest
<1>3. ASSUME NEW t \in Thread, NEW u \in User, Direct(t, u) PROVE AuditNamesBoth'
  BY <1>3 DEF Direct
<1>4. ASSUME NEW t \in Thread, LogDirect(t) PROVE AuditNamesBoth'
  BY <1>4 DEF LogDirect
<1>5. ASSUME NEW t \in Thread, NEW u \in User, NEW r \in Request,
             NEW v \in Verdict, Decide(t, u, r, v)
     PROVE  AuditNamesBoth'
  BY <1>5 DEF Decide
<1>6. ASSUME NEW t \in Thread, CommitDecision(t) PROVE AuditNamesBoth'
  BY <1>6 DEF CommitDecision
<1>7. ASSUME NEW t \in Thread, NotPending(t) PROVE AuditNamesBoth'
  BY <1>7 DEF NotPending
<1>8. ASSUME NEW t \in Thread, LogDecision(t) PROVE AuditNamesBoth'
  BY <1>8 DEF LogDecision
<1>9. ASSUME NEW t \in Thread, NEW u \in User, NEW r \in Request,
             Reveal(t, u, r)
     PROVE  AuditNamesBoth'
  BY <1>9 DEF Reveal
<1>10. ASSUME NEW t \in Thread, FindKey(t) PROVE AuditNamesBoth'
  BY <1>10 DEF FindKey
<1>11. ASSUME NEW t \in Thread, Consume(t) PROVE AuditNamesBoth'
  BY <1>11 DEF Consume, GiveKey
<1>12. ASSUME NEW t \in Thread, NotApproved(t) PROVE AuditNamesBoth'
  BY <1>12 DEF NotApproved
<1>13. ASSUME NEW t \in Thread, NoActiveKey(t) PROVE AuditNamesBoth'
  BY <1>13 DEF NoActiveKey
<1>14. ASSUME NEW t \in Thread, LogMiss(t) PROVE AuditNamesBoth'
  BY <1>14 DEF LogMiss
<1>15. ASSUME NEW t \in Thread, LogReveal(t) PROVE AuditNamesBoth'
  BY <1>15 DEF LogReveal
<1>16. ASSUME NEW t \in Thread, Respond(t) PROVE AuditNamesBoth'
  BY <1>16 DEF Respond
<1>17. ASSUME NEW t \in Thread, Dies(t) PROVE AuditNamesBoth'
  BY <1>17 DEF Dies
<1>18. ASSUME NEW k \in Key, Escrow(k) PROVE AuditNamesBoth'
  BY <1>18 DEF Escrow
<1>19. CASE UNCHANGED vars
  BY <1>19
<1> QED
  BY <1>1, <1>2, <1>3, <1>4, <1>5, <1>6, <1>7, <1>8, <1>9, <1>10, <1>11, <1>12,
     <1>13, <1>14, <1>15, <1>16, <1>17, <1>18, <1>19 DEF Next, Start, Step

\* Either portal audits a reveal with its requester and its approver as long as
\* nobody decides the request between Go's read and its transaction: that is the
\* only overlap, of any number of handlers, that the audit of Go is exposed to.
THEOREM NamesBothUnlessDecided == Spec /\ [][Quiet]_vars => []AuditNamesBoth
<1>1. Init => SeenIsTheRow /\ AuditNamesBoth
  BY DEF Init, SeenIsTheRow, AuditNamesBoth
<1>2. IInv /\ SeenIsTheRow /\ AuditNamesBoth /\ [Next]_vars /\ [Quiet]_vars
        => SeenIsTheRow' /\ AuditNamesBoth'
  BY SeenNext, BothNext DEF IInv
<1>3. QED
  BY <1>1, <1>2, Invariance, PTL DEF Spec

-----------------------------------------------------------------------------
(* The refinement.                                                         *)

\* The empty table is a promise nobody has asked for.
LEMMA RefInit == Init => Abstract!Init
  BY DEF Init, Abstract!Init, GrantedBy, Denied

\* Steps that leave the columns and the counts alone are stutters.
LEMMA Stutters ==
  ASSUME UNCHANGED columns, UNCHANGED given
  PROVE  UNCHANGED <<requester, GrantedBy, Denied, given>>
  BY DEF columns, GrantedBy, Denied

\* Filing asks, the guarded update of a decision grants or refuses, and the
\* answer with the ciphertext releases; everything else is a stutter.
LEMMA RefNext ==
  IInv /\ [Next]_vars => [Abstract!Next]_<<requester, GrantedBy, Denied, given>>
<1> DEFINE absVars == <<requester, GrantedBy, Denied, given>>
<1> SUFFICES ASSUME IInv, [Next]_vars PROVE Abstract!Next \/ UNCHANGED absVars
  OBVIOUS
<1> TypeOK /\ Handlers /\ Table /\ Deciders /\ Holders /\ Yields
  BY DEF IInv
<1> USE DEF TypeOK
<1>1. ASSUME NEW t \in Thread, NEW u \in User, NEW r \in Request,
             FileRequest(t, u, r)
     PROVE  Abstract!Ask(r, u)
  <2>1. requester[r] = None /\ requester' = [requester EXCEPT ![r] = u]
    BY <1>1 DEF FileRequest, Table
  <2>2. GrantedBy' = GrantedBy /\ Denied' = Denied /\ given' = given
    BY <1>1 DEF FileRequest, GrantedBy, Denied, history
  <2>3. QED
    BY <2>1, <2>2 DEF Abstract!Ask
<1>2. ASSUME NEW t \in Thread, LogRequest(t) PROVE UNCHANGED absVars
  BY <1>2, Stutters DEF LogRequest, history
<1>3. ASSUME NEW t \in Thread, NEW u \in User, Direct(t, u) PROVE UNCHANGED absVars
  BY <1>3, Stutters DEF Direct, history
<1>4. ASSUME NEW t \in Thread, LogDirect(t) PROVE UNCHANGED absVars
  BY <1>4, Stutters DEF LogDirect, history
<1>5. ASSUME NEW t \in Thread, NEW u \in User, NEW r \in Request,
             NEW v \in Verdict, Decide(t, u, r, v)
     PROVE  UNCHANGED absVars
  BY <1>5, Stutters DEF Decide, history
<1>6. ASSUME NEW t \in Thread, CommitDecision(t) PROVE Abstract!Next
  <2> DEFINE r == req[t]
             u == who[t]
  <2>1. r \in Request /\ u \in User /\ verdict[t] \in Verdict
    BY <1>6 DEF CommitDecision, At, Handlers, Deciding
  <2>2. status[r] = "pending"
    BY <1>6 DEF CommitDecision
  <2>3. Abstract!Undecided(r, u)
    BY <1>6, <2>1, <2>2 DEF CommitDecision, At, Deciders, Deciding,
       Abstract!Undecided, GrantedBy, Denied
  <2>4. requester' = requester /\ given' = given
    BY <1>6 DEF CommitDecision
  <2>5. CASE verdict[t] = "approved"
    <3>1. GrantedBy' = [GrantedBy EXCEPT ![r] = u] /\ Denied' = Denied
      BY <1>6, <2>1, <2>2, <2>5 DEF CommitDecision, GrantedBy, Denied
    <3>2. Abstract!Grant(r, u)
      BY <2>3, <2>4, <3>1 DEF Abstract!Grant
    <3>3. QED
      BY <2>1, <3>2 DEF Abstract!Next
  <2>6. CASE verdict[t] = "denied"
    <3>1. GrantedBy' = GrantedBy /\ Denied' = [Denied EXCEPT ![r] = TRUE]
      BY <1>6, <2>1, <2>2, <2>6 DEF CommitDecision, GrantedBy, Denied
    <3>2. Abstract!Refuse(r, u)
      BY <2>3, <2>4, <3>1 DEF Abstract!Refuse
    <3>3. QED
      BY <2>1, <3>2 DEF Abstract!Next
  <2>7. QED
    BY <2>1, <2>5, <2>6 DEF Verdict
<1>7. ASSUME NEW t \in Thread, NotPending(t) PROVE UNCHANGED absVars
  BY <1>7, Stutters DEF NotPending, history
<1>8. ASSUME NEW t \in Thread, LogDecision(t) PROVE UNCHANGED absVars
  BY <1>8, Stutters DEF LogDecision, history
<1>9. ASSUME NEW t \in Thread, NEW u \in User, NEW r \in Request,
             Reveal(t, u, r)
     PROVE  UNCHANGED absVars
  BY <1>9, Stutters DEF Reveal, history
<1>10. ASSUME NEW t \in Thread, FindKey(t) PROVE UNCHANGED absVars
  BY <1>10, Stutters DEF FindKey, history
<1>11. ASSUME NEW t \in Thread, Consume(t) PROVE UNCHANGED absVars
  <2>1. req[t] \in Request /\ status[req[t]] = "approved"
    BY <1>11 DEF Consume, At, Handlers, Revealing
  <2>2. GrantedBy' = GrantedBy /\ Denied' = Denied
    BY <1>11, <2>1 DEF Consume, GiveKey, GrantedBy, Denied
  <2>3. QED
    BY <1>11, <2>2 DEF Consume, GiveKey, history
<1>12. ASSUME NEW t \in Thread, NotApproved(t) PROVE UNCHANGED absVars
  BY <1>12, Stutters DEF NotApproved, history
<1>13. ASSUME NEW t \in Thread, NoActiveKey(t) PROVE UNCHANGED absVars
  BY <1>13, Stutters DEF NoActiveKey, history
<1>14. ASSUME NEW t \in Thread, LogMiss(t) PROVE UNCHANGED absVars
  BY <1>14, Stutters DEF LogMiss, history
<1>15. ASSUME NEW t \in Thread, LogReveal(t) PROVE UNCHANGED absVars
  BY <1>15, Stutters DEF LogReveal, history
<1>16. ASSUME NEW t \in Thread, Respond(t) PROVE Abstract!Next \/ UNCHANGED absVars
  <2>1. UNCHANGED <<requester, GrantedBy, Denied>>
    BY <1>16 DEF Respond, columns, GrantedBy, Denied
  <2>2. CASE req[t] \notin Request
    <3>1. given' = given
      BY <1>16, <2>2 DEF Respond
    <3>2. QED
      BY <2>1, <3>1
  <2>3. CASE req[t] \in Request
    <3>1. status[req[t]] = "consumed" /\ given[req[t]] = 0
      BY <1>16, <2>3 DEF Respond, At, Holders, Holds
    <3>2. GrantedBy[req[t]] # None
      BY <2>3, <3>1 DEF GrantedBy, Table, Decided
    <3>3. given' = [given EXCEPT ![req[t]] = 1]
      <4>1. \A r \in Request : given[r] \in Nat /\ (r = req[t] => given[r] + 1 = 1)
        BY <3>1
      <4>2. given' = [r \in Request |-> IF r = req[t] THEN 1 ELSE given[r]]
        BY <1>16, <4>1 DEF Respond
      <4>3. QED
        BY <2>3, <4>2
    <3>4. Abstract!Release(req[t])
      BY <2>1, <3>1, <3>2, <3>3 DEF Abstract!Release
    <3>5. QED
      BY <2>3, <3>4 DEF Abstract!Next
  <2>4. QED
    BY <2>2, <2>3
<1>17. ASSUME NEW t \in Thread, Dies(t) PROVE UNCHANGED absVars
  BY <1>17, Stutters DEF Dies, history
<1>18. ASSUME NEW k \in Key, Escrow(k) PROVE UNCHANGED absVars
  BY <1>18, Stutters DEF Escrow, history
<1>19. CASE UNCHANGED vars
  BY <1>19, Stutters DEF vars, history
<1>20. ASSUME NEW r \in Request, NEW u \in User, Abstract!Ask(r, u) PROVE Abstract!Next
  BY <1>20 DEF Abstract!Next
<1> QED
  BY <1>1, <1>2, <1>3, <1>4, <1>5, <1>6, <1>7, <1>8, <1>9, <1>10, <1>11, <1>12,
     <1>13, <1>14, <1>15, <1>16, <1>17, <1>18, <1>19, <1>20 DEF Next, Start,
     Step

\* The handlers of either portal keep the promise of the two-person reveal.
THEOREM Refinement == Spec => ImplementsTwoPersonRelease
<1>1. IInv /\ [Next]_vars => [Abstract!Next]_<<requester, GrantedBy, Denied, given>>
  BY RefNext
<1>2. QED
  BY Invariance, RefInit, <1>1, PTL DEF Spec, ImplementsTwoPersonRelease, Abstract!Spec

-----------------------------------------------------------------------------
(* What TwoPersonRelease promises, carried over to the portal.             *)

LEMMA PromiseInit == Abstract!Init => Abstract!TypeOK /\ Abstract!TwoPeople
BY NoneAssumption DEF Abstract!Init, Abstract!TypeOK, Abstract!TwoPeople

LEMMA PromiseNext ==
  ASSUME Abstract!TypeOK, Abstract!TwoPeople,
         [Abstract!Next]_<<requester, GrantedBy, Denied, given>>
  PROVE  Abstract!TypeOK' /\ Abstract!TwoPeople' /\ Abstract!Final
<1> USE NoneAssumption DEF Abstract!TypeOK, Abstract!TwoPeople, Abstract!Final
<1>1. ASSUME NEW r \in Request, NEW u \in User, Abstract!Ask(r, u)
      PROVE  Abstract!TypeOK' /\ Abstract!TwoPeople' /\ Abstract!Final
  BY <1>1 DEF Abstract!Ask
<1>2. ASSUME NEW r \in Request, NEW u \in User, Abstract!Grant(r, u)
      PROVE  Abstract!TypeOK' /\ Abstract!TwoPeople' /\ Abstract!Final
  BY <1>2 DEF Abstract!Grant, Abstract!Undecided
<1>3. ASSUME NEW r \in Request, NEW u \in User, Abstract!Refuse(r, u)
      PROVE  Abstract!TypeOK' /\ Abstract!TwoPeople' /\ Abstract!Final
  BY <1>3 DEF Abstract!Refuse, Abstract!Undecided
<1>4. ASSUME NEW r \in Request, Abstract!Release(r)
      PROVE  Abstract!TypeOK' /\ Abstract!TwoPeople' /\ Abstract!Final
  BY <1>4 DEF Abstract!Release
<1>5. CASE UNCHANGED <<requester, GrantedBy, Denied, given>>
  BY <1>5
<1>6. QED
  BY <1>1, <1>2, <1>3, <1>4, <1>5 DEF Abstract!Next

\* Whoever reveals, decides, escrows or dies at the same time: a request that was
\* approved or used was made by one person and approved by another and never
\* denied, and only such a request yields a key.
THEOREM TwoPeopleStandBehind == Spec => []Abstract!TwoPeople
<1>1. Spec => Abstract!Spec
  BY Refinement DEF ImplementsTwoPersonRelease
<1>2. QED
  BY <1>1, PromiseInit, PromiseNext, PTL DEF Abstract!Spec

\* No step of a handler takes anything of a request back: not who asked, not the
\* decision, not that the key was given.
THEOREM DecisionsAreFinal ==
  Spec => [][Abstract!Final]_<<requester, GrantedBy, Denied, given>>
<1>1. Spec => Abstract!Spec
  BY Refinement DEF ImplementsTwoPersonRelease
<1>2. QED
  BY <1>1, PromiseInit, PromiseNext, PTL DEF Abstract!Spec
=============================================================================
