------------------------- MODULE AgentEscrow_proofs -------------------------
(* Theorems of AgentEscrow, for every set of processes, keys, commands and  *)
(* faults and every bound.                                                  *)
EXTENDS AgentEscrow, TLAPS

\* The updates a process makes to its copy of the state keep its type.
LEMMA StateUpdate ==
  ASSUME NEW s \in State
  PROVE  /\ Report(s) \in Reports
         /\ s.token \in Nat
         /\ [s EXCEPT !.escrowed = FALSE] \in State
         /\ \A t \in Nat : [s EXCEPT !.token = t] \in State
         /\ \A k \in Key \cup {None} :
              [s EXCEPT !.escrowed = TRUE, !.keyId = k] \in State
         /\ \A on \in BOOLEAN :
              [s EXCEPT !.mode = on, !.device = TRUE] \in State
  BY DEF State, Report, Reports

LEMMA BlankClaim == ~Blank.escrowed /\ ~Report(Blank).escrowed
  BY DEF Blank, Report

LEMMA BlankType == Blank \in State /\ Report(Blank) \in Reports
  BY DEF Blank, State, Report, Reports

\* The updates the portal makes to a request keep its type.
LEMMA StageFields ==
  ASSUME NEW r \in Request, NEW s \in {"authed", "stored", "ok", "refused"}
  PROVE  LET q == [r EXCEPT !.stage = s]
         IN  q.owner = r.owner /\ q.kind = r.kind /\ q.key = r.key /\ q.stage = s
  BY DEF Request

LEMMA TokenFields ==
  ASSUME NEW r \in Request, NEW t \in Nat
  PROVE  LET q == [r EXCEPT !.stage = "ok", !.token = t]
         IN  q.owner = r.owner /\ q.kind = r.kind /\ q.key = r.key /\ q.stage = "ok"
  BY DEF Request

\* What is left of the requests of a process that no longer waits.
LEMMA AbandonNet ==
  ASSUME net \subseteq Request, NEW p \in Proc, Abandon(p)
  PROVE  \A q \in net' :
           \/ q \in net /\ q.owner # p
           \/ /\ q.owner = None
              /\ \E m \in net : q.kind = m.kind /\ q.key = m.key /\ q.stage = m.stage
<1>1. \A m \in Request : LET q == [m EXCEPT !.owner = None]
         IN q.owner = None /\ q.kind = m.kind /\ q.key = m.key /\ q.stage = m.stage
  BY DEF Request
<1> SUFFICES ASSUME NEW q \in net', ~(q \in net /\ q.owner # p)
             PROVE  /\ q.owner = None
                    /\ \E m \in net : q.kind = m.kind /\ q.key = m.key
                                      /\ q.stage = m.stage
  OBVIOUS
<1>2. PICK m \in net : q = [m EXCEPT !.owner = None]
  BY DEF Abandon
<1>3. m \in Request
  OBVIOUS
<1>4. QED
  BY <1>1, <1>2, <1>3

\* A portal step takes its request away or puts one in its place that is for
\* the same process and key, and whose stage is backed by the store.
Replaces(q, r) ==
  /\ net' \subseteq (net \ {r}) \cup {q}
  /\ q.owner = r.owner /\ q.kind = r.kind /\ q.key = r.key
  /\ q.kind = "keys" /\ q.stage = "stored" => q.key \in stored'
  /\ q.kind = "keys" /\ q.stage = "ok" => q.key \in audited'

LEMMA PortalNet ==
  ASSUME TypeOK, NEW r \in net,
         ServeEnroll(r) \/ AuthKeys(r) \/ StoreKey(r) \/ AnswerKeys(r)
           \/ ServeCheckin(r) \/ Lose(r)
  PROVE  \E q : Replaces(q, r)
<1>1. r \in Request /\ token + 1 \in Nat
  BY DEF TypeOK
<1> DEFINE q(s) == [r EXCEPT !.stage = s]
<1>2. \A s \in {"authed", "stored", "ok", "refused"} :
        /\ q(s).owner = r.owner /\ q(s).kind = r.kind
        /\ q(s).key = r.key /\ q(s).stage = s
  BY <1>1, StageFields
<1>3. CASE ServeEnroll(r)
  <2> DEFINE t == [r EXCEPT !.stage = "ok", !.token = token + 1]
  <2>1. t.owner = r.owner /\ t.kind = r.kind /\ t.key = r.key
    BY <1>1, TokenFields
  <2>2. net' \subseteq (net \ {r}) \cup {t} /\ r.kind = "enroll"
    BY <1>3 DEF ServeEnroll, Reply
  <2> HIDE DEF t
  <2>3. QED
    BY <2>1, <2>2 DEF Replaces
<1>4. ASSUME AuthKeys(r) \/ ServeCheckin(r) \/ Lose(r)
      PROVE  \/ net' \subseteq net \ {r}
             \/ net' \subseteq (net \ {r}) \cup {q("authed")}
             \/ net' \subseteq (net \ {r}) \cup {q("refused")}
             \/ net' \subseteq (net \ {r}) \cup {q("ok")} /\ r.kind = "checkin"
  BY <1>4 DEF AuthKeys, ServeCheckin, Lose, Advance, Refuse, Reply
<1>5. ASSUME StoreKey(r)
      PROVE  net' \subseteq (net \ {r}) \cup {q("stored")} /\ r.key \in stored'
  BY <1>5 DEF StoreKey, Advance, Escrow
<1>6. ASSUME AnswerKeys(r)
      PROVE  net' \subseteq (net \ {r}) \cup {q("ok")} /\ r.key \in audited'
  BY <1>6 DEF AnswerKeys, Reply, AuditEscrow
<1> HIDE DEF q
<1>7. CASE AuthKeys(r) \/ ServeCheckin(r) \/ Lose(r)
  BY <1>2, <1>4, <1>7 DEF Replaces
<1>8. CASE StoreKey(r)
  BY <1>2, <1>5, <1>8 DEF Replaces
<1>9. CASE AnswerKeys(r)
  BY <1>2, <1>6, <1>9 DEF Replaces
<1>10. QED
  BY <1>3, <1>7, <1>8, <1>9

LEMMA RequestUpdate ==
  ASSUME NEW r \in Request
  PROVE  /\ [r EXCEPT !.owner = None] \in Request
         /\ \A s \in {"authed", "stored", "ok", "refused"} :
              [r EXCEPT !.stage = s] \in Request
         /\ \A t \in Nat : [r EXCEPT !.stage = "ok", !.token = t] \in Request
         /\ r.token \in Nat
         /\ r.key \in Key \cup {None}
  BY DEF Request

\* The keys on their way to escrow have been generated: the one a process
\* is about to send, the one a rotation made, and those in the requests.
HeldKeys ==
  /\ \A p \in Proc :
       pc[p] = "send" \/ (cmd[p] = "rotate" /\ pc[p] # "swap")
         => key[p] \in minted
  /\ \A r \in net : r.kind = "keys" => r.key \in minted

LEMMA TypeInit == Init => TypeOK /\ HeldKeys
<1> SUFFICES ASSUME Init PROVE TypeOK /\ HeldKeys
  OBVIOUS
<1>1. TypeOK
  BY BlankType DEF Init, StoreInit, TypeOK, PCs
<1>2. HeldKeys
  BY DEF Init, HeldKeys
<1>3. QED
  BY <1>1, <1>2

LEMMA TypeNext == TypeOK /\ HeldKeys /\ [Next]_vars => TypeOK'
<1> SUFFICES ASSUME TypeOK, HeldKeys, [Next]_vars PROVE TypeOK'
  OBVIOUS
<1> USE DEF TypeOK, PCs, AgentCommands
<1> USE DEF storeVars, diskVars, fileVars, procVars
<1>1. ASSUME NEW p \in Proc, Start(p) PROVE TypeOK'
  BY <1>1 DEF Start, StartEnroll, StartRotate, StartVerify, Begin, Goto, SetMem
<1>2. ASSUME NEW p \in Proc, Step(p) PROVE TypeOK'
  <2>1. CASE Register(p) \/ SendKey(p) \/ Checkin(p)
    <3> DEFINE q(kind, k) == [owner |-> p, kind |-> kind, stage |-> "sent",
                              token |-> mem[p].token, key |-> k]
    <3>1. \A kind \in {"enroll", "keys", "checkin"}, k \in Key \cup {None} :
            q(kind, k) \in Request
      <4>1. mem[p].token \in Nat
        BY StateUpdate
      <4>2. QED
        BY <4>1 DEF Request
    <3>2. PICK kind \in {"enroll", "keys", "checkin"}, k \in Key \cup {None} :
            Call(p, kind, k)
      BY <2>1 DEF Register, SendKey, Checkin
    <3>3. QED
      BY <3>1, <3>2 DEF Call, Goto
  <2>2. ASSUME NEW k \in Key, Mint(p, k) PROVE TypeOK'
    BY <2>2 DEF Mint, Goto
  <2>3. ASSUME NEW k \in Key, Swap(p, k) PROVE TypeOK'
    BY <2>3, StateUpdate DEF Swap, Goto, SetMem
  <2>4. ASSUME NEW k \in Key, Unparsed(p, k) PROVE TypeOK'
    BY <2>4, BlankType DEF Unparsed, Exit, Goto, SetMem
  <2>5. CASE ToolFails(p)
    BY <2>5, BlankType DEF ToolFails, Exit, Goto, SetMem
  <2>6. ASSUME NEW on \in BOOLEAN, Bind(p, on) PROVE TypeOK'
    BY <2>6, StateUpdate DEF Bind, Goto, SetMem
  <2>7. CASE ProbeOk(p) \/ Unbind(p) \/ Rebind(p)
    BY <2>7 DEF ProbeOk, Unbind, Rebind, Goto
  <2>8. CASE Truncate(p) \/ Write(p)
    <3>1. CASE Truncate(p)
      BY <3>1, BlankType DEF Truncate, Goto
    <3>2. CASE Write(p)
      <4>1. stateFile' \in State
        BY <3>2, BlankType DEF Write
      <4>2. pc' \in [Proc -> PCs]
        BY <3>2 DEF Write, AfterSave, Goto
      <4>3. QED
        BY <3>2, <4>1, <4>2 DEF Write
    <3>3. QED
      BY <2>8, <3>1, <3>2
  <2>9. CASE WriteReport(p)
    <3>1. Report(mem[p]) \in Reports
      BY StateUpdate
    <3>2. CASE Exit(p)
      BY <2>9, <3>1, <3>2, BlankType DEF WriteReport, Exit, Goto, SetMem
    <3>3. CASE ~Exit(p)
      BY <2>9, <3>1, <3>3 DEF WriteReport, Goto
    <3>4. QED
      BY <3>2, <3>3
  <2>10. ASSUME NEW r \in net, GotToken(p, r) PROVE TypeOK'
    BY <2>10, StateUpdate, RequestUpdate DEF GotToken, Answered, Goto, SetMem
  <2>11. ASSUME NEW r \in net, GotKeyId(p, r) PROVE TypeOK'
    BY <2>11, StateUpdate, RequestUpdate DEF GotKeyId, Answered, Goto, SetMem
  <2>12. ASSUME NEW r \in net, GotCheckin(p, r) PROVE TypeOK'
    BY <2>12, BlankType DEF GotCheckin, Answered, Exit, Goto, SetMem
  <2>13. CASE CallFails(p)
    BY <2>13, BlankType, RequestUpdate DEF CallFails, Abandon, Orphans, Exit, Goto, SetMem
  <2>14. QED
    BY <1>2, <2>1, <2>2, <2>3, <2>4, <2>5, <2>6, <2>7, <2>8, <2>9, <2>10,
       <2>11, <2>12, <2>13 DEF Step
<1>3. ASSUME NEW p \in Proc, Crash(p) PROVE TypeOK'
  BY <1>3, BlankType, RequestUpdate DEF Crash, Abandon, Orphans, Exit, Goto, SetMem
<1>4. CASE PortalStep
  <2> SUFFICES ASSUME NEW r \in net,
                      ServeEnroll(r) \/ AuthKeys(r) \/ StoreKey(r)
                        \/ AnswerKeys(r) \/ ServeCheckin(r) \/ Lose(r),
                      UNCHANGED <<diskVars, fileVars, procVars>>
               PROVE  TypeOK'
    BY <1>4 DEF PortalStep
  <2>1. CASE ServeEnroll(r)
    <3>1. [r EXCEPT !.stage = "ok", !.token = token + 1] \in Request
      <4>1. token + 1 \in Nat /\ r \in Request
        OBVIOUS
      <4>2. QED
        BY <4>1, RequestUpdate
    <3>2. QED
      BY <2>1, <3>1 DEF ServeEnroll, EnrollDevice, Reply
  <2>2. CASE AuthKeys(r) \/ ServeCheckin(r) \/ Lose(r)
    BY <2>2, RequestUpdate DEF AuthKeys, ServeCheckin, Lose, Advance, Refuse, Reply
  <2>3. CASE StoreKey(r)
    BY <2>3, RequestUpdate DEF StoreKey, Escrow, Advance, HeldKeys
  <2>4. CASE AnswerKeys(r)
    <3>1. r.key \in Key /\ [r EXCEPT !.stage = "ok"] \in Request
      BY <2>4, RequestUpdate DEF AnswerKeys, HeldKeys
    <3>2. QED
      BY <2>4, <3>1 DEF AnswerKeys, AuditEscrow, Reply
  <2>5. QED
    BY <2>1, <2>2, <2>3, <2>4
<1>5. CASE AdminRotate
  BY <1>5 DEF AdminRotate, RequestRotate
<1>6. CASE UNCHANGED vars
  BY <1>6 DEF vars
<1>7. QED
  BY <1>1, <1>2, <1>3, <1>4, <1>5, <1>6 DEF Next

-----------------------------------------------------------------------------
(* The invariant behind the escrow-first gate.                             *)

LEMMA HeldKeysNext == TypeOK /\ HeldKeys /\ [Next]_vars => HeldKeys'
<1> SUFFICES ASSUME TypeOK, HeldKeys, [Next]_vars PROVE HeldKeys'
  OBVIOUS
<1> USE DEF TypeOK, HeldKeys
<1> USE DEF storeVars, diskVars, fileVars, procVars
<1>1. ASSUME NEW p \in Proc, Start(p) PROVE HeldKeys'
  BY <1>1 DEF Start, StartEnroll, StartRotate, StartVerify, Begin, Goto
<1>2. ASSUME NEW p \in Proc, Step(p) PROVE HeldKeys'
  <2>1. CASE Register(p) \/ SendKey(p) \/ Checkin(p)
    BY <2>1 DEF Register, SendKey, Checkin, Call, Goto
  <2>2. ASSUME NEW k \in Key, Mint(p, k) \/ Swap(p, k) PROVE HeldKeys'
    BY <2>2 DEF Mint, Swap, Goto
  <2>3. ASSUME NEW k \in Key, Unparsed(p, k) PROVE HeldKeys'
    BY <2>3 DEF Unparsed, Exit, Goto
  <2>4. CASE ToolFails(p)
    BY <2>4 DEF ToolFails, Exit, Goto
  <2>5. CASE \E on \in BOOLEAN : Bind(p, on)
    BY <2>5 DEF Bind, Goto
  <2>6. CASE ProbeOk(p) \/ Unbind(p) \/ Rebind(p) \/ Truncate(p) \/ Write(p)
    BY <2>6 DEF ProbeOk, Unbind, Rebind, Truncate, Write, AfterSave, Goto
  <2>7. CASE WriteReport(p)
    BY <2>7 DEF WriteReport, Exit, Goto
  <2>8. ASSUME NEW r \in net, GotToken(p, r) \/ GotKeyId(p, r) PROVE HeldKeys'
    BY <2>8 DEF GotToken, GotKeyId, Answered, Goto
  <2>9. ASSUME NEW r \in net, GotCheckin(p, r) PROVE HeldKeys'
    BY <2>9 DEF GotCheckin, Answered, Exit, Goto
  <2>10. CASE CallFails(p)
    BY <2>10, AbandonNet DEF CallFails, Exit, Goto
  <2>11. QED
    BY <1>2, <2>1, <2>2, <2>3, <2>4, <2>5, <2>6, <2>7, <2>8, <2>9, <2>10
    DEF Step
<1>3. ASSUME NEW p \in Proc, Crash(p) PROVE HeldKeys'
  BY <1>3, AbandonNet DEF Crash, Exit, Goto
<1>4. CASE PortalStep
  <2> SUFFICES ASSUME NEW r \in net,
                      ServeEnroll(r) \/ AuthKeys(r) \/ StoreKey(r)
                        \/ AnswerKeys(r) \/ ServeCheckin(r) \/ Lose(r),
                      UNCHANGED <<diskVars, fileVars, procVars>>
               PROVE  HeldKeys'
    BY <1>4 DEF PortalStep
  <2>1. PICK q : Replaces(q, r)
    BY PortalNet
  <2>2. QED
    BY <2>1 DEF Replaces
<1>5. CASE AdminRotate
  BY <1>5 DEF AdminRotate
<1>6. CASE UNCHANGED vars
  BY <1>6 DEF vars
<1>7. QED
  BY <1>1, <1>2, <1>3, <1>4, <1>5, <1>6 DEF Next

\* Every key the portal holds was generated on this machine, is audited only
\* once it is stored, and the newest of them is the active one.
Ledger ==
  /\ audited \subseteq stored
  /\ stored \subseteq minted
  /\ recov \subseteq minted
  /\ stored # {} => active \in stored

\* The stage of a request says how far the portal is with its key.
Posted ==
  \A r \in net :
    /\ r.kind = "keys" /\ r.stage = "stored" => r.key \in stored
    /\ r.kind = "keys" /\ r.stage = "ok" => r.key \in audited

\* A process waits for one request at a time, and waits with the key it sent.
Awaited ==
  \A r \in net :
    r.owner # None =>
      /\ pc[r.owner] = "wait"
      /\ r.kind = "keys" => r.key = key[r.owner]
      /\ \A q \in net : q.owner = r.owner => q = r

\* verify takes a binding away only to bind again, past the same gate.
RebindGate == \A p \in Proc : pc[p] = "rebind" => audited # {}


LEMMA LedgerNext ==
  TypeOK /\ HeldKeys /\ Posted /\ Ledger /\ [Next]_vars => Ledger'
<1> SUFFICES ASSUME TypeOK, HeldKeys, Posted, Ledger, [Next]_vars PROVE Ledger'
  OBVIOUS
<1> USE DEF Ledger, storeVars, diskVars, fileVars, procVars
<1>1. ASSUME NEW p \in Proc, Start(p) PROVE Ledger'
  BY <1>1 DEF Start, StartEnroll, StartRotate, StartVerify, Begin
<1>2. ASSUME NEW p \in Proc, Step(p) PROVE Ledger'
  <2>1. CASE \E k \in Key : Mint(p, k) \/ Swap(p, k) \/ Unparsed(p, k)
    BY <2>1 DEF Mint, Swap, Unparsed
  <2>2. CASE Register(p) \/ SendKey(p) \/ Checkin(p) \/ ToolFails(p)
               \/ (\E on \in BOOLEAN : Bind(p, on)) \/ ProbeOk(p)
               \/ Unbind(p) \/ Rebind(p)
    BY <2>2 DEF Register, SendKey, Checkin, Call, ToolFails, Bind, ProbeOk,
                Unbind, Rebind
  <2>3. CASE Truncate(p) \/ Write(p) \/ WriteReport(p) \/ CallFails(p)
               \/ \E r \in net : GotToken(p, r) \/ GotKeyId(p, r) \/ GotCheckin(p, r)
    BY <2>3 DEF Truncate, Write, WriteReport, CallFails, GotToken, GotKeyId,
                GotCheckin
  <2>4. QED
    BY <1>2, <2>1, <2>2, <2>3 DEF Step
<1>3. ASSUME NEW p \in Proc, Crash(p) PROVE Ledger'
  BY <1>3 DEF Crash
<1>4. CASE PortalStep
  <2> SUFFICES ASSUME NEW r \in net,
                      ServeEnroll(r) \/ AuthKeys(r) \/ StoreKey(r)
                        \/ AnswerKeys(r) \/ ServeCheckin(r) \/ Lose(r),
                      UNCHANGED <<diskVars, fileVars, procVars>>
               PROVE  Ledger'
    BY <1>4 DEF PortalStep
  <2>1. CASE ServeEnroll(r) \/ AuthKeys(r) \/ ServeCheckin(r) \/ Lose(r)
    BY <2>1 DEF ServeEnroll, EnrollDevice, AuthKeys, ServeCheckin, Lose
  <2>2. CASE StoreKey(r)
    BY <2>2 DEF StoreKey, Escrow, HeldKeys
  <2>3. CASE AnswerKeys(r)
    BY <2>3 DEF AnswerKeys, AuditEscrow, Posted
  <2>4. QED
    BY <2>1, <2>2, <2>3
<1>5. CASE AdminRotate
  BY <1>5 DEF AdminRotate, RequestRotate
<1>6. CASE UNCHANGED vars
  BY <1>6 DEF vars
<1>7. QED
  BY <1>1, <1>2, <1>3, <1>4, <1>5, <1>6 DEF Next

\* Nothing the portal has stored or audited is ever taken away again, and
\* only the portal adds to it.
LEMMA StoreGrows ==
  [Next]_vars => /\ stored \subseteq stored'
                 /\ audited \subseteq audited'
                 /\ minted \subseteq minted'
<1> SUFFICES ASSUME [Next]_vars
             PROVE  /\ stored \subseteq stored'
                    /\ audited \subseteq audited'
                    /\ minted \subseteq minted'
  OBVIOUS
<1> USE DEF storeVars, diskVars, fileVars, procVars
<1>1. CASE \E p \in Proc : Start(p) \/ Crash(p)
  BY <1>1 DEF Start, StartEnroll, StartRotate, StartVerify, Begin, Crash
<1>2. CASE \E p \in Proc : Step(p)
  BY <1>2
  DEF Step, Register, SendKey, Checkin, Call, Mint, Swap, Unparsed, ToolFails,
      Bind, ProbeOk, Unbind, Rebind, Truncate, Write, WriteReport, GotToken,
      GotKeyId, GotCheckin, CallFails
<1>3. CASE PortalStep
  BY <1>3
  DEF PortalStep, ServeEnroll, EnrollDevice, AuthKeys, StoreKey, Escrow,
      AnswerKeys, AuditEscrow, ServeCheckin, Lose
<1>4. CASE AdminRotate \/ UNCHANGED vars
  BY <1>4 DEF AdminRotate, RequestRotate, vars
<1>5. QED
  BY <1>1, <1>2, <1>3, <1>4 DEF Next

LEMMA PostedNext ==
  TypeOK /\ Posted /\ [Next]_vars => Posted'
<1> SUFFICES ASSUME TypeOK, Posted, [Next]_vars
             PROVE  Posted'
  OBVIOUS
<1> USE DEF Posted, storeVars, diskVars, fileVars, procVars
<1>0. stored \subseteq stored' /\ audited \subseteq audited'
  BY StoreGrows
<1>1. ASSUME NEW p \in Proc, Start(p) PROVE Posted'
  BY <1>0, <1>1 DEF Start, StartEnroll, StartRotate, StartVerify, Begin
<1>2. ASSUME NEW p \in Proc, Step(p) PROVE Posted'
  <2>1. CASE Register(p) \/ SendKey(p) \/ Checkin(p)
    BY <2>1, <1>0 DEF Register, SendKey, Checkin, Call, TypeOK
  <2>2. ASSUME NEW k \in Key, Mint(p, k) \/ Swap(p, k) PROVE Posted'
    BY <2>2, <1>0 DEF Mint, Swap, TypeOK
  <2>3. ASSUME NEW k \in Key, Unparsed(p, k) PROVE Posted'
    BY <2>3, <1>0 DEF Unparsed, TypeOK
  <2>4. CASE ToolFails(p)
    BY <2>4, <1>0 DEF ToolFails, TypeOK
  <2>5. ASSUME NEW on \in BOOLEAN, Bind(p, on) PROVE Posted'
    BY <2>5, <1>0 DEF Bind, TypeOK
  <2>6. CASE ProbeOk(p) \/ Unbind(p) \/ Rebind(p) \/ Truncate(p) \/ Write(p)
    BY <2>6, <1>0 DEF ProbeOk, Unbind, Rebind, Truncate, Write, TypeOK
  <2>7. CASE WriteReport(p)
    BY <2>7, <1>0 DEF WriteReport, TypeOK
  <2>8. ASSUME NEW r \in net, GotToken(p, r) \/ GotKeyId(p, r) PROVE Posted'
    BY <2>8, <1>0 DEF GotToken, GotKeyId, Answered, TypeOK
  <2>9. ASSUME NEW r \in net, GotCheckin(p, r) PROVE Posted'
    BY <2>9, <1>0 DEF GotCheckin, Answered, TypeOK
  <2>10. CASE CallFails(p)
    BY <2>10, <1>0, AbandonNet DEF CallFails, TypeOK
  <2>11. QED
    BY <1>2, <2>1, <2>2, <2>3, <2>4, <2>5, <2>6, <2>7, <2>8, <2>9, <2>10 DEF Step
<1>3. ASSUME NEW p \in Proc, Crash(p) PROVE Posted'
  BY <1>3, <1>0, AbandonNet DEF Crash, TypeOK
<1>4. CASE PortalStep
  <2> SUFFICES ASSUME NEW r \in net,
                      ServeEnroll(r) \/ AuthKeys(r) \/ StoreKey(r)
                        \/ AnswerKeys(r) \/ ServeCheckin(r) \/ Lose(r),
                      UNCHANGED <<diskVars, fileVars, procVars>>
               PROVE  Posted'
    BY <1>4 DEF PortalStep
  <2>1. PICK q : Replaces(q, r)
    BY PortalNet
  <2>2. QED
    BY <1>0, <2>1 DEF Replaces
<1>5. CASE AdminRotate
  BY <1>5 DEF AdminRotate, RequestRotate
<1>6. CASE UNCHANGED vars
  BY <1>6 DEF vars
<1>7. QED
  BY <1>1, <1>2, <1>3, <1>4, <1>5, <1>6 DEF Next

LEMMA AwaitedNext ==
  TypeOK /\ Awaited /\ [Next]_vars => Awaited'
<1> SUFFICES ASSUME TypeOK, Awaited, [Next]_vars
             PROVE  Awaited'
  OBVIOUS
<1> USE DEF Awaited, storeVars, diskVars, fileVars, procVars
<1>0. \A r \in net : r.owner # None => r.owner \in Proc
  BY DEF TypeOK, Request
<1>1. ASSUME NEW p \in Proc, Start(p) PROVE Awaited'
  BY <1>0, <1>1 DEF Start, StartEnroll, StartRotate, StartVerify, Begin, Goto, SetMem, TypeOK
<1>2. ASSUME NEW p \in Proc, Step(p) PROVE Awaited'
  <2>1. CASE Register(p) \/ SendKey(p) \/ Checkin(p)
    BY <1>0, <2>1 DEF Register, SendKey, Checkin, Call, Goto, TypeOK
  <2>2. ASSUME NEW k \in Key, Mint(p, k) \/ Swap(p, k) PROVE Awaited'
    BY <1>0, <2>2 DEF Mint, Swap, Goto, SetMem, TypeOK
  <2>3. ASSUME NEW k \in Key, Unparsed(p, k) PROVE Awaited'
    BY <2>3 DEF Unparsed, Exit, Goto, SetMem, TypeOK
  <2>4. CASE ToolFails(p)
    BY <2>4 DEF ToolFails, Exit, Goto, SetMem, TypeOK
  <2>5. ASSUME NEW on \in BOOLEAN, Bind(p, on) PROVE Awaited'
    BY <2>5 DEF Bind, Goto, SetMem, TypeOK
  <2>6. CASE ProbeOk(p) \/ Unbind(p) \/ Rebind(p) \/ Truncate(p) \/ Write(p)
    BY <1>0, <2>6 DEF ProbeOk, Unbind, Rebind, Truncate, Write, AfterSave, Goto, TypeOK
  <2>7. CASE WriteReport(p)
    BY <1>0, <2>7 DEF WriteReport, Exit, Goto, SetMem, TypeOK
  <2>8. ASSUME NEW r \in net, GotToken(p, r) \/ GotKeyId(p, r) PROVE Awaited'
    BY <1>0, <2>8 DEF GotToken, GotKeyId, Answered, Goto, SetMem, TypeOK
  <2>9. ASSUME NEW r \in net, GotCheckin(p, r) PROVE Awaited'
    BY <2>9 DEF GotCheckin, Answered, Exit, Goto, SetMem, TypeOK
  <2>10. CASE CallFails(p)
    BY <2>10, AbandonNet DEF CallFails, Exit, Goto, SetMem, TypeOK
  <2>11. QED
    BY <1>2, <2>1, <2>2, <2>3, <2>4, <2>5, <2>6, <2>7, <2>8, <2>9, <2>10 DEF Step
<1>3. ASSUME NEW p \in Proc, Crash(p) PROVE Awaited'
  BY <1>3, AbandonNet DEF Crash, Exit, Goto, TypeOK
<1>4. CASE PortalStep
  <2> SUFFICES ASSUME NEW r \in net,
                      ServeEnroll(r) \/ AuthKeys(r) \/ StoreKey(r)
                        \/ AnswerKeys(r) \/ ServeCheckin(r) \/ Lose(r),
                      UNCHANGED <<diskVars, fileVars, procVars>>
               PROVE  Awaited'
    BY <1>4 DEF PortalStep
  <2>1. PICK q : Replaces(q, r)
    BY PortalNet
  <2>2. QED
    BY <1>0, <2>1 DEF Replaces
<1>5. CASE AdminRotate
  BY <1>5 DEF AdminRotate, RequestRotate
<1>6. CASE UNCHANGED vars
  BY <1>6 DEF vars
<1>7. QED
  BY <1>1, <1>2, <1>3, <1>4, <1>5, <1>6 DEF Next

\* Case by case, a process comes to its bind step only with its own answer,
\* and only binds or rebinds where a key is in escrow.
LEMMA GateNext ==
  TypeOK /\ Ledger /\ Posted /\ Awaited /\ EscrowFirstGate /\ RebindGate
    /\ [Next]_vars => EscrowFirstGate' /\ RebindGate'
<1> SUFFICES ASSUME TypeOK, Ledger, Posted, Awaited, EscrowFirstGate,
                    RebindGate, [Next]_vars
             PROVE  EscrowFirstGate' /\ RebindGate'
  OBVIOUS
<1> DEFINE Goal == EscrowFirstGate' /\ RebindGate'
<1> USE DEF EscrowFirstGate, RebindGate, storeVars, diskVars, fileVars, procVars
<1>0. stored \subseteq stored' /\ audited \subseteq audited'
  BY StoreGrows
<1>1. ASSUME NEW p \in Proc, Start(p) PROVE Goal
  BY <1>0, <1>1
  DEF Start, StartEnroll, StartRotate, StartVerify, Begin, Goto, TypeOK
<1>2. ASSUME NEW p \in Proc, Step(p) PROVE Goal
  <2>1. CASE Register(p) \/ SendKey(p) \/ Checkin(p)
    BY <1>0, <2>1 DEF Register, SendKey, Checkin, Call, Goto, TypeOK
  <2>2. ASSUME NEW k \in Key, Mint(p, k) \/ Swap(p, k) PROVE Goal
    BY <1>0, <2>2 DEF Mint, Swap, Goto, TypeOK
  <2>3. ASSUME NEW k \in Key, Unparsed(p, k) PROVE Goal
    BY <1>0, <2>3 DEF Unparsed, Exit, Goto, TypeOK
  <2>4. CASE ToolFails(p)
    BY <1>0, <2>4 DEF ToolFails, Exit, Goto, TypeOK
  <2>5. ASSUME NEW on \in BOOLEAN, Bind(p, on) PROVE Goal
    BY <1>0, <2>5 DEF Bind, Goto, TypeOK
  <2>6. CASE Unbind(p) \/ Rebind(p)
    BY <1>0, <2>6 DEF Unbind, Rebind, Goto, TypeOK, Ledger
  <2>7. CASE ProbeOk(p) \/ Truncate(p) \/ Write(p)
    BY <1>0, <2>7 DEF ProbeOk, Truncate, Write, AfterSave, Goto, TypeOK
  <2>8. CASE WriteReport(p)
    BY <1>0, <2>8 DEF WriteReport, Exit, Goto, TypeOK
  <2>9. ASSUME NEW r \in net, GotToken(p, r) PROVE Goal
    BY <1>0, <2>9 DEF GotToken, Answered, Goto, TypeOK
  <2>10. ASSUME NEW r \in net, GotKeyId(p, r) PROVE Goal
    <3>1. r.key = key[p] /\ r.key \in stored \cap audited
      BY <2>10, NoneAssumption DEF GotKeyId, Answered, Awaited, Posted, Ledger
    <3>2. QED
      BY <1>0, <2>10, <3>1 DEF GotKeyId, Answered, Goto, TypeOK
  <2>11. ASSUME NEW r \in net, GotCheckin(p, r) PROVE Goal
    BY <1>0, <2>11 DEF GotCheckin, Answered, Exit, Goto, TypeOK
  <2>12. CASE CallFails(p)
    BY <1>0, <2>12 DEF CallFails, Exit, Goto, TypeOK
  <2>13. QED
    BY <1>2, <2>1, <2>2, <2>3, <2>4, <2>5, <2>6, <2>7, <2>8, <2>9, <2>10,
       <2>11, <2>12 DEF Step
<1>3. ASSUME NEW p \in Proc, Crash(p) PROVE Goal
  BY <1>0, <1>3 DEF Crash, Exit, Goto, TypeOK
<1>4. CASE PortalStep
  BY <1>0, <1>4 DEF PortalStep
<1>5. CASE AdminRotate
  BY <1>0, <1>5 DEF AdminRotate
<1>6. CASE UNCHANGED vars
  BY <1>6 DEF vars
<1>7. QED
  BY <1>1, <1>2, <1>3, <1>4, <1>5, <1>6 DEF Next

\* What is written to either file is a copy of a state whose claim is true,
\* or nothing; a state comes to claim an escrow from the portal's answer only.
LEMMA ClaimsNext ==
  TypeOK /\ Ledger /\ Posted /\ EscrowedClaimIsTrue /\ [Next]_vars
    => EscrowedClaimIsTrue'
<1> SUFFICES ASSUME TypeOK, Ledger, Posted, EscrowedClaimIsTrue, [Next]_vars
             PROVE  EscrowedClaimIsTrue'
  OBVIOUS
<1> USE DEF EscrowedClaimIsTrue, Claim, storeVars, diskVars, fileVars, procVars
<1>0. stored \subseteq stored' /\ audited \subseteq audited'
  BY StoreGrows
<1>1. ASSUME NEW p \in Proc, Start(p) PROVE EscrowedClaimIsTrue'
  BY <1>0, <1>1
  DEF Start, StartEnroll, StartRotate, StartVerify, Begin, SetMem, TypeOK
<1>2. ASSUME NEW p \in Proc, Step(p) PROVE EscrowedClaimIsTrue'
  <2>0. mem[p] \in State
    BY DEF TypeOK
  <2>1. CASE Register(p) \/ SendKey(p) \/ Checkin(p)
    BY <1>0, <2>1 DEF Register, SendKey, Checkin, Call
  <2>2. ASSUME NEW k \in Key, Mint(p, k) PROVE EscrowedClaimIsTrue'
    BY <1>0, <2>2 DEF Mint
  <2>3. ASSUME NEW k \in Key, Swap(p, k) PROVE EscrowedClaimIsTrue'
    <3>1. ~[mem[p] EXCEPT !.escrowed = FALSE].escrowed
      BY <2>0 DEF State
    <3>2. QED
      BY <1>0, <2>3, <3>1 DEF Swap, SetMem, TypeOK
  <2>4. ASSUME NEW k \in Key, Unparsed(p, k) PROVE EscrowedClaimIsTrue'
    BY <1>0, <2>4, BlankClaim DEF Unparsed, Exit, SetMem, TypeOK
  <2>5. CASE ToolFails(p)
    BY <1>0, <2>5, BlankClaim DEF ToolFails, Exit, SetMem, TypeOK
  <2>6. ASSUME NEW on \in BOOLEAN, Bind(p, on) PROVE EscrowedClaimIsTrue'
    <3> DEFINE s == [mem[p] EXCEPT !.mode = on, !.device = TRUE]
    <3>1. s.escrowed = mem[p].escrowed /\ s.keyId = mem[p].keyId
      BY <2>0 DEF State
    <3>2. mem' = [mem EXCEPT ![p] = s]
      BY <2>6 DEF Bind, SetMem
    <3> HIDE DEF s
    <3>3. QED
      BY <1>0, <2>6, <3>1, <3>2 DEF Bind, TypeOK
  <2>7. CASE ProbeOk(p) \/ Unbind(p) \/ Rebind(p)
    BY <1>0, <2>7 DEF ProbeOk, Unbind, Rebind
  <2>8. CASE Truncate(p) \/ Write(p)
    BY <1>0, <2>8, BlankClaim DEF Truncate, Write
  <2>9. CASE WriteReport(p)
    <3>1. Report(mem[p]).escrowed = mem[p].escrowed
            /\ Report(mem[p]).keyId = mem[p].keyId
      BY DEF Report
    <3>2. \A q \in Proc : Claim(mem'[q])
      BY <1>0, <2>9, BlankClaim DEF WriteReport, Exit, SetMem, TypeOK
    <3>3. QED
      BY <1>0, <2>9, <3>1, <3>2 DEF WriteReport
  <2>10. ASSUME NEW r \in net, GotToken(p, r) PROVE EscrowedClaimIsTrue'
    <3> DEFINE s == [mem[p] EXCEPT !.token = r.token]
    <3>1. s.escrowed = mem[p].escrowed /\ s.keyId = mem[p].keyId
      BY <2>0 DEF State
    <3>2. mem' = [mem EXCEPT ![p] = s]
      BY <2>10 DEF GotToken, SetMem
    <3> HIDE DEF s
    <3>3. QED
      BY <1>0, <2>10, <3>1, <3>2 DEF GotToken, TypeOK
  <2>11. ASSUME NEW r \in net, GotKeyId(p, r) PROVE EscrowedClaimIsTrue'
    <3> DEFINE s == [mem[p] EXCEPT !.escrowed = TRUE, !.keyId = r.key]
    <3>1. s.keyId = r.key
      BY <2>0 DEF State
    <3>2. r.key \in stored \cap audited
      BY <2>11 DEF GotKeyId, Answered, Posted, Ledger
    <3>3. mem' = [mem EXCEPT ![p] = s]
      BY <2>11 DEF GotKeyId, SetMem
    <3> HIDE DEF s
    <3>4. QED
      BY <1>0, <2>11, <3>1, <3>2, <3>3 DEF GotKeyId, TypeOK
  <2>12. ASSUME NEW r \in net, GotCheckin(p, r) PROVE EscrowedClaimIsTrue'
    BY <1>0, <2>12, BlankClaim DEF GotCheckin, Exit, SetMem, TypeOK
  <2>13. CASE CallFails(p)
    BY <1>0, <2>13, BlankClaim DEF CallFails, Exit, SetMem, TypeOK
  <2>14. QED
    BY <1>2, <2>1, <2>2, <2>3, <2>4, <2>5, <2>6, <2>7, <2>8, <2>9, <2>10,
       <2>11, <2>12, <2>13 DEF Step
<1>3. ASSUME NEW p \in Proc, Crash(p) PROVE EscrowedClaimIsTrue'
  BY <1>0, <1>3, BlankClaim DEF Crash, Exit, SetMem, TypeOK
<1>4. CASE PortalStep
  BY <1>0, <1>4 DEF PortalStep
<1>5. CASE AdminRotate
  BY <1>0, <1>5 DEF AdminRotate
<1>6. CASE UNCHANGED vars
  BY <1>6 DEF vars
<1>7. QED
  BY <1>1, <1>2, <1>3, <1>4, <1>5, <1>6 DEF Next

-----------------------------------------------------------------------------
(* The theorems.                                                           *)

\* The inductive invariant.
IInv ==
  /\ TypeOK
  /\ HeldKeys
  /\ Ledger
  /\ Posted
  /\ Awaited
  /\ EscrowFirstGate
  /\ RebindGate
  /\ EscrowedClaimIsTrue

LEMMA InvInit == Init => IInv
<1> SUFFICES ASSUME Init PROVE IInv
  OBVIOUS
<1>1. TypeOK /\ HeldKeys
  BY TypeInit
<1>2. Ledger /\ Posted /\ Awaited
  BY DEF Init, StoreInit, Ledger, Posted, Awaited
<1>3. EscrowFirstGate /\ RebindGate
  BY DEF Init, EscrowFirstGate, RebindGate
<1>4. EscrowedClaimIsTrue
  BY BlankClaim DEF Init, EscrowedClaimIsTrue, Claim
<1>5. QED
  BY <1>1, <1>2, <1>3, <1>4 DEF IInv

LEMMA InvNext == IInv /\ [Next]_vars => IInv'
  BY TypeNext, HeldKeysNext, LedgerNext, PostedNext, AwaitedNext, GateNext,
     ClaimsNext DEF IInv

THEOREM Invariance == Spec => []IInv
  BY InvInit, InvNext, PTL DEF Spec

\* The types of all variables.
THEOREM TypeCorrect == Spec => []TypeOK
<1>1. IInv => TypeOK
  BY DEF IInv
<1>2. QED
  BY <1>1, Invariance, PTL

\* Under every interleaving, crash, lost answer and late request, for any
\* number of processes and keys: no binding without an escrowed and audited
\* key, and no process binds before its own key is one.
THEOREM GateHolds == Spec => []EscrowFirstGate
<1>1. IInv => EscrowFirstGate
  BY DEF IInv
<1>2. QED
  BY <1>1, Invariance, PTL

\* A file or process that says "escrowed" names a key the portal holds.
THEOREM ClaimsHold == Spec => []EscrowedClaimIsTrue
<1>1. IInv => EscrowedClaimIsTrue
  BY DEF IInv
<1>2. QED
  BY <1>1, Invariance, PTL

\* Without a rotation, a machine that unlocks by itself can be recovered
\* with the key the portal reveals.
THEOREM EnrollRecoverable == Spec => []EnrollIsRecoverable
<1>1. IInv => EnrollIsRecoverable
  BY DEF IInv, EscrowFirstGate, Ledger, EnrollIsRecoverable
<1>2. QED
  BY <1>1, Invariance, PTL
\* Every step of the machine and the portal is a step of EscrowFirst or
\* leaves what it speaks of alone.
LEMMA StepRefines == IInv /\ [Next]_vars => [EF!Next]_(EF!eVars)
<1> SUFFICES ASSUME IInv, [Next]_vars PROVE EF!Next \/ UNCHANGED EF!eVars
  OBVIOUS
<1> USE DEF EF!eVars, storeVars, diskVars, fileVars, procVars
<1>1. ASSUME NEW p \in Proc, Start(p) \/ Crash(p) PROVE UNCHANGED EF!eVars
  BY <1>1 DEF Start, StartEnroll, StartRotate, StartVerify, Begin, Crash
<1>2. ASSUME NEW p \in Proc, Step(p) PROVE EF!Next \/ UNCHANGED EF!eVars
  <2>1. ASSUME NEW k \in Key, Mint(p, k) PROVE EF!Add(k)
    BY <2>1 DEF Mint, EF!Add
  <2>2. ASSUME NEW k \in Key, Swap(p, k) PROVE EF!Replace(k)
    BY <2>2 DEF Swap, EF!Replace
  <2>3. ASSUME NEW k \in Key, Unparsed(p, k) PROVE EF!Add(k) \/ EF!Replace(k)
    BY <2>3 DEF Unparsed, EF!Add, EF!Replace
  <2>4. ASSUME NEW on \in BOOLEAN, Bind(p, on)
        PROVE  EF!SwitchOn \/ UNCHANGED EF!eVars
    BY <2>4 DEF Bind, EF!SwitchOn, IInv, EscrowFirstGate, TypeOK
  <2>5. CASE Unbind(p)
    BY <2>5 DEF Unbind, EF!Next, EF!SwitchOff, IInv, TypeOK
  <2>6. CASE Rebind(p)
    BY <2>6 DEF Rebind, EF!Next, EF!SwitchOn, IInv, RebindGate, Ledger
  <2>7. CASE Register(p) \/ SendKey(p) \/ Checkin(p) \/ ToolFails(p)
               \/ ProbeOk(p) \/ Truncate(p) \/ Write(p) \/ WriteReport(p)
               \/ CallFails(p)
    BY <2>7 DEF Register, SendKey, Checkin, Call, ToolFails, ProbeOk, Truncate,
                Write, WriteReport, CallFails
  <2>8. ASSUME NEW r \in net, GotToken(p, r) \/ GotKeyId(p, r) \/ GotCheckin(p, r)
        PROVE  UNCHANGED EF!eVars
    BY <2>8 DEF GotToken, GotKeyId, GotCheckin
  <2>9. QED
    BY <1>2, <2>1, <2>2, <2>3, <2>4, <2>5, <2>6, <2>7, <2>8 DEF Step, EF!Next
<1>3. CASE PortalStep
  <2> SUFFICES ASSUME NEW r \in net,
                      ServeEnroll(r) \/ AuthKeys(r) \/ StoreKey(r)
                        \/ AnswerKeys(r) \/ ServeCheckin(r) \/ Lose(r),
                      UNCHANGED <<diskVars, fileVars, procVars>>
               PROVE  EF!Next \/ UNCHANGED EF!eVars
    BY <1>3 DEF PortalStep
  <2>1. CASE StoreKey(r)
    <3>1. r.key \in minted /\ r.key \in Key
      BY <2>1 DEF StoreKey, IInv, HeldKeys, TypeOK
    <3>2. EF!Deposit(r.key)
      BY <2>1, <3>1 DEF StoreKey, Escrow, EF!Deposit
    <3>3. QED
      BY <3>1, <3>2 DEF EF!Next
  <2>2. CASE ~StoreKey(r)
    BY <2>2 DEF ServeEnroll, EnrollDevice, AuthKeys, AnswerKeys, AuditEscrow,
                ServeCheckin, Lose
  <2>3. QED
    BY <2>1, <2>2
<1>4. CASE AdminRotate \/ UNCHANGED vars
  BY <1>4 DEF AdminRotate, RequestRotate, vars
<1>5. QED
  BY <1>1, <1>2, <1>3, <1>4 DEF Next

\* The agent and the portal implement EscrowFirst.
THEOREM Refinement == Spec => ImplementsEscrowFirst
<1>1. Init => EF!Init
  BY DEF Init, StoreInit, EF!Init
<1>2. QED
  BY <1>1, StepRefines, Invariance, PTL DEF Spec, ImplementsEscrowFirst, EF!Spec

\* Whatever the commands, the tools and the portal do, and wherever they stop: a
\* disk that has had a recovery slot has one, the portal holds no key that was
\* not made for it, and it does not unlock by itself before the portal holds one.
THEOREM RecoveryNeverLost == Spec => []EF!NeverLockedOut
<1> USE DEF EF!NeverLockedOut
<1>1. EF!Init => EF!NeverLockedOut
  BY DEF EF!Init
<1>2. EF!NeverLockedOut /\ [EF!Next]_(EF!eVars) => EF!NeverLockedOut'
  <2> SUFFICES ASSUME EF!NeverLockedOut, [EF!Next]_(EF!eVars) PROVE EF!NeverLockedOut'
    OBVIOUS
  <2>1. ASSUME NEW k \in Key, EF!Add(k) \/ EF!Replace(k) \/ EF!Deposit(k)
        PROVE  EF!NeverLockedOut'
    BY <2>1 DEF EF!Add, EF!Replace, EF!Deposit
  <2>2. CASE EF!SwitchOn \/ EF!SwitchOff
    BY <2>2 DEF EF!SwitchOn, EF!SwitchOff
  <2>3. CASE UNCHANGED EF!eVars
    BY <2>3 DEF EF!eVars
  <2>4. QED
    BY <2>1, <2>2, <2>3 DEF EF!Next
<1>3. Spec => EF!Spec
  BY Refinement DEF ImplementsEscrowFirst
<1>4. QED
  BY <1>1, <1>2, <1>3, PTL DEF EF!Spec
=============================================================================
