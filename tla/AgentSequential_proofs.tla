----------------------- MODULE AgentSequential_proofs -----------------------
(* Theorems of AgentEscrow about commands that run one at a time and are    *)
(* not killed: the tools and the portal may fail them at every point, which *)
(* is what the docstrings of cmd_enroll and cmd_rotate speak of.            *)
EXTENDS AgentEscrow_proofs

\* One process, no kill, no late request, no unparsable output.
OneAtATime == Faults = {} /\ \A p, q \in Proc : p = q

\* Nobody has given up on a request, and only a registered machine has a
\* request for a rotation.
Attended ==
  /\ \A r \in net : r.owner # None
  /\ rotateRequested => token # 0

\* What says "escrowed" is right about the disk, except in a rotation that has
\* just wiped the old slots and has not come to saving and reporting that.
Honest ==
  /\ stateFile.escrowed =>
       active \in recov \/ \E p \in Proc : Rotating(p) /\ pc[p] = "save"
  /\ compliance.escrowed => active \in recov \/ \E p \in Proc : Rotating(p)
  /\ \A p \in Proc : mem[p].escrowed => active \in recov

\* The key of a command on its way to escrow has a slot, in a rotation the only
\* one, and is new to the portal until it becomes the active one.
KeyAtWork ==
  /\ \A p \in Proc :
       /\ pc[p] = "swap" => cmd[p] = "rotate"
       /\ cmd[p] = "rotate" =>
            /\ pc[p] \in {"swap", "save", "write", "report", "send", "wait"}
            /\ \A r \in net : r.kind = "keys"
       /\ pc[p] = "send" => key[p] \in recov \ stored
       /\ cmd[p] = "rotate" /\ pc[p] # "swap" => recov = {key[p]}
       /\ Rotating(p) => key[p] \notin stored
  /\ \A r \in net :
       r.kind = "keys" =>
         /\ r.key \in recov
         /\ r.stage \in {"sent", "authed"} => r.key \notin stored
         /\ r.stage \in {"stored", "ok"} => active = r.key

\* No copy of the token is a dead one: the machine only registers, which kills
\* the token before, while it knows none.
Tokens ==
  /\ stateFile.token \in {0, token}
  /\ \A p \in Proc :
       /\ mem[p].token \in {0, token}
       /\ pc[p] = "register" => stateFile.token = 0 /\ mem[p].token = 0
  /\ \A r \in net :
       r.kind = "enroll" =>
         /\ stateFile.token = 0 /\ \A p \in Proc : mem[p].token = 0
         /\ r.stage = "ok" => r.token = token

-----------------------------------------------------------------------------
\* There is at most one request, and its process waits for it.
LEMMA OneRequest ==
  ASSUME OneAtATime, TypeOK, Awaited, Attended
  PROVE  /\ \A r \in net : r.owner \in Proc /\ pc[r.owner] = "wait"
         /\ \A r, q \in net : r = q
         /\ \A p \in Proc : pc[p] # "wait" => net = {}
<1>1. \A r \in net : r.owner \in Proc /\ pc[r.owner] = "wait"
  BY DEF TypeOK, Request, Attended, Awaited
<1>2. \A r, q \in net : r = q
  BY <1>1 DEF OneAtATime, Awaited, Attended
<1>3. ASSUME NEW p \in Proc, pc[p] # "wait" PROVE net = {}
  BY <1>1, <1>3 DEF OneAtATime
<1>4. QED
  BY <1>1, <1>2, <1>3

\* Without late requests, what a process gives up on is gone.
LEMMA AbandonsAll ==
  ASSUME OneAtATime, TypeOK, Awaited, Attended, NEW p \in Proc, Abandon(p)
  PROVE  net' = {}
<1>1. \A r \in net : r.owner = p
  BY OneRequest DEF OneAtATime
<1>2. net' = net \ {r \in net : r.owner = p}
  BY DEF Abandon, OneAtATime
<1>3. QED
  BY <1>1, <1>2

\* The fields a process updates in its copy of the state.
LEMMA StateFields ==
  ASSUME NEW s \in State
  PROVE  /\ LET t == [s EXCEPT !.escrowed = FALSE]
            IN  ~t.escrowed /\ t.token = s.token
         /\ \A n \in Nat : LET t == [s EXCEPT !.token = n]
                           IN  t.escrowed = s.escrowed /\ t.token = n
         /\ \A k \in Key \cup {None} :
              LET t == [s EXCEPT !.escrowed = TRUE, !.keyId = k]
              IN  t.escrowed /\ t.token = s.token
         /\ \A on \in BOOLEAN :
              LET t == [s EXCEPT !.mode = on, !.device = TRUE]
              IN  t.escrowed = s.escrowed /\ t.token = s.token
         /\ Report(s).escrowed = s.escrowed
         /\ Blank.token = 0 /\ ~Blank.escrowed /\ ~Report(Blank).escrowed
  BY DEF State, Report, Blank

\* What a step of the portal makes of the one request there is.
LEMMA PortalOne ==
  ASSUME OneAtATime, TypeOK, Awaited, Attended, NEW r \in net,
         ServeEnroll(r) \/ AuthKeys(r) \/ StoreKey(r) \/ AnswerKeys(r)
           \/ ServeCheckin(r) \/ Lose(r)
  PROVE  \/ net' = {} /\ UNCHANGED <<token, stored, active, rotateRequested>>
         \/ \E q :
              /\ net' = {q}
              /\ q.owner = r.owner /\ q.kind = r.kind /\ q.key = r.key
              /\ \/ /\ ServeEnroll(r) /\ r.kind = "enroll"
                    /\ q.token = token' /\ token' = token + 1
                    /\ UNCHANGED <<stored, active, rotateRequested>>
                 \/ /\ StoreKey(r) /\ r.kind = "keys" /\ r.stage = "authed"
                    /\ q.stage = "stored" /\ stored' = stored \cup {r.key}
                    /\ active' = r.key /\ token' = token
                 \/ /\ q.kind # "enroll"
                    /\ UNCHANGED <<token, stored, active, rotateRequested>>
                    /\ \/ r.stage = "sent" /\ q.stage \in {"authed", "refused"}
                       \/ r.stage = "stored" /\ q.stage = "ok"
                       \/ r.kind = "checkin"
<1> DEFINE q(s) == [r EXCEPT !.stage = s]
<1>0. r \in Request /\ net = {r} /\ r.owner # None
  BY OneRequest DEF TypeOK, Attended
<1>1. \A s \in {"authed", "stored", "ok", "refused"} :
        q(s).owner = r.owner /\ q(s).kind = r.kind /\ q(s).key = r.key /\ q(s).stage = s
  BY <1>0, StageFields
<1>2. CASE ServeEnroll(r)
  <2> DEFINE t == [r EXCEPT !.stage = "ok", !.token = token + 1]
  <2>1. t.owner = r.owner /\ t.kind = r.kind /\ t.key = r.key /\ t.token = token + 1
    BY <1>0 DEF Request
  <2>2. net' = {t} /\ r.kind = "enroll" /\ token' = token + 1
          /\ UNCHANGED <<stored, active, rotateRequested>>
    BY <1>0, <1>2 DEF ServeEnroll, EnrollDevice, Reply
  <2> HIDE DEF t
  <2>3. QED
    BY <1>2, <2>1, <2>2
<1>3. CASE AuthKeys(r)
  <2>1. net' = {q("authed")} \/ net' = {q("refused")}
    BY <1>0, <1>3 DEF AuthKeys, Advance, Refuse, Reply
  <2>2. r.kind = "keys" /\ r.stage = "sent" /\ UNCHANGED storeVars
    BY <1>3 DEF AuthKeys
  <2> HIDE DEF q
  <2>3. QED
    BY <1>1, <2>1, <2>2 DEF storeVars
<1>4. CASE StoreKey(r)
  <2>1. net' = {q("stored")} /\ r.kind = "keys" /\ r.stage = "authed"
          /\ stored' = stored \cup {r.key} /\ active' = r.key /\ token' = token
    BY <1>0, <1>4 DEF StoreKey, Escrow, Advance
  <2> HIDE DEF q
  <2>2. QED
    BY <1>1, <1>4, <2>1
<1>5. CASE AnswerKeys(r)
  <2>1. net' = {q("ok")} /\ r.kind = "keys" /\ r.stage = "stored"
          /\ UNCHANGED <<token, stored, active, rotateRequested>>
    BY <1>0, <1>5 DEF AnswerKeys, AuditEscrow, Reply
  <2> HIDE DEF q
  <2>2. QED
    BY <1>1, <2>1
<1>6. CASE ServeCheckin(r)
  <2>1. net' = {q("ok")} \/ net' = {q("refused")}
    BY <1>0, <1>6 DEF ServeCheckin, Refuse, Reply
  <2>2. r.kind = "checkin" /\ UNCHANGED storeVars
    BY <1>6 DEF ServeCheckin
  <2> HIDE DEF q
  <2>3. QED
    BY <1>1, <2>1, <2>2 DEF storeVars
<1>7. CASE Lose(r)
  BY <1>0, <1>7 DEF Lose, storeVars
<1>8. QED
  BY <1>2, <1>3, <1>4, <1>5, <1>6, <1>7

-----------------------------------------------------------------------------
(* The strengthening is inductive.                                         *)

Sequential == IInv /\ Attended /\ Honest /\ KeyAtWork /\ Tokens

LEMMA AttendedNext == OneAtATime /\ Sequential /\ [Next]_vars => Attended'
<1> SUFFICES ASSUME OneAtATime, Sequential, [Next]_vars PROVE Attended'
  OBVIOUS
<1>0. TypeOK /\ Awaited /\ Attended
  BY DEF Sequential, IInv
<1> USE <1>0 DEF Attended, storeVars, diskVars, fileVars, procVars
<1>1. ASSUME NEW p \in Proc, Start(p) PROVE Attended'
  BY <1>1 DEF Start, StartEnroll, StartRotate, StartVerify, Begin
<1>2. ASSUME NEW p \in Proc, Step(p) PROVE Attended'
  <2>1. CASE Register(p) \/ SendKey(p) \/ Checkin(p)
    BY <2>1, NoneAssumption DEF Register, SendKey, Checkin, Call
  <2>2. ASSUME \/ \E k \in Key : Mint(p, k) \/ Swap(p, k) \/ Unparsed(p, k)
               \/ ToolFails(p)
               \/ \E on \in BOOLEAN : Bind(p, on)
               \/ ProbeOk(p) \/ Unbind(p) \/ Rebind(p)
               \/ Truncate(p) \/ Write(p) \/ WriteReport(p)
        PROVE  Attended'
    <3>1. UNCHANGED <<net, token, rotateRequested>>
      BY <2>2 DEF Mint, Swap, Unparsed, ToolFails, Bind, ProbeOk, Unbind, Rebind,
                  Truncate, Write, WriteReport
    <3>2. QED
      BY <3>1
  <2>3. CASE \E r \in net : GotToken(p, r) \/ GotKeyId(p, r) \/ GotCheckin(p, r)
    BY <2>3 DEF GotToken, GotKeyId, GotCheckin, Answered
  <2>4. CASE CallFails(p)
    BY <2>4, AbandonsAll DEF CallFails
  <2>5. QED
    BY <1>2, <2>1, <2>2, <2>3, <2>4 DEF Step
<1>3. ASSUME NEW p \in Proc, Crash(p) PROVE FALSE
  BY <1>3 DEF Crash, OneAtATime
<1>4. CASE PortalStep
  <2> SUFFICES ASSUME NEW r \in net,
                      ServeEnroll(r) \/ AuthKeys(r) \/ StoreKey(r)
                        \/ AnswerKeys(r) \/ ServeCheckin(r) \/ Lose(r)
               PROVE  Attended'
    BY <1>4 DEF PortalStep
  <2>1. token \in Nat
    BY DEF TypeOK
  <2>2. rotateRequested' => token' # 0
    <3>1. CASE ServeEnroll(r)
      BY <2>1, <3>1 DEF ServeEnroll, EnrollDevice
    <3>2. CASE StoreKey(r)
      BY <3>2 DEF StoreKey, Escrow
    <3>3. CASE AnswerKeys(r)
      BY <3>3 DEF AnswerKeys, AuditEscrow
    <3>4. CASE AuthKeys(r) \/ ServeCheckin(r) \/ Lose(r)
      BY <3>4 DEF AuthKeys, ServeCheckin, Lose
    <3>5. QED
      BY <3>1, <3>2, <3>3, <3>4
  <2>3. \A q \in net' : q.owner # None
    BY PortalOne
  <2>4. QED
    BY <2>2, <2>3
<1>5. CASE AdminRotate
  BY <1>5 DEF AdminRotate, RequestRotate
<1>6. CASE UNCHANGED vars
  BY <1>6 DEF vars
<1>7. QED
  BY <1>1, <1>2, <1>3, <1>4, <1>5, <1>6 DEF Next

LEMMA TokensNext == OneAtATime /\ Sequential /\ [Next]_vars => Tokens'
<1> SUFFICES ASSUME OneAtATime, Sequential, [Next]_vars PROVE Tokens'
  OBVIOUS
<1>0. TypeOK /\ Awaited /\ Attended /\ Tokens /\ token \in Nat
  BY DEF Sequential, IInv, TypeOK
<1> USE <1>0 DEF storeVars, diskVars, fileVars, procVars
<1>1. ASSUME NEW p \in Proc PROVE mem[p] \in State /\ \A q \in Proc : q = p
  BY DEF TypeOK, OneAtATime
<1>2. ASSUME NEW p \in Proc, Start(p) PROVE Tokens'
  <2>1. net = {} /\ net' = {} /\ UNCHANGED <<token, stateFile>>
    BY <1>2, OneRequest DEF Start, StartEnroll, StartRotate, StartVerify, Begin
  <2>2. mem'[p] = stateFile /\ (pc'[p] = "register" => stateFile.token = 0)
    BY <1>2 DEF Start, StartEnroll, StartRotate, StartVerify, Begin, Goto, SetMem, TypeOK
  <2>3. QED
    BY <1>1, <2>1, <2>2 DEF Tokens
<1>3. ASSUME NEW p \in Proc, Exit(p), net' = {}, UNCHANGED <<token, stateFile>>
      PROVE  Tokens'
  <2>1. mem'[p].token = 0 /\ pc'[p] = "idle"
    BY <1>1, <1>3, StateFields DEF Exit, Goto, SetMem, TypeOK
  <2>2. QED
    BY <1>1, <1>3, <2>1 DEF Tokens
<1>4. ASSUME NEW p \in Proc, Step(p) PROVE Tokens'
  <2>1. CASE Register(p) \/ SendKey(p) \/ Checkin(p)
    <3>1. pc[p] # "wait" /\ net = {}
      BY <2>1, OneRequest DEF Register, SendKey, Checkin
    <3>2. pc'[p] = "wait" /\ UNCHANGED <<token, stateFile, mem>>
      BY <2>1 DEF Register, SendKey, Checkin, Call, Goto, TypeOK
    <3>3. \A r \in net' : r.stage = "sent" /\ (r.kind = "enroll" => pc[p] = "register")
      BY <2>1, <3>1 DEF Register, SendKey, Checkin, Call
    <3>4. QED
      BY <1>1, <3>2, <3>3 DEF Tokens
  <2>2. ASSUME NEW k \in Key, Mint(p, k) PROVE Tokens'
    <3>1. pc'[p] = "send" /\ net = {} /\ UNCHANGED <<token, stateFile, mem, net>>
      BY <2>2, OneRequest DEF Mint, Goto, TypeOK
    <3>2. QED
      BY <1>1, <3>1 DEF Tokens
  <2>3. ASSUME NEW k \in Key, Swap(p, k) PROVE Tokens'
    <3>1. pc'[p] = "save" /\ net = {} /\ UNCHANGED <<token, stateFile, net>>
      BY <2>3, OneRequest DEF Swap, Goto, TypeOK
    <3>2. mem'[p].token = mem[p].token
      BY <1>1, <2>3, StateFields DEF Swap, SetMem, TypeOK
    <3>3. QED
      BY <1>1, <3>1, <3>2 DEF Tokens
  <2>4. ASSUME NEW k \in Key, Unparsed(p, k) PROVE Tokens'
    BY <2>4 DEF Unparsed, OneAtATime
  <2>5. CASE ToolFails(p)
    <3>1. Exit(p) /\ net' = {} /\ UNCHANGED <<token, stateFile>>
      BY <2>5, OneRequest DEF ToolFails
    <3>2. QED
      BY <1>3, <3>1
  <2>6. ASSUME NEW on \in BOOLEAN, Bind(p, on) PROVE Tokens'
    <3>1. pc'[p] = "save" /\ net = {} /\ UNCHANGED <<token, stateFile, net>>
      BY <2>6, OneRequest DEF Bind, Goto, TypeOK
    <3>2. mem'[p].token = mem[p].token
      BY <1>1, <2>6, StateFields DEF Bind, SetMem, TypeOK
    <3>3. QED
      BY <1>1, <3>1, <3>2 DEF Tokens
  <2>7. CASE ProbeOk(p) \/ Unbind(p) \/ Rebind(p)
    <3>1. pc'[p] # "register" /\ net = {} /\ UNCHANGED <<token, stateFile, net, mem>>
      BY <2>7, OneRequest DEF ProbeOk, Unbind, Rebind, Goto, TypeOK
    <3>2. QED
      BY <1>1, <3>1 DEF Tokens
  <2>8. CASE Truncate(p) \/ Write(p)
    <3>1. pc'[p] # "register" /\ net = {} /\ UNCHANGED <<token, net, mem>>
      BY <2>8, OneRequest DEF Truncate, Write, AfterSave, Goto, TypeOK
    <3>2. stateFile'.token \in {0, mem[p].token}
      BY <1>1, <2>8, StateFields DEF Truncate, Write
    <3>3. QED
      BY <1>1, <3>1, <3>2 DEF Tokens
  <2>9. CASE WriteReport(p)
    <3>1. net = {} /\ net' = {} /\ UNCHANGED <<token, stateFile>>
      BY <2>9, OneRequest DEF WriteReport
    <3>2. CASE Exit(p)
      BY <1>3, <3>1, <3>2
    <3>3. CASE ~Exit(p)
      <4>1. pc'[p] # "register" /\ mem' = mem
        BY <2>9, <3>3 DEF WriteReport, Goto, TypeOK
      <4>2. QED
        BY <1>1, <3>1, <4>1 DEF Tokens
    <3>4. QED
      BY <3>2, <3>3
  <2>10. ASSUME NEW r \in net, GotToken(p, r) PROVE Tokens'
    <3>1. net' = {} /\ pc'[p] = "save" /\ UNCHANGED <<token, stateFile>>
      BY <2>10, OneRequest DEF GotToken, Answered, Goto, TypeOK
    <3>2. r.token = token
      BY <2>10 DEF GotToken, Answered, Tokens
    <3>3. mem'[p] = [mem[p] EXCEPT !.token = r.token]
      BY <2>10 DEF GotToken, SetMem, TypeOK
    <3>4. mem'[p].token = token
      BY <1>1, <3>2, <3>3, StateFields
    <3>5. QED
      BY <1>1, <3>1, <3>4 DEF Tokens
  <2>11. ASSUME NEW r \in net, GotKeyId(p, r) PROVE Tokens'
    <3>1. net' = {} /\ pc'[p] \in {"bind", "save"} /\ UNCHANGED <<token, stateFile>>
      BY <2>11, OneRequest DEF GotKeyId, Answered, Goto, TypeOK
    <3>2. r.key \in Key \cup {None}
      BY RequestUpdate DEF TypeOK
    <3>3. mem'[p] = [mem[p] EXCEPT !.escrowed = TRUE, !.keyId = r.key]
      BY <2>11 DEF GotKeyId, SetMem, TypeOK
    <3>4. mem'[p].token = mem[p].token
      BY <1>1, <3>2, <3>3, StateFields
    <3>5. QED
      BY <1>1, <3>1, <3>4 DEF Tokens
  <2>12. ASSUME NEW r \in net, GotCheckin(p, r) PROVE Tokens'
    <3>1. Exit(p) /\ net' = {} /\ UNCHANGED <<token, stateFile>>
      BY <2>12, OneRequest DEF GotCheckin, Answered
    <3>2. QED
      BY <1>3, <3>1
  <2>13. CASE CallFails(p)
    BY <1>3, <2>13, AbandonsAll DEF CallFails
  <2>14. QED
    BY <1>4, <2>1, <2>2, <2>3, <2>4, <2>5, <2>6, <2>7, <2>8, <2>9, <2>10,
       <2>11, <2>12, <2>13 DEF Step
<1>5. ASSUME NEW p \in Proc, Crash(p) PROVE FALSE
  BY <1>5 DEF Crash, OneAtATime
<1>6. CASE PortalStep
  <2> SUFFICES ASSUME NEW r \in net,
                      ServeEnroll(r) \/ AuthKeys(r) \/ StoreKey(r)
                        \/ AnswerKeys(r) \/ ServeCheckin(r) \/ Lose(r)
               PROVE  Tokens'
    BY <1>6 DEF PortalStep
  <2>0. UNCHANGED <<stateFile, pc, mem>>
    BY <1>6 DEF PortalStep
  <2>1. CASE net' = {} /\ token' = token
    BY <2>0, <2>1 DEF Tokens
  <2>2. ASSUME NEW q, net' = {q}, q.kind = "enroll", r.kind = "enroll",
               q.token = token', token' = token + 1
        PROVE  Tokens'
    <3>1. stateFile.token = 0 /\ \A p \in Proc : mem[p].token = 0
      BY <2>2 DEF Tokens
    <3>2. QED
      BY <2>0, <2>2, <3>1 DEF Tokens
  <2>3. ASSUME NEW q, net' = {q}, q.kind # "enroll", token' = token PROVE Tokens'
    BY <2>0, <2>3 DEF Tokens
  <2>4. QED
    BY <2>1, <2>2, <2>3, PortalOne
<1>7. CASE AdminRotate
  BY <1>7 DEF AdminRotate, RequestRotate, Tokens
<1>8. CASE UNCHANGED vars
  BY <1>8 DEF vars, Tokens
<1>9. QED
  BY <1>2, <1>4, <1>5, <1>6, <1>7, <1>8 DEF Next

LEMMA KeyAtWorkNext == OneAtATime /\ Sequential /\ [Next]_vars => KeyAtWork'
<1> SUFFICES ASSUME OneAtATime, Sequential, [Next]_vars PROVE KeyAtWork'
  OBVIOUS
<1>0. TypeOK /\ Awaited /\ Attended /\ KeyAtWork /\ Ledger
  BY DEF Sequential, IInv
<1> USE <1>0 DEF storeVars, diskVars, fileVars, procVars
<1>1. ASSUME NEW p \in Proc PROVE mem[p] \in State /\ \A q \in Proc : q = p
  BY DEF TypeOK, OneAtATime
<1>2. ASSUME NEW p \in Proc, Start(p) PROVE KeyAtWork'
  <2>1. net' = {}
    BY <1>2, OneRequest DEF Start, StartEnroll, StartRotate, StartVerify, Begin
  <2>2. /\ pc'[p] \in {"register", "mint", "swap", "probe"}
        /\ pc'[p] = "swap" <=> cmd'[p] = "rotate"
    BY <1>2 DEF Start, StartEnroll, StartRotate, StartVerify, Begin, Goto, TypeOK
  <2>3. QED
    BY <1>1, <2>1, <2>2 DEF KeyAtWork, Rotating
<1>3. ASSUME NEW p \in Proc, Exit(p), net' = {} PROVE KeyAtWork'
  <2>1. pc'[p] = "idle" /\ cmd'[p] = "none"
    BY <1>3 DEF Exit, Goto, TypeOK
  <2>2. QED
    BY <1>1, <1>3, <2>1 DEF KeyAtWork, Rotating
<1>4. ASSUME NEW p \in Proc, Step(p) PROVE KeyAtWork'
  <2>1. CASE Register(p) \/ SendKey(p) \/ Checkin(p)
    <3>1. pc[p] \in {"register", "send", "checkin"} /\ net = {}
      BY <2>1, OneRequest DEF Register, SendKey, Checkin
    <3>2. pc'[p] = "wait" /\ UNCHANGED <<stored, active, recov, cmd, mem, key>>
      BY <2>1 DEF Register, SendKey, Checkin, Call, Goto, TypeOK
    <3>3. \A r \in net' :
            /\ r.stage = "sent"
            /\ pc[p] = "send" => r.kind = "keys"
            /\ r.kind = "keys" => pc[p] = "send" /\ r.key = key[p]
      BY <2>1, <3>1 DEF Register, SendKey, Checkin, Call
    <3>4. QED
      BY <1>1, <3>1, <3>2, <3>3 DEF KeyAtWork, Rotating
  <2>2. ASSUME NEW k \in Key, Mint(p, k) PROVE KeyAtWork'
    <3>1. pc[p] = "mint" /\ pc'[p] = "send" /\ net' = {} /\ UNCHANGED <<stored, cmd, mem>>
      BY <2>2, OneRequest DEF Mint, Goto, TypeOK
    <3>2. key'[p] = k /\ recov' = recov \cup {k} /\ k \notin stored
      BY <2>2 DEF Mint, Ledger, TypeOK
    <3>3. QED
      BY <1>1, <3>1, <3>2 DEF KeyAtWork, Rotating
  <2>3. ASSUME NEW k \in Key, Swap(p, k) PROVE KeyAtWork'
    <3>1. pc'[p] = "save" /\ net' = {} /\ UNCHANGED <<stored, cmd>>
      BY <2>3, OneRequest DEF Swap, Goto, TypeOK
    <3>2. key'[p] = k /\ recov' = {k} /\ k \notin stored
      BY <2>3 DEF Swap, Ledger, TypeOK
    <3>3. QED
      BY <1>1, <3>1, <3>2 DEF KeyAtWork, Rotating
  <2>4. ASSUME NEW k \in Key, Unparsed(p, k) PROVE KeyAtWork'
    BY <2>4 DEF Unparsed, OneAtATime
  <2>5. CASE ToolFails(p)
    BY <1>3, <2>5, OneRequest DEF ToolFails
  <2>6. CASE (\E on \in BOOLEAN : Bind(p, on)) \/ ProbeOk(p) \/ Unbind(p) \/ Rebind(p)
    <3>1. pc[p] \in {"bind", "probe", "rebind"} /\ pc'[p] \in {"save", "rebind"}
      BY <2>6 DEF Bind, ProbeOk, Unbind, Rebind, Goto, TypeOK
    <3>2. net' = {} /\ cmd' = cmd
      BY <2>6, <3>1, OneRequest DEF Bind, ProbeOk, Unbind, Rebind
    <3>3. QED
      BY <1>1, <3>1, <3>2 DEF KeyAtWork, Rotating
  <2>7. CASE Truncate(p) \/ Write(p)
    <3>1. /\ pc[p] \in {"save", "write"}
          /\ pc'[p] \in {"write", "report", "mint"}
          /\ pc'[p] = "mint" => cmd[p] = "enroll"
      BY <2>7 DEF Truncate, Write, AfterSave, Goto, TypeOK
    <3>2. net' = {} /\ UNCHANGED <<stored, recov, cmd, mem, key>>
      BY <2>7, OneRequest DEF Truncate, Write
    <3>3. QED
      BY <1>1, <3>1, <3>2 DEF KeyAtWork, Rotating
  <2>8. CASE WriteReport(p)
    <3>1. net' = {} /\ UNCHANGED <<stored, recov>> /\ pc[p] = "report"
      BY <2>8, OneRequest DEF WriteReport
    <3>2. CASE Exit(p)
      BY <1>3, <3>1, <3>2
    <3>3. CASE ~Exit(p)
      <4>1. UNCHANGED <<cmd, mem, key>>
        BY <2>8, <3>3 DEF WriteReport
      <4>2. \/ pc'[p] = "send" /\ cmd[p] = "rotate" /\ ~mem[p].escrowed
            \/ pc'[p] = "checkin" /\ cmd[p] = "verify"
        BY <2>8, <3>3 DEF WriteReport, Goto, TypeOK
      <4>3. QED
        BY <1>1, <3>1, <4>1, <4>2 DEF KeyAtWork, Rotating
    <3>4. QED
      BY <3>2, <3>3
  <2>9. ASSUME NEW r \in net, GotToken(p, r) PROVE KeyAtWork'
    <3>1. net' = {} /\ pc'[p] = "save" /\ cmd' = cmd /\ r.kind = "enroll"
      BY <2>9, OneRequest DEF GotToken, Answered, Goto, TypeOK
    <3>2. QED
      BY <1>1, <3>1 DEF KeyAtWork, Rotating
  <2>10. ASSUME NEW r \in net, GotKeyId(p, r) PROVE KeyAtWork'
    <3>1. /\ net' = {} /\ pc[p] = "wait"
          /\ pc'[p] = IF cmd[p] = "enroll" THEN "bind" ELSE "save"
          /\ UNCHANGED <<stored, recov, cmd, key>>
      BY <2>10, OneRequest DEF GotKeyId, Answered, Goto, TypeOK
    <3>2. r.key \in Key \cup {None}
      BY RequestUpdate DEF TypeOK
    <3>3. mem'[p] = [mem[p] EXCEPT !.escrowed = TRUE, !.keyId = r.key]
      BY <2>10 DEF GotKeyId, SetMem, TypeOK
    <3>4. mem'[p].escrowed
      BY <1>1, <3>2, <3>3, StateFields
    <3>5. QED
      BY <1>1, <3>1, <3>4 DEF KeyAtWork, Rotating
  <2>11. ASSUME NEW r \in net, GotCheckin(p, r) PROVE KeyAtWork'
    BY <1>3, <2>11, OneRequest DEF GotCheckin, Answered
  <2>12. CASE CallFails(p)
    BY <1>3, <2>12, AbandonsAll DEF CallFails
  <2>13. QED
    BY <1>4, <2>1, <2>2, <2>3, <2>4, <2>5, <2>6, <2>7, <2>8, <2>9, <2>10,
       <2>11, <2>12 DEF Step
<1>5. ASSUME NEW p \in Proc, Crash(p) PROVE FALSE
  BY <1>5 DEF Crash, OneAtATime
<1>6. CASE PortalStep
  <2> SUFFICES ASSUME NEW r \in net,
                      ServeEnroll(r) \/ AuthKeys(r) \/ StoreKey(r)
                        \/ AnswerKeys(r) \/ ServeCheckin(r) \/ Lose(r)
               PROVE  KeyAtWork'
    BY <1>6 DEF PortalStep
  <2>0. UNCHANGED <<recov, pc, cmd, mem, key>>
    BY <1>6 DEF PortalStep
  <2>1. \A p \in Proc : pc[p] = "wait"
    BY OneRequest
  <2>2. CASE net' = {}
    BY <2>0, <2>1, <2>2 DEF KeyAtWork, Rotating
  <2>3. ASSUME NEW q, net' = {q}, q.kind = r.kind, q.key = r.key,
               \/ r.kind = "enroll"
               \/ q.stage = "stored" /\ active' = r.key
               \/ /\ q.kind # "enroll" /\ UNCHANGED <<stored, active>>
                  /\ \/ r.stage = "sent" /\ q.stage \in {"authed", "refused"}
                     \/ r.stage = "stored" /\ q.stage = "ok"
                     \/ r.kind = "checkin"
        PROVE  KeyAtWork'
    BY <2>0, <2>1, <2>3 DEF KeyAtWork, Rotating
  <2>4. QED
    BY <2>2, <2>3, PortalOne
<1>7. CASE AdminRotate
  BY <1>7 DEF AdminRotate, RequestRotate, KeyAtWork, Rotating
<1>8. CASE UNCHANGED vars
  BY <1>8 DEF vars, KeyAtWork, Rotating
<1>9. QED
  BY <1>2, <1>4, <1>5, <1>6, <1>7, <1>8 DEF Next

\* Away from the saves and reports of a rotation, every claim is right.
LEMMA PlainlyHonest ==
  ASSUME OneAtATime, Honest, NEW p \in Proc, pc[p] \notin {"save", "write", "report"}
  PROVE  /\ stateFile.escrowed => active \in recov
         /\ compliance.escrowed => active \in recov
  BY DEF OneAtATime, Honest, Rotating

LEMMA HonestNext == OneAtATime /\ Sequential /\ [Next]_vars => Honest'
<1> SUFFICES ASSUME OneAtATime, Sequential, [Next]_vars PROVE Honest'
  OBVIOUS
<1>0. TypeOK /\ Awaited /\ Attended /\ KeyAtWork /\ Honest
  BY DEF Sequential, IInv
<1> USE <1>0 DEF storeVars, diskVars, fileVars, procVars
<1>1. ASSUME NEW p \in Proc PROVE mem[p] \in State /\ \A q \in Proc : q = p
  BY DEF TypeOK, OneAtATime
\* Most steps happen where every claim is right, keep the files and what the
\* active key opens, and add no claim.
<1>2. ASSUME NEW p \in Proc, pc[p] \notin {"save", "write", "report"},
             UNCHANGED <<stateFile, compliance>>,
             active \in recov => active' \in recov',
             mem'[p].escrowed => active' \in recov'
      PROVE  Honest'
  BY <1>1, <1>2, PlainlyHonest DEF Honest
<1>3. ASSUME NEW p \in Proc, Exit(p), pc[p] \notin {"save", "write", "report"},
             UNCHANGED <<stateFile, compliance, active, recov>>
      PROVE  Honest'
  <2>1. ~mem'[p].escrowed
    BY <1>3, BlankClaim DEF Exit, SetMem, TypeOK
  <2>2. QED
    BY <1>2, <1>3, <2>1
<1>4. ASSUME NEW p \in Proc, Start(p) PROVE Honest'
  <2>1. /\ pc[p] = "idle" /\ mem'[p] = stateFile
        /\ UNCHANGED <<stateFile, compliance, active, recov>>
    BY <1>4 DEF Start, StartEnroll, StartRotate, StartVerify, Begin, SetMem, TypeOK
  <2>2. QED
    BY <1>2, <2>1, PlainlyHonest
<1>5. ASSUME NEW p \in Proc, Step(p) PROVE Honest'
  <2>0. mem[p].escrowed => active \in recov
    BY DEF Honest
  <2>1. CASE Register(p) \/ SendKey(p) \/ Checkin(p) \/ ProbeOk(p) \/ Unbind(p)
               \/ Rebind(p)
    <3>1. /\ pc[p] \notin {"save", "write", "report"}
          /\ UNCHANGED <<stateFile, compliance, active, recov, mem>>
      BY <2>1 DEF Register, SendKey, Checkin, Call, ProbeOk, Unbind, Rebind
    <3>2. QED
      BY <1>2, <2>0, <3>1
  <2>2. ASSUME NEW k \in Key, Mint(p, k) PROVE Honest'
    <3>1. /\ pc[p] = "mint" /\ recov' = recov \cup {k}
          /\ UNCHANGED <<stateFile, compliance, active, mem>>
      BY <2>2 DEF Mint
    <3>2. QED
      BY <1>2, <2>0, <3>1
  <2>3. ASSUME NEW k \in Key, Swap(p, k) PROVE Honest'
    <3>1. pc'[p] = "save" /\ cmd'[p] = "rotate"
      BY <2>3 DEF Swap, Goto, TypeOK, KeyAtWork
    <3>2. ~mem'[p].escrowed
      BY <1>1, <2>3, StateFields DEF Swap, SetMem, TypeOK
    <3>3. QED
      BY <1>1, <3>1, <3>2 DEF Honest, Rotating
  <2>4. ASSUME NEW k \in Key, Unparsed(p, k) PROVE Honest'
    BY <2>4 DEF Unparsed, OneAtATime
  <2>5. CASE ToolFails(p)
    <3>1. pc[p] \notin {"save", "write", "report"} /\ Exit(p)
            /\ UNCHANGED <<stateFile, compliance, active, recov>>
      BY <2>5 DEF ToolFails
    <3>2. QED
      BY <1>3, <3>1
  <2>6. ASSUME NEW on \in BOOLEAN, Bind(p, on) PROVE Honest'
    <3>1. pc[p] = "bind" /\ UNCHANGED <<stateFile, compliance, active, recov>>
      BY <2>6 DEF Bind
    <3>2. mem'[p].escrowed = mem[p].escrowed
      BY <1>1, <2>6, StateFields DEF Bind, SetMem, TypeOK
    <3>3. QED
      BY <1>2, <2>0, <3>1, <3>2
  <2>7. CASE Truncate(p)
    <3>1. /\ pc[p] = "save" /\ pc'[p] = "write" /\ ~stateFile'.escrowed
          /\ UNCHANGED <<compliance, active, recov, cmd, mem>>
      BY <2>7, BlankClaim DEF Truncate, Goto, TypeOK
    <3>2. QED
      BY <1>1, <3>1 DEF Honest, Rotating
  <2>8. CASE Write(p)
    <3>1. /\ pc[p] = "write" /\ pc'[p] = AfterSave(p)
          /\ UNCHANGED <<compliance, active, recov, cmd, mem>>
      BY <2>8 DEF Write, Goto, TypeOK
    <3>2. cmd[p] = "rotate" => pc'[p] = "report"
      BY <3>1 DEF AfterSave
    <3>3. stateFile'.escrowed => mem[p].escrowed
      BY <2>8, BlankClaim DEF Write
    <3>4. QED
      BY <1>1, <3>1, <3>2, <3>3 DEF Honest, Rotating
  <2>9. CASE WriteReport(p)
    <3>1. /\ pc[p] = "report" /\ compliance'.escrowed = mem[p].escrowed
          /\ UNCHANGED <<stateFile, active, recov>>
      BY <1>1, <2>9, StateFields DEF WriteReport
    <3>2. mem'[p].escrowed => mem[p].escrowed
      BY <2>9, BlankClaim DEF WriteReport, Exit, SetMem, TypeOK
    <3>3. stateFile.escrowed => active \in recov
      BY <1>1, <3>1 DEF Honest, Rotating
    <3>4. QED
      BY <1>1, <2>0, <3>1, <3>2, <3>3 DEF Honest
  <2>10. ASSUME NEW r \in net, GotToken(p, r) PROVE Honest'
    <3>1. pc[p] = "wait" /\ UNCHANGED <<stateFile, compliance, active, recov>>
      BY <2>10 DEF GotToken, Answered
    <3>2. mem'[p] = [mem[p] EXCEPT !.token = r.token] /\ r.token \in Nat
      BY <2>10, RequestUpdate DEF GotToken, SetMem, TypeOK
    <3>3. mem'[p].escrowed = mem[p].escrowed
      BY <1>1, <3>2, StateFields
    <3>4. QED
      BY <1>2, <2>0, <3>1, <3>3
  <2>11. ASSUME NEW r \in net, GotKeyId(p, r) PROVE Honest'
    <3>1. pc[p] = "wait" /\ UNCHANGED <<stateFile, compliance, active, recov>>
      BY <2>11 DEF GotKeyId, Answered
    <3>2. active \in recov
      BY <2>11 DEF GotKeyId, Answered, KeyAtWork
    <3>3. QED
      BY <1>2, <3>1, <3>2
  <2>12. ASSUME NEW r \in net, GotCheckin(p, r) PROVE Honest'
    <3>1. pc[p] = "wait" /\ Exit(p) /\ UNCHANGED <<stateFile, compliance, active, recov>>
      BY <2>12 DEF GotCheckin, Answered
    <3>2. QED
      BY <1>3, <3>1
  <2>13. CASE CallFails(p)
    <3>1. pc[p] = "wait" /\ Exit(p) /\ UNCHANGED <<stateFile, compliance, active, recov>>
      BY <2>13 DEF CallFails
    <3>2. QED
      BY <1>3, <3>1
  <2>14. QED
    BY <1>5, <2>1, <2>2, <2>3, <2>4, <2>5, <2>6, <2>7, <2>8, <2>9, <2>10,
       <2>11, <2>12, <2>13 DEF Step
<1>6. ASSUME NEW p \in Proc, Crash(p) PROVE FALSE
  BY <1>6 DEF Crash, OneAtATime
<1>7. CASE PortalStep
  <2> SUFFICES ASSUME NEW r \in net,
                      ServeEnroll(r) \/ AuthKeys(r) \/ StoreKey(r)
                        \/ AnswerKeys(r) \/ ServeCheckin(r) \/ Lose(r)
               PROVE  Honest'
    BY <1>7 DEF PortalStep
  <2>0. UNCHANGED <<recov, stateFile, compliance, pc, cmd, mem>>
    BY <1>7 DEF PortalStep
  <2>1. active' = active \/ (active' = r.key /\ r.key \in recov)
    BY PortalOne DEF KeyAtWork
  <2>2. QED
    BY <2>0, <2>1 DEF Honest, Rotating
<1>8. CASE AdminRotate
  BY <1>8 DEF AdminRotate, RequestRotate, Honest, Rotating
<1>9. CASE UNCHANGED vars
  BY <1>9 DEF vars, Honest, Rotating
<1>10. QED
  BY <1>4, <1>5, <1>6, <1>7, <1>8, <1>9 DEF Next

-----------------------------------------------------------------------------
(* The theorems.                                                           *)

LEMMA SequentialInit == Init => Sequential
<1> SUFFICES ASSUME Init PROVE Sequential
  OBVIOUS
<1>1. IInv
  BY InvInit
<1>2. Attended /\ KeyAtWork
  BY DEF Init, StoreInit, Attended, KeyAtWork, Rotating
<1>3. Honest
  BY BlankClaim DEF Init, Honest
<1>4. Tokens
  BY DEF Init, StoreInit, Tokens, Blank
<1>5. QED
  BY <1>1, <1>2, <1>3, <1>4 DEF Sequential

LEMMA SequentialInvariance == OneAtATime => (Spec => []Sequential)
<1> SUFFICES ASSUME OneAtATime PROVE Spec => []Sequential
  OBVIOUS
<1>1. Sequential /\ [Next]_vars => Sequential'
  BY InvNext, AttendedNext, HonestNext, KeyAtWorkNext, TokensNext DEF Sequential
<1>2. QED
  BY <1>1, SequentialInit, PTL DEF Spec

\* compliance.json never says "escrowed" of a machine that the key the portal
\* reveals does not open, except while a rotation has not come to saying so:
\* whichever tool or call fails, and however the commands follow on each other.
THEOREM ReportsHonest == OneAtATime => (Spec => []ReportIsHonest)
<1> SUFFICES ASSUME OneAtATime PROVE Spec => []ReportIsHonest
  OBVIOUS
<1>1. Sequential => ReportIsHonest
  BY DEF Sequential, Honest, ReportIsHonest
<1>2. QED
  BY <1>1, SequentialInvariance, PTL

\* The token the agent has saved is the one the portal accepts.
THEOREM TokensCurrent == OneAtATime => (Spec => []TokenIsCurrent)
<1> SUFFICES ASSUME OneAtATime PROVE Spec => []TokenIsCurrent
  OBVIOUS
<1>1. Sequential => TokenIsCurrent
  BY DEF Sequential, Tokens, TokenIsCurrent
<1>2. QED
  BY <1>1, SequentialInvariance, PTL

\* When the escrow of a rotation clears the administrator's request, no key that
\* was in escrow before has a slot left.
THEOREM RotationsEndOldKeys == OneAtATime => (Spec => RotationEndsOldKeys)
<1> SUFFICES ASSUME OneAtATime PROVE Spec => RotationEndsOldKeys
  OBVIOUS
<1> DEFINE A == rotateRequested /\ ~rotateRequested'
                  /\ (\E p \in Proc : cmd[p] = "rotate" /\ pc[p] = "wait")
                => stored \cap recov' = {}
<1>1. ASSUME Sequential, [Next]_vars,
             rotateRequested, ~rotateRequested',
             NEW p \in Proc, cmd[p] = "rotate", pc[p] = "wait"
      PROVE  stored \cap recov' = {}
  <2>0. TypeOK /\ Awaited /\ Attended /\ KeyAtWork
    BY <1>1 DEF Sequential, IInv
  <2> USE DEF storeVars, diskVars, fileVars, procVars
  <2>1. ASSUME NEW q \in Proc, Start(q) \/ Step(q) \/ Crash(q) PROVE FALSE
    <3>1. UNCHANGED rotateRequested
      <4>1. CASE Start(q) \/ Crash(q)
        BY <4>1 DEF Start, StartEnroll, StartRotate, StartVerify, Begin, Crash
      <4>2. CASE Step(q)
        BY <4>2 DEF Step, Register, SendKey, Checkin, Call, Mint, Swap, Unparsed,
             ToolFails, Bind, ProbeOk, Unbind, Rebind, Truncate, Write, WriteReport,
             GotToken, GotKeyId, GotCheckin, CallFails
      <4>3. QED
        BY <2>1, <4>1, <4>2
    <3>2. QED
      BY <1>1, <3>1
  <2>2. CASE AdminRotate
    BY <1>1, <2>0, <2>2 DEF AdminRotate, RequestRotate, Attended
  <2>3. CASE PortalStep
    <3> PICK r \in net : ServeEnroll(r) \/ AuthKeys(r) \/ StoreKey(r)
                           \/ AnswerKeys(r) \/ ServeCheckin(r) \/ Lose(r)
      BY <2>3 DEF PortalStep
    <3>1. r.kind = "keys" /\ r.stage = "authed"
      BY <1>1, <2>0, PortalOne
    <3>2. r.key \in recov /\ r.key \notin stored /\ recov = {key[p]}
      BY <1>1, <2>0, <3>1 DEF KeyAtWork
    <3>3. recov' = recov
      BY <2>3 DEF PortalStep
    <3>4. QED
      BY <3>2, <3>3
  <2>4. CASE UNCHANGED vars
    BY <1>1, <2>4 DEF vars
  <2>5. QED
    BY <1>1, <2>1, <2>2, <2>3, <2>4 DEF Next
<1>2. Sequential /\ [Next]_vars => A
  BY <1>1
<1>3. Sequential /\ [Next]_vars => [A]_vars
  BY <1>2
<1>4. QED
  BY <1>3, SequentialInvariance, PTL DEF Spec, RotationEndsOldKeys
=============================================================================
