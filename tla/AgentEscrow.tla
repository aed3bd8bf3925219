---------------------------- MODULE AgentEscrow ----------------------------
(***************************************************************************)
(* The agent's enroll, rotate and verify commands on one machine, the      *)
(* LUKS recovery slots and files they change, and the portal handlers that *)
(* serve them, with everything in between that can go wrong:               *)
(*                                                                         *)
(*  - several agent processes at once: nothing locks state.json, and the   *)
(*    systemd timer starts verify whatever an operator runs;               *)
(*  - a call whose request or answer is lost, that the portal refuses, or  *)
(*    that the agent gives up on after 30 seconds while the portal still   *)
(*    goes on to serve it (fault "late");                                  *)
(*  - a process that is killed between any two steps (fault "crash"),      *)
(*    including between the truncation and the write of a file;            *)
(*  - an external tool that fails, or that adds the key slot but prints    *)
(*    nothing the agent can parse (fault "unparsed").                      *)
(*                                                                         *)
(* The suspend slot, PCR values and boot classes are left to another       *)
(* module: here verify shows in what it does to the auto-unlock binding,   *)
(* to state.json and to compliance.json.                                   *)
(***************************************************************************)
EXTENDS DeviceStore, FiniteSets

CONSTANTS
  Proc,      \* agent processes that may run on the machine at a time
  Commands,  \* what people and the timer start, among AllCommands
  Faults,    \* the faults that may happen, among AllFaults
  MaxToken,  \* bound: registrations the portal serves
  MaxLate    \* bound: abandoned requests still on their way to the portal

AgentCommands == {"enroll", "rotate", "verify"}
AllCommands == AgentCommands \cup {"request"}  \* an admin asks for a rotation
AllFaults == {"crash", "late", "unparsed"}

ASSUME NoneAssumption == None \notin Key /\ None \notin Proc
ASSUME CommandsAssumption == Commands \subseteq AllCommands
ASSUME FaultsAssumption == Faults \subseteq AllFaults
ASSUME BoundsAssumption == MaxToken \in Nat /\ MaxLate \in Nat

VARIABLES
  minted,      \* recovery keys systemd-cryptenroll has generated
  recov,       \* recovery keys that have a LUKS slot
  bound,       \* the LUKS header has an auto-unlock binding
  stateFile,   \* /var/lib/luksmith/state.json, Blank when absent or unreadable
  compliance,  \* /var/lib/luksmith/compliance.json, likewise
  pc,          \* per process, the next thing it does
  cmd,         \* per process, the command it runs
  mem,         \* per process, its copy of state.json (variable state)
  key,         \* per process, the recovery key it holds in memory
  net          \* requests and answers between the processes and the portal

diskVars  == <<minted, recov, bound>>
fileVars  == <<stateFile, compliance>>
procVars  == <<pc, cmd, mem, key>>
vars == <<storeVars, diskVars, fileVars, procVars, net>>

-----------------------------------------------------------------------------
(* The data.                                                               *)

\* The fields of state.json that enroll, rotate and verify act on: device_id
\* and device_token (one number, 0 when absent), recovery_escrowed,
\* escrow_key_id, tpm_mode (set or not) and luks_device (set or not).
State == [token: Nat, escrowed: BOOLEAN, keyId: Key \cup {None},
          mode: BOOLEAN, device: BOOLEAN]

\* load_json(STATE_PATH, {}) of a file that is missing, empty or not JSON.
Blank == [token |-> 0, escrowed |-> FALSE, keyId |-> None,
          mode |-> FALSE, device |-> FALSE]

Reports == [escrowed: BOOLEAN, keyId: Key \cup {None}, bound: BOOLEAN]

\* write_compliance: what an admin's console is told of the machine.
Report(s) == [escrowed |-> s.escrowed, keyId |-> s.keyId, bound |-> s.mode]

PCs == {"idle", "register", "mint", "swap", "send", "wait", "bind", "probe",
        "rebind", "save", "write", "report", "checkin"}

\* One call of api().  The portal moves the stage on; owner is None once the
\* process that sent it has given up or died.
Request == [owner: Proc \cup {None}, kind: {"enroll", "keys", "checkin"},
            token: Nat, key: Key \cup {None},
            stage: {"sent", "authed", "stored", "ok", "refused"}]

Orphans == {r \in net : r.owner = None}

-----------------------------------------------------------------------------
(* Steps of a process.                                                     *)

Goto(p, l) == pc' = [pc EXCEPT ![p] = l]
SetMem(p, s) == mem' = [mem EXCEPT ![p] = s]

\* The process ends, at the end of its command or in die().
Exit(p) ==
  /\ Goto(p, "idle")
  /\ cmd' = [cmd EXCEPT ![p] = "none"]
  /\ SetMem(p, Blank)
  /\ key' = [key EXCEPT ![p] = None]

Begin(p, c, l) ==
  /\ pc[p] = "idle"
  /\ c \in Commands
  /\ cmd' = [cmd EXCEPT ![p] = c]
  /\ SetMem(p, stateFile)
  /\ Goto(p, l)
  /\ UNCHANGED <<storeVars, diskVars, fileVars, key, net>>

\* Commands that die before they change anything are not steps: rotate and
\* verify of a machine that is not enrolled, rotate of one whose enrollment
\* never came to luks_device.
\* Mutant: registers again whenever enroll runs.
StartEnroll_AlwaysRegister(p) == Begin(p, "enroll", "register")

StartEnroll(p) ==
  Begin(p, "enroll", IF stateFile.token = 0 THEN "register" ELSE "mint")
StartRotate(p) ==
  stateFile.token # 0 /\ stateFile.device /\ Begin(p, "rotate", "swap")
StartVerify(p) ==
  stateFile.token # 0 /\ Begin(p, "verify", "probe")

Call(p, kind, k) ==
  /\ net' = net \cup {[owner |-> p, kind |-> kind, token |-> mem[p].token,
                       key |-> k, stage |-> "sent"]}
  /\ Goto(p, "wait")
  /\ UNCHANGED <<storeVars, diskVars, fileVars, cmd, mem, key>>

Register(p) == pc[p] = "register" /\ Call(p, "enroll", None)
SendKey(p)  == pc[p] = "send" /\ Call(p, "keys", key[p])
Checkin(p)  == pc[p] = "checkin" /\ Call(p, "checkin", None)

\* Mutant: binds before the new key is escrowed.
Mint_BindFirst(p, k) ==
  /\ pc[p] = "mint"
  /\ k \notin minted
  /\ minted' = minted \cup {k}
  /\ recov' = recov \cup {k}
  /\ key' = [key EXCEPT ![p] = k]
  /\ Goto(p, "bind")
  /\ UNCHANGED <<storeVars, bound, fileVars, cmd, mem, net>>

\* enroll_recovery_key: a slot beside the ones there are.
Mint(p, k) ==
  /\ pc[p] = "mint"
  /\ k \notin minted
  /\ minted' = minted \cup {k}
  /\ recov' = recov \cup {k}
  /\ key' = [key EXCEPT ![p] = k]
  /\ Goto(p, "send")
  /\ UNCHANGED <<storeVars, bound, fileVars, cmd, mem, net>>

\* Mutant: wipes first and makes the new slot in a second call.
Swap_WipeFirst(p, k) ==
  /\ pc[p] = "swap"
  /\ recov' = {}
  /\ Goto(p, "mint")
  /\ UNCHANGED <<storeVars, minted, bound, fileVars, cmd, mem, key, net>>

\* Mutant: does not reset recovery_escrowed.
Swap_NoReset(p, k) ==
  /\ pc[p] = "swap"
  /\ k \notin minted
  /\ minted' = minted \cup {k}
  /\ recov' = {k}
  /\ key' = [key EXCEPT ![p] = k]
  /\ Goto(p, "save")
  /\ UNCHANGED <<storeVars, bound, fileVars, cmd, mem, net>>

\* Mutant: --wipe-slot=recovery is forgotten.
Swap_NoWipe(p, k) ==
  /\ pc[p] = "swap"
  /\ k \notin minted
  /\ minted' = minted \cup {k}
  /\ recov' = recov \cup {k}
  /\ key' = [key EXCEPT ![p] = k]
  /\ SetMem(p, [mem[p] EXCEPT !.escrowed = FALSE])
  /\ Goto(p, "save")
  /\ UNCHANGED <<storeVars, bound, fileVars, cmd, net>>

\* rotate's one cryptenroll call wipes every recovery slot but the new one;
\* from here on the agent's copy of the state says un-escrowed.
Swap(p, k) ==
  /\ pc[p] = "swap"
  /\ k \notin minted
  /\ minted' = minted \cup {k}
  /\ recov' = {k}
  /\ key' = [key EXCEPT ![p] = k]
  /\ SetMem(p, [mem[p] EXCEPT !.escrowed = FALSE])
  /\ Goto(p, "save")
  /\ UNCHANGED <<storeVars, bound, fileVars, cmd, net>>

\* The slot is made but its key is not found in the output: die().
Unparsed(p, k) ==
  /\ "unparsed" \in Faults
  /\ pc[p] \in {"mint", "swap"}
  /\ k \notin minted
  /\ minted' = minted \cup {k}
  /\ recov' = IF pc[p] = "mint" THEN recov \cup {k} ELSE {k}
  /\ Exit(p)
  /\ UNCHANGED <<storeVars, bound, fileVars, net>>

\* A tool exits with an error (cryptenroll, openssl, clevis): die().
ToolFails(p) ==
  /\ pc[p] \in {"mint", "swap", "send", "bind", "rebind"}
  /\ Exit(p)
  /\ UNCHANGED <<storeVars, diskVars, fileVars, net>>

\* Step 4 of enroll: bind to the TPM or to Tang, or skip it (--no-tpm).
Bind(p, on) ==
  /\ pc[p] = "bind"
  /\ bound' = (bound \/ on)
  /\ SetMem(p, [mem[p] EXCEPT !.mode = on, !.device = TRUE])
  /\ Goto(p, "save")
  /\ UNCHANGED <<storeVars, minted, recov, fileVars, cmd, key, net>>

\* verify finds nothing to repair, or clevis regen repairs it in place.
ProbeOk(p) ==
  /\ pc[p] = "probe"
  /\ Goto(p, "save")
  /\ UNCHANGED <<storeVars, diskVars, fileVars, cmd, mem, key, net>>

\* verify takes the drifted clevis slot away to bind it afresh.  The exit
\* code of unbind is ignored, and other bindings may remain.
Unbind(p) ==
  /\ pc[p] = "probe"
  /\ mem[p].mode /\ bound
  /\ bound' \in {TRUE, FALSE}
  /\ Goto(p, "rebind")
  /\ UNCHANGED <<storeVars, minted, recov, fileVars, cmd, mem, key, net>>

Rebind(p) ==
  /\ pc[p] = "rebind"
  /\ bound' = TRUE
  /\ Goto(p, "save")
  /\ UNCHANGED <<storeVars, minted, recov, fileVars, cmd, mem, key, net>>

\* save_json(STATE_PATH): open with O_TRUNC ...
Truncate(p) ==
  /\ pc[p] = "save"
  /\ stateFile' = Blank
  /\ Goto(p, "write")
  /\ UNCHANGED <<storeVars, diskVars, compliance, cmd, mem, key, net>>

\* ... then write from the start of the file.  Where another process wrote
\* in between, the tail of a longer text may remain, which is not JSON.
AfterSave(p) == IF cmd[p] = "enroll" /\ key[p] = None THEN "mint" ELSE "report"

Write(p) ==
  /\ pc[p] = "write"
  /\ \/ stateFile' = mem[p]
     \/ stateFile # Blank /\ stateFile' = Blank
  /\ Goto(p, AfterSave(p))
  /\ UNCHANGED <<storeVars, diskVars, compliance, cmd, mem, key, net>>

\* write_compliance, and what the command does after it: rotate reports once
\* before and once after the escrow, verify checks in when its config has a
\* server_url (an enrollment that failed has not saved one).
WriteReport(p) ==
  /\ pc[p] = "report"
  /\ compliance' = Report(mem[p])
  /\ \/ cmd[p] = "enroll" /\ Exit(p)
     \/ cmd[p] = "rotate" /\ mem[p].escrowed /\ Exit(p)
     \/ /\ cmd[p] = "rotate" /\ ~mem[p].escrowed
        /\ Goto(p, "send") /\ UNCHANGED <<cmd, mem, key>>
     \/ cmd[p] = "verify" /\ Exit(p)
     \/ /\ cmd[p] = "verify"
        /\ Goto(p, "checkin") /\ UNCHANGED <<cmd, mem, key>>
  /\ UNCHANGED <<storeVars, diskVars, stateFile, net>>

-----------------------------------------------------------------------------
(* Answers, and the end of waiting for one.                                *)

Answered(p, r, kind) ==
  /\ pc[p] = "wait"
  /\ r \in net /\ r.owner = p /\ r.kind = kind /\ r.stage = "ok"
  /\ net' = net \ {r}

GotToken(p, r) ==
  /\ Answered(p, r, "enroll")
  /\ SetMem(p, [mem[p] EXCEPT !.token = r.token])
  /\ Goto(p, "save")
  /\ UNCHANGED <<storeVars, diskVars, fileVars, cmd, key>>

\* Mutant: keeps the whole answer as the key id.
GotKeyId_WholeAnswer(p, r) ==
  /\ Answered(p, r, "keys")
  /\ SetMem(p, [mem[p] EXCEPT !.escrowed = TRUE, !.keyId = r])
  /\ Goto(p, IF cmd[p] = "enroll" THEN "bind" ELSE "save")
  /\ UNCHANGED <<storeVars, diskVars, fileVars, cmd, key>>

GotKeyId(p, r) ==
  /\ Answered(p, r, "keys")
  /\ SetMem(p, [mem[p] EXCEPT !.escrowed = TRUE, !.keyId = r.key])
  /\ Goto(p, IF cmd[p] = "enroll" THEN "bind" ELSE "save")
  /\ UNCHANGED <<storeVars, diskVars, fileVars, cmd, key>>

GotCheckin(p, r) ==
  /\ Answered(p, r, "checkin")
  /\ Exit(p)
  /\ UNCHANGED <<storeVars, diskVars, fileVars>>

\* The requests of p are no longer awaited: they are lost, or the portal
\* may still serve them.
Abandon(p) ==
  LET mine == {r \in net : r.owner = p}
  IN  \/ net' = net \ mine
      \/ /\ "late" \in Faults
         /\ Cardinality(Orphans) < MaxLate
         /\ net' = (net \ mine) \cup
                   {[r EXCEPT !.owner = None] :
                       r \in {m \in mine : m.stage \notin {"ok", "refused"}}}

\* Mutant: api() without timeout waits until it is refused.
CallFails_NoTimeout(p) ==
  /\ pc[p] = "wait"
  /\ \E r \in net : r.owner = p /\ r.stage = "refused"
  /\ Abandon(p)
  /\ Exit(p)
  /\ UNCHANGED <<storeVars, diskVars, fileVars>>

\* api() dies: on an HTTP error, a lost connection, or the 30 s timeout.
CallFails(p) ==
  /\ pc[p] = "wait"
  /\ Abandon(p)
  /\ Exit(p)
  /\ UNCHANGED <<storeVars, diskVars, fileVars>>

\* The process is killed, by a signal or with the whole machine.  A report
\* it was writing may be left empty.
Crash(p) ==
  /\ "crash" \in Faults
  /\ pc[p] # "idle"
  /\ Abandon(p)
  /\ Exit(p)
  /\ \/ UNCHANGED compliance
     \/ pc[p] = "report" /\ compliance' = Report(Blank)
  /\ UNCHANGED <<storeVars, diskVars, stateFile>>

-----------------------------------------------------------------------------
(* The portal.  Each step of a handler is one call of Store; the audit row *)
(* is written before the answer goes out.                                  *)

\* Nobody reads the answer to an abandoned request.
Reply(r, a) == net' = (net \ {r}) \cup (IF r.owner = None THEN {} ELSE {a})
Advance(r, s) == net' = (net \ {r}) \cup {[r EXCEPT !.stage = s]}
Refuse(r) == Reply(r, [r EXCEPT !.stage = "refused"])

ServeEnroll(r) ==
  /\ r.kind = "enroll" /\ r.stage = "sent"
  /\ token < MaxToken
  /\ EnrollDevice
  /\ Reply(r, [r EXCEPT !.stage = "ok", !.token = token + 1])

\* Mutant: answers before the key and its audit row are written.
AuthKeys_AnswerFirst(r) ==
  /\ r.kind = "keys" /\ r.stage = "sent"
  /\ IF KnowsToken(r.token)
     THEN Reply(r, [r EXCEPT !.stage = "ok"]) ELSE Refuse(r)
  /\ UNCHANGED storeVars

AuthKeys(r) ==
  /\ r.kind = "keys" /\ r.stage = "sent"
  /\ IF KnowsToken(r.token) THEN Advance(r, "authed") ELSE Refuse(r)
  /\ UNCHANGED storeVars

StoreKey(r) ==
  /\ r.kind = "keys" /\ r.stage = "authed"
  /\ Escrow(r.key)
  /\ Advance(r, "stored")

AnswerKeys(r) ==
  /\ r.kind = "keys" /\ r.stage = "stored"
  /\ AuditEscrow(r.key)
  /\ Reply(r, [r EXCEPT !.stage = "ok"])

\* The token check and the check-in are two store calls, of which the second only
\* notes when and how the machine booted: one step.
ServeCheckin(r) ==
  /\ r.kind = "checkin" /\ r.stage = "sent"
  /\ IF KnowsToken(r.token)
     THEN Reply(r, [r EXCEPT !.stage = "ok"]) ELSE Refuse(r)
  /\ UNCHANGED storeVars

\* The connection breaks, or the portal stops in the middle of a handler.
Lose(r) == net' = net \ {r} /\ UNCHANGED storeVars

PortalStep ==
  /\ \E r \in net :
       ServeEnroll(r) \/ AuthKeys(r) \/ StoreKey(r) \/ AnswerKeys(r)
         \/ ServeCheckin(r) \/ Lose(r)
  /\ UNCHANGED <<diskVars, fileVars, procVars>>

AdminRotate ==
  /\ "request" \in Commands
  /\ RequestRotate
  /\ UNCHANGED <<diskVars, fileVars, procVars, net>>

-----------------------------------------------------------------------------
Init ==
  /\ StoreInit
  /\ minted = {}
  /\ recov = {}
  /\ bound = FALSE
  /\ stateFile = Blank
  /\ compliance = Report(Blank)
  /\ pc = [p \in Proc |-> "idle"]
  /\ cmd = [p \in Proc |-> "none"]
  /\ mem = [p \in Proc |-> Blank]
  /\ key = [p \in Proc |-> None]
  /\ net = {}

Start(p) == StartEnroll(p) \/ StartRotate(p) \/ StartVerify(p)

\* What a process does once it is started, until it ends.
Step(p) ==
  \/ Register(p) \/ SendKey(p) \/ Checkin(p)
  \/ \E k \in Key : Mint(p, k) \/ Swap(p, k) \/ Unparsed(p, k)
  \/ ToolFails(p)
  \/ \E on \in BOOLEAN : Bind(p, on)
  \/ ProbeOk(p) \/ Unbind(p) \/ Rebind(p)
  \/ Truncate(p) \/ Write(p) \/ WriteReport(p)
  \/ \E r \in net : GotToken(p, r) \/ GotKeyId(p, r) \/ GotCheckin(p, r)
  \/ CallFails(p)

Next ==
  \/ \E p \in Proc : Start(p) \/ Step(p) \/ Crash(p)
  \/ PortalStep
  \/ AdminRotate

\* The scheduler runs every process, the tools it calls return, and api()
\* has a timeout: a command that is running keeps going.  Nothing is assumed
\* of the portal, of the network or of when commands are started.
Fairness == \A p \in Proc : WF_vars(Step(p))

Spec == Init /\ [][Next]_vars /\ Fairness

-----------------------------------------------------------------------------
(* Properties.                                                             *)

\* Every variable stays in its set.
TypeOK ==
  /\ token \in Nat /\ rotateRequested \in BOOLEAN
  /\ stored \subseteq Key /\ audited \subseteq Key
  /\ active \in Key \cup {None}
  /\ minted \subseteq Key /\ recov \subseteq Key
  /\ bound \in BOOLEAN
  /\ stateFile \in State
  /\ compliance \in Reports
  /\ pc \in [Proc -> PCs]
  /\ cmd \in [Proc -> AgentCommands \cup {"none"}]
  /\ mem \in [Proc -> State]
  /\ key \in [Proc -> Key \cup {None}]
  /\ net \subseteq Request

\* Whatever says "escrowed" (state.json, compliance.json, the copy of the
\* state a process will save) names a key that the portal has stored and
\* written to its audit log, through every crash, lost answer and overwrite.
Claim(c) == c.escrowed => c.keyId \in stored \cap audited

EscrowedClaimIsTrue ==
  Claim(stateFile) /\ Claim(compliance) /\ \A p \in Proc : Claim(mem[p])

\* The escrow-first gate of cmd_enroll: a process about to bind has had its
\* own key stored and audited, and no machine has an auto-unlock binding
\* while the portal has no recovery key of it.
EscrowFirstGate ==
  /\ \A p \in Proc : pc[p] = "bind" => key[p] \in stored \cap audited
  /\ bound => stored \cap audited # {}

\* Until a rotation wipes a recovery slot, a machine that unlocks by itself
\* can be recovered with the key the portal would reveal, whatever order
\* enrollments, late requests and crashes come in.
EnrollIsRecoverable == bound /\ recov = minted => active \in recov

\* The agent and the portal together keep the promise of EscrowFirst.
EF == INSTANCE EscrowFirst
        WITH made <- minted, opens <- recov, vault <- stored, auto <- bound
ImplementsEscrowFirst == EF!Spec

\* A rotation between the wipe of the old slots and its first report.
Rotating(p) ==
  /\ cmd[p] = "rotate" /\ ~mem[p].escrowed
  /\ pc[p] \in {"save", "write", "report"}

\* When compliance.json says the key is escrowed, the key the portal would
\* reveal opens the disk.  This is what the docstring of cmd_rotate promises;
\* it takes commands that run one at a time and are not killed.
ReportIsHonest ==
  compliance.escrowed /\ (\A p \in Proc : ~Rotating(p)) => active \in recov

\* The token in state.json is the one the portal accepts: enroll never
\* registers again once it has one, so a dead token would stay for ever.
TokenIsCurrent == stateFile.token \in {0, token}

\* README: after a rotation the old key no longer opens the disk.  When the
\* escrow of a running rotation clears the administrator's request, no key
\* that was in escrow before has a slot left.
RotationEndsOldKeys ==
  [][rotateRequested /\ ~rotateRequested'
       /\ (\E p \in Proc : cmd[p] = "rotate" /\ pc[p] = "wait")
     => stored \cap recov' = {}]_vars

AtRest == \A p \in Proc : pc[p] = "idle"

\* README: a machine can never end up conveniently unlocked but
\* unrecoverable.  Once no command runs, a machine with an auto-unlock
\* binding has a recovery slot whose key the portal holds.  A rotation whose
\* escrow fails has already wiped that slot.
NeverUnlockedUnrecoverable == AtRest /\ bound => stored \cap recov # {}

\* cmd_rotate: if the escrow after the wipe fails, compliance.json flags the
\* machine un-escrowed until a retry succeeds.  A command that loaded
\* state.json before the rotation saves its older copy over that flag, in
\* both files.
FailedEscrowIsFlagged ==
  AtRest /\ compliance.escrowed /\ stateFile.escrowed => active \in recov

\* Every command that is started ends, whatever the portal does.
CommandsEnd == \A p \in Proc : pc[p] # "idle" ~> pc[p] = "idle"
=============================================================================
