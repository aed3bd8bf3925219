---------------------------- MODULE SuspendCycle ----------------------------
(***************************************************************************)
(* Suspension, PCR drift and reboots on one machine: the agent's suspend,  *)
(* verify, rotate and enroll commands as far as they act on the numbered   *)
(* slots of the LUKS header, on the PCR baseline and on the suspended flag *)
(* of state.json, the systemd timer that starts verify, and firmware       *)
(* updates that change PCR 7 with a reboot.                                *)
(*                                                                         *)
(* The escrow itself is the subject of AgentEscrow: here an enrollment or  *)
(* a rotation is the steps that change the header, and loading and saving  *)
(* state.json is one step each.                                            *)
(***************************************************************************)
EXTENDS Naturals, FiniteSets

CONSTANTS
  Proc,      \* agent processes that may run at a time
  Slot,      \* numbers of the LUKS key slots (the passphrase slot is not one)
  Pcr,       \* values PCR 7 takes
  None,      \* no slot number, no reading of PCR 7
  Modes      \* tpm_mode of the enrollment: clevis or systemd

ASSUME SlotAssumption == Slot \subseteq Nat /\ IsFiniteSet(Slot)
ASSUME PcrAssumption ==
  Pcr \cap {"free", "recovery", "clevisTemp", "systemdTemp"} = {}
ASSUME NoneAssumption == None \notin Slot /\ None \notin Pcr
ASSUME ModesAssumption == Modes \subseteq {"clevis", "systemd"}

VARIABLES
  mode,          \* the tpm_mode enroll uses on this machine
  slots,         \* the LUKS header: what each slot holds
  pcr,           \* PCR 7 of the running boot
  file,          \* state.json
  pc, mem,       \* per process: its next step, its copy of state.json
  drift,         \* per process: verify's local variable drift
  rebooted,      \* history: the PCR-less slot was there at the last reboot
  clean          \* history: no command was killed, overlapped another one,
                 \* lost the number of its slot or a binding on the way

machineVars == <<mode, slots, pcr>>
historyVars == <<rebooted, clean>>
procVars    == <<pc, mem, drift>>
vars == <<machineVars, file, procVars, historyVars>>

\* A slot is free, holds a recovery key, the PCR-less protector that one of
\* the two tools made for a suspension, or a protector bound to a value of
\* PCR 7, which is the work of the tool that enroll uses.
Temp    == {"clevisTemp", "systemdTemp"}
Content == {"free", "recovery"} \cup Temp \cup Pcr

\* device_id set or not, tpm_mode set or not, pcr7_baseline, suspended,
\* suspend_slot.
State == [enrolled: BOOLEAN, bound: BOOLEAN, baseline: Pcr \cup {None},
          suspended: BOOLEAN, slot: Slot \cup {None}]

Blank == [enrolled |-> FALSE, bound |-> FALSE, baseline |-> None,
          suspended |-> FALSE, slot |-> None]

PCs == {"idle", "addTemp", "probe", "check", "regen", "rebind", "clear", "swap",
        "addKey", "bind", "save"}

-----------------------------------------------------------------------------
(* The LUKS header, as cryptsetup, systemd-cryptenroll and clevis use it.  *)

Unseals(s) == slots[s] \in Temp \cup {pcr}
FreeSlots  == {s \in Slot : slots[s] = "free"}
Lowest(S)  == CHOOSE s \in S : \A t \in S : s <= t
Fill(s, c) == slots' = [slots EXCEPT ![s] = c]

\* What clevis lists as its own tpm2 bindings, with or without PCRs.
ClevisSlots ==
  {s \in Slot : slots[s] = "clevisTemp" \/ (mode = "clevis" /\ slots[s] \in Pcr)}

\* tpm_bind, in either mode: a free slot is bound to the current PCR value.
TpmBind == FreeSlots # {} /\ Fill(Lowest(FreeSlots), pcr)

TempSlots == {s \in Slot : slots[s] \in Temp}
HasRecovery == \E s \in Slot : slots[s] = "recovery"

\* clevis_tpm2_slots without the suspend slot: what verify may regenerate.
MainSlots(m) == ClevisSlots \ {m.slot}

\* suspend and clear_suspension use clevis where the state has no tpm_mode.
BySystemd(m) == m.bound /\ mode = "systemd"

\* read_pcr7: the value of PCR 7, or None where tpm2_pcrread fails.
Reading == {pcr, None}

-----------------------------------------------------------------------------
Goto(p, l) == pc' = [pc EXCEPT ![p] = l]
SetMem(p, m) == mem' = [mem EXCEPT ![p] = m]

Alone(p) == \A q \in Proc \ {p} : pc[q] = "idle"

Exit(p) ==
  /\ Goto(p, "idle")
  /\ SetMem(p, Blank)
  /\ drift' = [drift EXCEPT ![p] = FALSE]

\* A command starts and loads state.json.
Begin(p, l, m) ==
  /\ pc[p] = "idle"
  /\ Goto(p, l)
  /\ SetMem(p, m)
  /\ clean' = (clean /\ \A q \in Proc : pc[q] = "idle")
  /\ UNCHANGED <<machineVars, drift, rebooted>>

\* do_suspend returns at once when the state says suspended, and does not
\* ask whether the machine is enrolled.
StartSuspend(p) == ~file.suspended /\ Begin(p, "addTemp", file) /\ UNCHANGED file
StartVerify(p)  == file.enrolled /\ Begin(p, "probe", file) /\ UNCHANGED file
StartVerifyNoRegen(p) == file.enrolled /\ Begin(p, "check", file) /\ UNCHANGED file
StartRotate(p)  == file.enrolled /\ Begin(p, "swap", file) /\ UNCHANGED file

\* enroll registers the machine and saves the device_id first.
StartEnroll(p) ==
  /\ Begin(p, "addKey", [file EXCEPT !.enrolled = TRUE])
  /\ file' = [file EXCEPT !.enrolled = TRUE]

\* A tool fails and the command dies, or finds no free slot.
ToolFails(p) ==
  /\ pc[p] \in {"addTemp", "swap", "addKey", "bind", "rebind"}
  /\ clean' = (clean /\ pc[p] # "rebind")
  /\ Exit(p)
  /\ UNCHANGED <<machineVars, file, rebooted>>

\* The temporary protector.  Its slot number is parsed from the output of
\* systemd-cryptenroll, or taken from clevis's listings before and after; it
\* may be missed, and the slot another process binds in between may be
\* mistaken for it.
AddTemp(p) ==
  /\ pc[p] = "addTemp" /\ FreeSlots # {}
  /\ LET new == Lowest(FreeSlots) IN
     /\ Fill(new, IF BySystemd(mem[p]) THEN "systemdTemp" ELSE "clevisTemp")
     /\ \E s \in {new, None}
              \cup (IF Alone(p) \/ BySystemd(mem[p]) THEN {} ELSE ClevisSlots) :
          /\ SetMem(p, [mem[p] EXCEPT !.suspended = TRUE, !.slot = s])
          /\ clean' = (clean /\ s = new)
  /\ rebooted' = FALSE
  /\ Goto(p, "save")
  /\ UNCHANGED <<mode, pcr, file, drift>>

\* classify_boot: the first protector cannot be unsealed now.  In systemd mode
\* the journal is asked; nothing but the report depends on the answer.
FellBack(m) ==
  /\ m.bound /\ mode = "clevis"
  /\ ClevisSlots # {} /\ ~Unseals(Lowest(ClevisSlots))

\* No drift without a baseline or without a reading.
Drifted(m, current) ==
  m.baseline # None /\ current # None /\ current # m.baseline

\* Mutant: the condition for the rebinding is never met.
Probe_NoRegen(p) ==
  /\ pc[p] = "probe"
  /\ \E current \in Reading : drift' = [drift EXCEPT ![p] = Drifted(mem[p], current)]
  /\ Goto(p, "clear")
  /\ UNCHANGED <<machineVars, file, mem, historyVars>>

Probe(p) ==
  /\ pc[p] = "probe"
  /\ \E current \in Reading :
       /\ drift' = [drift EXCEPT ![p] = Drifted(mem[p], current)]
       /\ Goto(p, IF \/ FellBack(mem[p])
                     \/ Drifted(mem[p], current) /\ mem[p].bound /\ mode = "clevis"
                  THEN "regen" ELSE "clear")
  /\ UNCHANGED <<machineVars, file, mem, historyVars>>

\* verify --no-regen
Check(p) ==
  /\ pc[p] = "check"
  /\ \E current \in Reading : drift' = [drift EXCEPT ![p] = Drifted(mem[p], current)]
  /\ Goto(p, "clear")
  /\ UNCHANGED <<machineVars, file, mem, historyVars>>

\* The baseline is read anew, or lost where PCR 7 cannot be read, and the
\* drift is over.
Rebound(p) ==
  /\ \E current \in Reading : SetMem(p, [mem[p] EXCEPT !.baseline = current])
  /\ drift' = [drift EXCEPT ![p] = FALSE]
  /\ Goto(p, "clear")

\* clevis luks regen binds the slot to the current PCR value; it needs some
\* protector that still unseals.
Regen(p) ==
  /\ pc[p] = "regen"
  /\ MainSlots(mem[p]) # {} /\ \E s \in ClevisSlots : Unseals(s)
  /\ Fill(Lowest(MainSlots(mem[p])), pcr)
  /\ Rebound(p)
  /\ UNCHANGED <<mode, pcr, file, historyVars>>

\* Mutant: a failed regen counts as one that worked.
NoRegen_ExitCodeIgnored(p) ==
  /\ pc[p] = "regen"
  /\ Rebound(p)
  /\ UNCHANGED <<machineVars, file, historyVars>>

\* Nothing to regenerate; or regen fails, for want of a protector that
\* unseals or for any other reason, and there is no --unlock-key-file.
NoRegen(p) ==
  /\ pc[p] = "regen"
  /\ Goto(p, "clear")
  /\ UNCHANGED <<machineVars, file, mem, drift, historyVars>>

\* regen fails, for whatever reason, and with --unlock-key-file the slot is
\* unbound, which may fail unnoticed ...
UnbindMain(p) ==
  /\ pc[p] = "regen"
  /\ MainSlots(mem[p]) # {}
  /\ Fill(Lowest(MainSlots(mem[p])), "free") \/ UNCHANGED slots
  /\ Goto(p, "rebind")
  /\ UNCHANGED <<mode, pcr, file, mem, drift, historyVars>>

\* ... and bound again.
Rebind(p) ==
  /\ pc[p] = "rebind"
  /\ TpmBind
  /\ Rebound(p)
  /\ UNCHANGED <<mode, pcr, file, historyVars>>

\* clear_suspension, when the state is suspended and no drift is left.
\* clevis unbinds a slot only if it is one of its own, systemd-cryptenroll
\* wipes whatever the slot holds.  A failure leaves the machine suspended.
\* Mutant: the slot is killed by its number in either mode.
Wipeable_ByNumber(m, s) == slots[s] # "free"

Wipeable(m, s) ==
  IF BySystemd(m) THEN slots[s] # "free" ELSE s \in ClevisSlots

\* Mutant: the record loses the field for good.
Unflagged_DropsField(m) ==
  [enrolled |-> m.enrolled, bound |-> m.bound, baseline |-> m.baseline,
   suspended |-> FALSE]

Unflagged(m) == [m EXCEPT !.suspended = FALSE, !.slot = None]

\* Mutant: the flag is dropped, the slot stays.
Clear_FlagOnly(p) ==
  /\ pc[p] = "clear"
  /\ mem[p].suspended /\ ~drift[p]
  /\ SetMem(p, Unflagged(mem[p]))
  /\ Goto(p, "save")
  /\ UNCHANGED <<machineVars, file, drift, historyVars>>

Clear(p) ==
  /\ pc[p] = "clear"
  /\ mem[p].suspended /\ ~drift[p]
  /\ IF mem[p].slot = None
     THEN UNCHANGED slots
     ELSE Wipeable(mem[p], mem[p].slot) /\ Fill(mem[p].slot, "free")
  /\ SetMem(p, Unflagged(mem[p]))
  /\ Goto(p, "save")
  /\ UNCHANGED <<mode, pcr, file, drift, historyVars>>

\* Not suspended, or a drift is left, or the tool fails on the slot: for what
\* the slot holds or for any other reason.
NoClear(p) ==
  /\ pc[p] = "clear"
  /\ mem[p].suspended => drift[p] \/ mem[p].slot # None
  /\ Goto(p, "save")
  /\ UNCHANGED <<machineVars, file, mem, drift, historyVars>>

\* rotate: the new recovery slot, then the old ones wiped, in one call.  If
\* the key cannot be read from the output the command ends without a save.
Swap(p) ==
  /\ pc[p] = "swap" /\ FreeSlots # {}
  /\ slots' = [s \in Slot |->
                 IF s = Lowest(FreeSlots) THEN "recovery"
                 ELSE IF slots[s] = "recovery" THEN "free" ELSE slots[s]]
  /\ \/ Goto(p, "save") /\ UNCHANGED <<mem, drift>>
     \/ Exit(p)
  /\ UNCHANGED <<mode, pcr, file, historyVars>>

\* enroll: the recovery slot and its escrow, then the binding.
AddKey(p) ==
  /\ pc[p] = "addKey" /\ FreeSlots # {}
  /\ Fill(Lowest(FreeSlots), "recovery")
  /\ Goto(p, "bind")
  /\ UNCHANGED <<mode, pcr, file, mem, drift, rebooted, clean>>

\* The baseline may be unreadable: drift detection is then disabled.
BindTpm(p) ==
  /\ pc[p] = "bind"
  /\ TpmBind
  /\ \E current \in Reading :
       SetMem(p, [mem[p] EXCEPT !.bound = TRUE, !.baseline = current])
  /\ Goto(p, "save")
  /\ UNCHANGED <<mode, pcr, file, drift, historyVars>>

\* --no-tpm: tpm_mode is None from now on; a baseline of an earlier
\* enrollment stays.
SkipTpm(p) ==
  /\ pc[p] = "bind"
  /\ SetMem(p, [mem[p] EXCEPT !.bound = FALSE])
  /\ Goto(p, "save")
  /\ UNCHANGED <<machineVars, file, drift, historyVars>>

Save(p) ==
  /\ pc[p] = "save"
  /\ file' = mem[p]
  /\ Exit(p)
  /\ UNCHANGED <<machineVars, historyVars>>

\* The process is killed; a save it was at may leave an empty file.
Crash(p) ==
  /\ pc[p] # "idle"
  /\ \/ UNCHANGED file
     \/ pc[p] = "save" /\ file' = Blank
  /\ clean' = FALSE
  /\ Exit(p)
  /\ UNCHANGED <<machineVars, rebooted>>

\* PCR 7 is as the firmware, updated or not, makes it.
Reboot ==
  /\ pcr' \in Pcr
  /\ clean' = (clean /\ \A p \in Proc : pc[p] = "idle")
  /\ rebooted' = (clean' /\ TempSlots # {})
  /\ pc' = [p \in Proc |-> "idle"]
  /\ mem' = [p \in Proc |-> Blank]
  /\ drift' = [p \in Proc |-> FALSE]
  /\ UNCHANGED <<mode, slots, file>>

-----------------------------------------------------------------------------
Init ==
  /\ mode \in Modes
  /\ slots = [s \in Slot |-> "free"]
  /\ pcr \in Pcr
  /\ file = Blank
  /\ pc = [p \in Proc |-> "idle"]
  /\ mem = [p \in Proc |-> Blank]
  /\ drift = [p \in Proc |-> FALSE]
  /\ rebooted = FALSE
  /\ clean = TRUE

Start(p) ==
  \/ StartSuspend(p) \/ StartVerify(p) \/ StartVerifyNoRegen(p)
  \/ StartRotate(p) \/ StartEnroll(p)

Step(p) ==
  \/ ToolFails(p) \/ AddTemp(p)
  \/ Probe(p) \/ Check(p) \/ Regen(p) \/ NoRegen(p) \/ UnbindMain(p) \/ Rebind(p)
  \/ Clear(p) \/ NoClear(p)
  \/ Swap(p) \/ AddKey(p) \/ BindTpm(p) \/ SkipTpm(p) \/ Save(p)

Next ==
  \/ \E p \in Proc : Start(p) \/ Step(p) \/ Crash(p)
  \/ Reboot

\* Started commands go on, and luksmith-verify.timer starts verify after
\* every boot and every day, whatever else is run on the machine.
Fairness ==
  /\ \A p \in Proc : WF_vars(Step(p))
  /\ SF_vars(\E p \in Proc : StartVerify(p))

\* An assumption about the environment, not about the code: a tool that could
\* do its work does not fail for ever.  A verify may fail to rebind or to
\* remove the slot any number of times, but one that can does in the end.
ToolsRecover ==
  /\ SF_vars(\E p \in Proc : Regen(p))
  /\ SF_vars(\E p \in Proc : Clear(p))

Spec == Init /\ [][Next]_vars /\ Fairness /\ ToolsRecover

-----------------------------------------------------------------------------
(* Properties.                                                             *)

TypeOK ==
  /\ mode \in Modes
  /\ slots \in [Slot -> Content]
  /\ pcr \in Pcr
  /\ file \in State
  /\ pc \in [Proc -> PCs]
  /\ mem \in [Proc -> State]
  /\ drift \in [Proc -> BOOLEAN]
  /\ rebooted \in BOOLEAN /\ clean \in BOOLEAN

AtRest == \A p \in Proc : pc[p] = "idle"

\* state.json knows the PCR-less slots: a suspended machine has exactly the
\* one it names, so the next boot unlocks by itself and verify removes the
\* right slot, and a machine that is not suspended has none.
TempIsTracked ==
  clean /\ AtRest =>
    TempSlots = IF file.suspended THEN {file.slot} ELSE {}

\* No drift means auto-unlock: where the baseline is the PCR value of the
\* machine, a protector is bound to that value.
BaselineMeansUnlock ==
  clean /\ AtRest /\ file.bound /\ file.baseline = pcr =>
    \E s \in Slot : slots[s] = pcr

\* A machine that has a recovery slot keeps one: removing a suspension never
\* takes it away.  With clevis this holds even after kills and overlaps, when
\* the slot number in the state is stale.
RecoveryKept ==
  [][HasRecovery /\ (mode = "clevis" \/ clean) => HasRecovery']_vars

\* README: a suspension lasts one reboot, then verify ends it.  On an enrolled
\* clevis machine it does, if the tools recover: after a drift verify first
\* rebinds, by means of the suspend slot, and then removes that slot.  It
\* cannot where enroll --no-tpm left the baseline of an earlier enrollment:
\* without a tpm_mode nothing is rebound, and a drift from it is for good.
Suspended == clean /\ file.enrolled /\ file.suspended
Ended == ~file.suspended \/ ~clean
Rebindable == file.bound \/ file.baseline = None

ClevisSuspensionEnds ==
  (mode = "clevis" /\ Suspended /\ Rebindable) ~> (Ended \/ ~Rebindable)

\* The same of any machine that is bound, whatever the mode.
SuspensionEnds == (Suspended /\ file.bound) ~> (Ended \/ ~file.bound)

\* do_suspend: the next reboot auto-unlocks, and verify removes the slot
\* after that one boot, so not before it.
SuspendedUntilReboot ==
  [][TempSlots # {} /\ TempSlots' = {} /\ clean => rebooted]_vars

=============================================================================
