------------------------------ MODULE Volumes ------------------------------
(***************************************************************************)
(* One machine with several LUKS volumes.  Commands take --device, but     *)
(* state.json has one luks_device, one suspended flag and one slot number, *)
(* and the portal reveals one key per machine.  This module is about which *)
(* volume a command acts on: which one it is given, finds in the state or  *)
(* picks, and what becomes of the others.                                  *)
(*                                                                         *)
(* Commands run one after another here and are whole steps, each with the  *)
(* points at which a tool or the portal fails it; overlaps and kills are   *)
(* the subject of AgentEscrow, PCR values that of SuspendCycle.            *)
(***************************************************************************)
EXTENDS Naturals

CONSTANTS
  Volume,   \* LUKS volumes of the machine
  Slot,     \* numbers of the key slots of a volume (without the passphrase)
  Key,      \* recovery keys
  Modes,    \* values of --mode that enroll is given
  None      \* no volume, no key, no mode; a free slot

ASSUME SlotAssumption == Slot \subseteq Nat
ASSUME ModesAssumption == Modes \subseteq {"clevis", "systemd", "tang"}
ASSUME NoneAssumption ==
  None \notin Volume /\ None \notin Slot /\ None \notin Key /\ None \notin Modes

VARIABLES
  disks,    \* the volumes lsblk lists
  header,   \* what each slot of each volume holds
  state,    \* state.json
  active,   \* the key the portal reveals of the machine
  minted,   \* recovery keys systemd-cryptenroll has generated
  named,    \* history: the volumes that commands were given or picked
  unread,   \* history: the last rotation printed a key nobody could read
  lost      \* history: temporary slots whose number suspend did not find

historyVars == <<named, unread, lost>>
vars == <<disks, header, state, active, minted, historyVars>>

\* A protector that unlocks without a human: made by clevis or by
\* systemd-cryptenroll, for good or for one suspension.
Protector == [tool: {"clevis", "systemd"}, temp: BOOLEAN]
ASSUME KeyAssumption == None \notin Protector /\ Key \cap Protector = {}

Header == [Slot -> Key \cup Protector \cup {None}]

\* device_id set or not, luks_device, tpm_mode, recovery_escrowed, suspended,
\* suspend_slot.
State == [enrolled: BOOLEAN, device: Volume \cup {None}, mode: Modes \cup {None},
          escrowed: BOOLEAN, suspended: BOOLEAN, slot: Slot \cup {None}]

Free(hd)   == {s \in Slot : hd[s] = None}
Lowest(S)  == CHOOSE s \in S : \A t \in S : s <= t
Put(hd, c) == [hd EXCEPT ![Lowest(Free(hd))] = c]
KeysOn(v)  == {header[v][s] : s \in Slot} \cap Key
Temps(v)   == {s \in Slot : header[v][s] \in Protector /\ header[v][s].temp}
BoundOn(v) == \E s \in Slot : header[v][s] \in Protector /\ ~header[v][s].temp

\* pick_device: the volume given, else the only one; several are an error.
Pick(d) == IF d = None THEN {v \in disks : disks = {v}} ELSE {d} \cap disks

-----------------------------------------------------------------------------
(* enroll.                                                                 *)

\* tpm_bind: tang is bound by clevis as well; None is --no-tpm.
Bound(hd, m) ==
  IF m = None THEN hd
  ELSE Put(hd, [tool |-> IF m = "systemd" THEN "systemd" ELSE "clevis", temp |-> FALSE])

\* The machine is registered, then systemd-cryptenroll fails.
EnrollFails(v) ==
  /\ ~state.enrolled
  /\ state' = [state EXCEPT !.enrolled = TRUE]
  /\ named' = named \cup {v}
  /\ UNCHANGED <<disks, header, active, minted, unread, lost>>

\* Any other enrollment registers first and makes a new recovery slot.
Begins(v, k) ==
  /\ k \in Key \ minted /\ Free(header[v]) # {}
  /\ minted' = minted \cup {k}
  /\ named' = named \cup {v}
  /\ UNCHANGED <<disks, lost>>

\* The key cannot be read from the output, or openssl, the network or the
\* portal fails: the key has a slot, nobody has it.
EnrollUnescrowed(v, k) ==
  /\ Begins(v, k)
  /\ header' = [header EXCEPT ![v] = Put(@, k)]
  /\ state' = [state EXCEPT !.enrolled = TRUE]
  /\ UNCHANGED <<active, unread>>

\* The binding fails after the escrow: state.json is not saved.
EnrollUnbound(v, k) ==
  /\ Begins(v, k)
  /\ header' = [header EXCEPT ![v] = Put(@, k)]
  /\ active' = k /\ unread' = FALSE
  /\ state' = [state EXCEPT !.enrolled = TRUE]

\* Mutant: the key is made on the volume of the state, the binding on the one
\* that was given.
Enroll_KeyElsewhere(v, k, m) ==
  /\ Begins(v, k)
  /\ header' = [header EXCEPT ![v] = Bound(@, m)]
  /\ active' = k /\ unread' = FALSE
  /\ state' = [state EXCEPT !.enrolled = TRUE, !.device = v, !.mode = m, !.escrowed = TRUE]

Enroll(v, k, m) ==
  /\ Begins(v, k)
  /\ m # None => Free(Put(header[v], k)) # {}
  /\ header' = [header EXCEPT ![v] = Bound(Put(@, k), m)]
  /\ active' = k /\ unread' = FALSE
  /\ state' = [state EXCEPT !.enrolled = TRUE, !.device = v, !.mode = m, !.escrowed = TRUE]

-----------------------------------------------------------------------------
(* rotate, on the volume that the state names.                             *)

\* --wipe-slot=recovery --recovery-key: the new slot, and no other key left.
Swapped(hd, k) ==
  [s \in Slot |-> IF s = Lowest(Free(hd)) THEN k ELSE IF hd[s] \in Key THEN None ELSE hd[s]]

Rotates(k) ==
  /\ state.enrolled /\ state.device # None
  /\ k \in Key \ minted /\ Free(header[state.device]) # {}
  /\ minted' = minted \cup {k}
  /\ header' = [header EXCEPT ![state.device] = Swapped(@, k)]
  /\ UNCHANGED <<disks, named, lost>>

\* The key cannot be read from the output: the command dies before it flags
\* the machine, with the old slots gone.
RotateUnread(k) ==
  /\ Rotates(k)
  /\ unread' = TRUE
  /\ UNCHANGED <<state, active>>

\* openssl, the network or the portal fails: the machine is flagged.
RotateUnescrowed(k) ==
  /\ Rotates(k)
  /\ state' = [state EXCEPT !.escrowed = FALSE]
  /\ unread' = FALSE
  /\ UNCHANGED active

Rotate(k) ==
  /\ Rotates(k)
  /\ active' = k /\ unread' = FALSE
  /\ state' = [state EXCEPT !.escrowed = TRUE]

-----------------------------------------------------------------------------
(* suspend and verify.                                                     *)

\* Mutant: the tool is the mode, which may be tang or missing.
TempOf_ModeAsTool(m) == [tool |-> m, temp |-> TRUE]

\* do_suspend: only the mode "clevis", which is also the default, uses clevis.
TempOf(m) == [tool |-> IF m \in {"clevis", None} THEN "clevis" ELSE "systemd", temp |-> TRUE]

\* The number of the new slot may not be found: the suspension then has none.
SuspendOn(v) ==
  /\ ~state.suspended /\ Free(header[v]) # {}
  /\ header' = [header EXCEPT ![v] = Put(@, TempOf(state.mode))]
  /\ LET new == Lowest(Free(header[v])) IN
     \E slot \in {new, None} :
       /\ state' = [state EXCEPT !.device = v, !.suspended = TRUE, !.slot = slot]
       /\ lost' = IF slot = None THEN [lost EXCEPT ![v] = @ \cup {new}] ELSE lost
  /\ named' = named \cup {v}
  /\ UNCHANGED <<disks, active, minted, unread>>

\* suspend: --device replaces the luks_device of the state, for good.
Suspend(d) ==
  \E v \in (IF d = None /\ state.device # None THEN {state.device} ELSE Pick(d)) : SuspendOn(v)

\* check-updates --suspend, when an update with the flag affects-fde is
\* pending, knows no --device.
CheckUpdates == Suspend(None)

\* clevis unbinds its own slots only; systemd-cryptenroll wipes any slot.
Removable(v, s) ==
  IF state.mode = "systemd" THEN header[v][s] # None
  ELSE header[v][s] \in Protector /\ header[v][s].tool = "clevis"

\* Mutant: the first slot that can be removed is.
Verify_FirstSlot ==
  /\ state.enrolled /\ state.suspended
  /\ \E s \in Slot :
       /\ Removable(state.device, s) /\ \A t \in Slot : Removable(state.device, t) => s <= t
       /\ header' = [header EXCEPT ![state.device][s] = None]
  /\ state' = [state EXCEPT !.suspended = FALSE, !.slot = None]
  /\ UNCHANGED <<disks, active, minted, historyVars>>

\* verify, without drift: clear_suspension on the volume and slot that the
\* state names; without a slot number it just drops the flag.  Where the tool
\* fails, or nothing is suspended, it changes nothing.
Verify ==
  /\ state.enrolled /\ state.suspended
  /\ IF state.slot = None THEN UNCHANGED header
     ELSE /\ Removable(state.device, state.slot)
          /\ header' = [header EXCEPT ![state.device][state.slot] = None]
  /\ state' = [state EXCEPT !.suspended = FALSE, !.slot = None]
  /\ UNCHANGED <<disks, active, minted, historyVars>>

\* A volume is plugged in or formatted.
Attach(v) ==
  /\ v \notin disks
  /\ disks' = disks \cup {v}
  /\ UNCHANGED <<header, state, active, minted, historyVars>>

-----------------------------------------------------------------------------
Init ==
  /\ disks \in {{v} : v \in Volume}
  /\ header = [v \in Volume |-> [s \in Slot |-> None]]
  /\ state = [enrolled |-> FALSE, device |-> None, mode |-> None,
              escrowed |-> FALSE, suspended |-> FALSE, slot |-> None]
  /\ active = None
  /\ minted = {}
  /\ named = {} /\ unread = FALSE /\ lost = [v \in Volume |-> {}]

Next ==
  \/ \E d \in Volume \cup {None} : \E v \in Pick(d) :
       \/ EnrollFails(v)
       \/ \E k \in Key :
            \/ EnrollUnescrowed(v, k) \/ EnrollUnbound(v, k)
            \/ \E m \in Modes \cup {None} : Enroll(v, k, m)
  \/ \E k \in Key : RotateUnread(k) \/ RotateUnescrowed(k) \/ Rotate(k)
  \/ \E d \in Volume \cup {None} : Suspend(d)
  \/ CheckUpdates
  \/ Verify
  \/ \E v \in Volume : Attach(v)

Spec == Init /\ [][Next]_vars

-----------------------------------------------------------------------------
(* Properties.                                                             *)

\* Every variable stays in its set.
TypeOK ==
  /\ disks \subseteq Volume
  /\ header \in [Volume -> Header]
  /\ state \in State
  /\ active \in Key \cup {None}
  /\ minted \subseteq Key
  /\ named \subseteq disks
  /\ unread \in BOOLEAN
  /\ lost \in [Volume -> SUBSET Slot]

\* README: a machine can never end up conveniently unlocked but unrecoverable.
\* A volume that unlocks by itself is one that the key the portal reveals opens,
\* unless a rotation has flagged the machine un-escrowed.
Recoverable == state.escrowed => \A v \in Volume : BoundOn(v) => active \in KeysOn(v)

\* It is so as long as the operator only ever names one volume, and the last
\* rotation did not end before it could flag the machine (RotateUnread, which
\* does break the README's promise); the next rotation or enrollment that gets
\* further makes it so again.
OneVolume == \A v, w \in named : v = w
OneVolumeRecoverable == OneVolume /\ ~unread => Recoverable

\* On one volume every PCR-less slot is the one that state.json names while it
\* says suspended, the slot that verify aims at, or one whose number suspend did
\* not find: no enrollment, rotation or change of the mode in between makes
\* verify miss it, so that it takes neither a recovery key nor the main
\* protector.  In tang mode verify aims at it with the wrong tool and fails for
\* ever; the state then goes on naming it.
TempIsFound ==
  OneVolume =>
    \A v \in Volume :
      Temps(v) = lost[v] \cup
                 (IF state.suspended /\ v = state.device THEN {state.slot} \ {None} ELSE {})
=============================================================================
