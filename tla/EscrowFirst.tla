---------------------------- MODULE EscrowFirst ----------------------------
(***************************************************************************)
(* What luksmith promises about one machine, with nothing of how the agent *)
(* and the portal bring it about: recovery keys exist before they are put  *)
(* in the portal's vault, auto-unlock is only ever switched on while the   *)
(* vault already holds a recovery key of this machine, and the disk never  *)
(* loses its last recovery slot.  AgentEscrow implements this.             *)
(***************************************************************************)
CONSTANT Key          \* recovery keys of the machine

VARIABLES
  made,     \* recovery keys that have been generated so far
  opens,    \* recovery keys whose LUKS slot exists: they open the disk
  vault,    \* recovery keys the portal holds in escrow
  auto      \* the disk has a TPM- or network-bound auto-unlock slot

eVars == <<made, opens, vault, auto>>

Init ==
  /\ made = {}
  /\ opens = {}
  /\ vault = {}
  /\ auto = FALSE

\* A new recovery slot beside the ones there are.
Add(k) ==
  /\ k \notin made
  /\ made' = made \cup {k}
  /\ opens' = opens \cup {k}
  /\ UNCHANGED <<vault, auto>>

\* A new recovery slot that replaces every earlier one in a single step.
Replace(k) ==
  /\ k \notin made
  /\ made' = made \cup {k}
  /\ opens' = {k}
  /\ UNCHANGED <<vault, auto>>

Deposit(k) ==
  /\ k \in made
  /\ vault' = vault \cup {k}
  /\ UNCHANGED <<made, opens, auto>>

SwitchOn ==
  /\ vault # {}
  /\ auto' = TRUE
  /\ UNCHANGED <<made, opens, vault>>

SwitchOff ==
  /\ auto' = FALSE
  /\ UNCHANGED <<made, opens, vault>>

Next ==
  \/ \E k \in Key : Add(k) \/ Replace(k) \/ Deposit(k)
  \/ SwitchOn
  \/ SwitchOff

Spec == Init /\ [][Next]_eVars

-----------------------------------------------------------------------------
\* What follows from it: every key that opens the disk or lies in the vault was
\* made for this machine, the disk is never without a recovery slot once it has
\* had one, and auto-unlock is never on with an empty vault.
NeverLockedOut ==
  /\ opens \subseteq made /\ vault \subseteq made
  /\ made # {} => opens # {}
  /\ auto => vault # {}
=============================================================================
