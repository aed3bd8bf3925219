---------------------------- MODULE DeviceStore ----------------------------
(***************************************************************************)
(* The rows the portal keeps of one machine: its row of devices and its    *)
(* rows of keys.  Every operator below is one method of Store, which runs  *)
(* under Store.lock and commits once, so it is one atomic step; a handler  *)
(* that calls several of them is several steps (module AgentEscrow).       *)
(*                                                                         *)
(* The token is a number: secrets.token_urlsafe never returns the same     *)
(* value twice, and only equality of tokens matters.  A key id stands for  *)
(* the recovery key its ciphertext holds: each recovery key is posted at   *)
(* most once, and escrow makes one row for each post.                      *)
(***************************************************************************)
EXTENDS Naturals

CONSTANTS
  Key,      \* recovery keys
  None      \* no key

VARIABLES
  token,            \* current device token, 0 while the machine has no row
  stored,           \* keys that have a row
  active,           \* the key whose row is not retired
  rotateRequested,  \* devices.rotate_requested
  audited           \* keys with a key_escrowed row in the audit log

storeVars == <<token, stored, active, rotateRequested, audited>>

StoreInit ==
  /\ token = 0
  /\ stored = {}
  /\ active = None
  /\ rotateRequested = FALSE
  /\ audited = {}

\* enroll_device: insert the row, or replace the token hash of the row that
\* has this machine_id.  Either way the token handed out before is dead.
EnrollDevice ==
  /\ token' = token + 1
  /\ UNCHANGED <<stored, active, rotateRequested, audited>>

\* device_by_token
KnowsToken(t) == t # 0 /\ t = token

\* escrow: retire the active row, insert the new one, clear the request.
Escrow(k) ==
  /\ stored' = stored \cup {k}
  /\ active' = k
  /\ rotateRequested' = FALSE
  /\ UNCHANGED <<token, audited>>

\* audit("agent", "key_escrowed", ...)
AuditEscrow(k) ==
  /\ audited' = audited \cup {k}
  /\ UNCHANGED <<token, stored, active, rotateRequested>>

\* request_rotate: an UPDATE, which finds no row before the machine enrolled.
RequestRotate ==
  /\ rotateRequested' = (token # 0)
  /\ UNCHANGED <<token, stored, active, audited>>
=============================================================================
