# luksmith in TLA+

luksmith escrows the recovery keys of LUKS-encrypted Linux machines: an agent on
each machine makes a recovery key, encrypts it to the organisation's public key,
posts it to a portal and only then binds the disk to the TPM so that it unlocks
by itself; administrators retrieve the ciphertexts from the portal. The portal
exists twice, in Python and in Go, over the same schema.

This directory models that system, checks it with TLC and proves part of it with
TLAPS. Every definition is translated from the code; `PROJECT.json` gives the
lines of each ("map").

## Inventory

| Part | State | Operations | Hard because | What makes it correct |
|---|---|---|---|---|
| Agent: enroll, rotate, verify (`agent/luksmith.py`) | LUKS key slots, `state.json`, `compliance.json` | the three commands | no lock on the files; a timer starts verify at any time; kills; calls that time out and are served later; tools that fail half way | no binding before the key is in escrow; what the files claim is true; the token stays usable |
| Agent: suspend, boot class, PCR drift | numbered slots, PCR 7 and its baseline, the suspended flag and slot number | suspend, check-updates --suspend, verify, reboot | state kept across reboots that change PCR 7; a slot number read back later | the PCR-less slot is tracked and, with clevis, removed in the end; no recovery slot is removed |
| Portal: devices and keys (`server/luksmith_server.py`, `server-go/store.go`) | tables devices, keys, audit | enroll_device, device_by_token, escrow, checkin, active_key, request_rotate | token check and escrow are separate calls; abandoned requests | one active key; what was acknowledged is stored and audited |
| Portal: reveal requests | table reveal_requests | file, approve, deny, reveal, immediate reveal | read, check and update in separate store calls, of several handlers | two people, at most one key, a truthful audit |
| Portal: administrators | tables admins, sessions | login, logout, create, delete, SSO upsert | count then delete; sessions that outlive accounts | the last owner stays; the proxy takes nobody over |
| Agent: several volumes | the one `luks_device`, suspended flag and slot number of `state.json`; the one active key of the portal | enroll, rotate, suspend, check-updates, verify, each with or without `--device` | one state for many volumes; a slot number of one volume applied to another | what unlocks by itself opens with the key the portal reveals; the state names the temporary slot it found |
| Intune notes (`integrations/intune/luksmith-graph-notes.py`) | the notes of a device in Intune | upsert_block, stamp_one, the bulk run | read-modify-write without a condition, against people who edit the field and other runs; a PATCH that is applied after its run gave it up; a run that dies in the middle | text of others survives, one whole block, a pointer to the right device, exit 0 only when all is written |
| Intune discovery script, web UI, HTTP routing and HTML, packaging, CI | none of their own | | | |

How they interact: the agent calls the portal over HTTP (register, post a key,
check in) and starts cryptsetup, systemd-cryptenroll, clevis and openssl; the
systemd timer starts `luksmith verify` two minutes after boot and then daily;
an administrator's rotation request reaches the agent in the answer to a check-in;
key retrieval reads the active key that the agent's last escrow stored; the
portal's handlers share one SQLite connection behind a lock (Python) or a pool of
one connection (Go).

The Graph script reads the portal's device list and writes to Intune; nothing in
the system reads that back.

`PROJECT.json` lists the hazards, each at its line, with the properties that
watch it or the reason none does.

## Modules

| Module | Models |
|---|---|
| `DeviceStore` | the portal's device row, keys and audit rows of one machine, one operator per store method |
| `AgentEscrow` | enroll, rotate and verify of several agent processes, the files and the slots, the portal handlers that serve them, the network (extends `DeviceStore`) |
| `EscrowFirst` | the abstract promise of `AgentEscrow`: keys are made, put in the vault, and only a machine with a key in the vault is switched to auto-unlock |
| `SuspendCycle` | suspend, verify, rotate and enroll on numbered slots, PCR 7, reboots, in clevis and systemd mode |
| `RevealRequests` | the handlers of two-person and immediate reveals, Python and Go |
| `TwoPersonRelease` | the abstract promise of `RevealRequests` |
| `AdminAccounts` | accounts, sessions and SSO identities, Python and Go |
| `RoleMap` | the roles of proxy groups, as Python and as Go compute them (extended by `AdminAccounts`) |
| `Volumes` | the agent's commands on several volumes of one machine, in the modes clevis, systemd and tang |
| `GraphNotes` | runs of luksmith-graph-notes against people who edit the notes |
| `MC*` | constants for TLC |
| `*_proofs` | theorems and their proofs; `AgentSequential_proofs` adds to `AgentEscrow_proofs` what holds of one command at a time |

### AgentEscrow

A process (`pc`, `cmd`, `mem`, `key`) is one run of the agent. `mem` is the dict
`state` a command loads at its start and saves later, so that overlapping runs
overwrite each other as the code does. A save has two steps, truncate ("save") and
write ("write"), because `save_json` opens with O_TRUNC; `compliance.json` follows
("report"). A call to `api()` puts a request in `net`; the portal's handler moves its
stage on, one store call a step (`AuthKeys`, `StoreKey`, `AnswerKeys`); the agent
takes an answer, sees a failure, or gives up and leaves the request behind
(`Abandon`). The token check and the check-in of verify are one step, because the check-in
only notes when and how the machine booted. `Faults` says which of "crash", "late" and
"unparsed" may happen.
Recovery keys are model values: `recov` are those with a slot, `minted` all ever
made. Ciphertexts are identified with the keys they carry.

Left out here: slot numbers, PCR values and suspension (`SuspendCycle`), `--device`
and the tang mode (`Volumes`), the PIN option (it changes the binding, not the order),
and commands that die before they change anything.

### SuspendCycle

`slots` is the LUKS header: a slot is free, holds a recovery key, the PCR-less
protector that clevis or systemd-cryptenroll made for a suspension (`Temp`), or a
protector bound to a PCR value. `Lowest` is the slot cryptsetup picks, `ClevisSlots`
what clevis lists. `Probe` is `classify_boot` and the comparison with the baseline;
`Regen`, `NoRegen`, `UnbindMain`, `Rebind` the branches of verify; `Clear` and `NoClear`
are `clear_suspension`. `Reboot` kills what runs and chooses the new PCR value, any
number of times. The history variable `clean` is true while no command was killed or
overlapped another, every suspension found its slot number and no rebinding died
half way: the properties that need this say so, and the hazards list what happens
otherwise.

A tool may fail for reasons of its own, not only for what the slots hold: `NoRegen` and
`UnbindMain` may follow any regen, `NoClear` any attempt to remove the slot, and the
unbind before a rebinding fails unnoticed. PCR 7 may be unreadable at each of its
readings (`Reading`): no drift is seen then, and an enrollment or a rebinding stores no
baseline. `SkipTpm` is enroll with --no-tpm or without a TPM: `tpm_mode` is None, and the
baseline of an earlier enrollment stays. A rotation whose key cannot be parsed ends
without a save (`Swap`).

`ClevisSuspensionEnds` is about the suspensions of an enrolled clevis machine that verify
can rebind (`Rebindable`: it is bound, or has no baseline). After enroll --no-tpm over a
bound enrollment it is false, and left out by that condition: tpm_mode is None, a drift
from the old baseline is never rebound, and the suspension stays. It also needs
`ToolsRecover` (see Fairness).

The escrow is one step of enroll here, and loading or saving `state.json` one step
each; `AgentEscrow` has the detail. `cmd_suspend` never asks whether the machine is
enrolled, and neither does `StartSuspend`: a suspension on a machine that never enrolled
binds a protector with nothing in escrow (README.md:184 of the repository says that
this never happens), and verify, which would remove it, dies there. No property can
hold over that step, so it is listed as a hazard.

### RevealRequests

The columns of `reveal_requests` are functions of the request id. A thread is one
handler with its local variables; each store call is a step, and `Dies` ends a
handler anywhere (a failing call, a lost client, a restart). `portal` is chosen
once: in Python `Reveal` checks the status of the row it read and `FindKey` reads
the active key before the update; in Go the transaction in `ConsumeRevealRequest`
does both. `RolesOf` gives the roles a user may have. Rows that a reveal without any
key leaves in the audit are left out, the steps that write them are not.

In Go the audit row of a reveal takes the approver from a row read before that
transaction, so it may be empty (docs/rbac-contract.md:101 wants both names):
`AuditNamesBoth` is therefore checked and proved of Python only (`PythonAuditNamesBoth`);
of Go it is proved for the behaviours in which nobody decides the request in between.

The dashboard's reveal is `Direct`, with or without --require-approval: it asks for no
second person. No property speaks of that: `ImplementsTwoPersonRelease` is about
requests, and of the immediate reveal only `ReleaseIsAudited` is shown.

### AdminAccounts and RoleMap

Accounts are local or SSO rows. `DeleteLocked` is Python's `delete_admin` under the
lock; `Lookup`, `Count`, `Delete` are Go's three calls. A creation or deletion and its
audit row are two steps, and a handler may die in between. The master token is always
an owner, so guards on the caller's role do not restrict anything. In Go two deletions
that overlap may both count two owners and remove the last one
(docs/rbac-contract.md:87 excludes it). `LastOwnerKept` therefore says of both portals
how the last owner can go: only by a deletion that is `overtaken`, a history variable
with the handlers that were between Go's check and its deletion when a deletion or an SSO
upsert changed an account. No other step of either portal does it, however handlers overlap. In Go
the deletion that deletes nothing is audited too, so the part of `AccountLogIsTrue` about
deletions is stated of Python. A password is right or wrong, and a session may expire at any time.

`MapRole` and `MapGroups` are the two algorithms for the groups of the proxy, over the
defaults and `--sso-group-map`. The module that TLC runs assumes `RoleMapsAgree`, so
TLC compares them when it starts: on every list of up to three of five groups, where a
default is mapped again twice, another gets a role that does not exist and one group
is unknown; `SameRole` proves it for every list and map. `AdminAccounts` therefore uses
`MapRole` for both portals.

### Volumes

`header` gives the slots of each volume, `state` the one `state.json`, `active` the key
that the portal reveals of the machine. `Pick` is `pick_device`. Commands are whole
steps, with an action for each point at which one ends early and leaves something
behind (`EnrollFails`, `EnrollUnescrowed`, `EnrollUnbound`, `RotateUnread`,
`RotateUnescrowed`); `Verify` is the verify without drift that ends a suspension. The
history variable `named` holds the volumes commands were about.

`RotateUnread` wipes the old slots and dies because the new key cannot be parsed, before
it could flag the machine (luksmith.py:546-548): `state.json` still says escrowed, and
the portal's key opens nothing. That breaks README.md:53 of the repository on one volume
and without a kill. The history variable `unread` marks it, and `OneVolumeRecoverable`
speaks of the other states: a later rotation that gets further, or an enrollment whose
key is escrowed, restores it. `SuspendOn` may not find its slot number. The next `Verify`
then drops the flag and leaves the slot, so `TempIsFound` counts such slots (`lost`)
apart from the one that the state names.

Enrolling a second volume retires the first one's key, and a slot number may be
applied to another volume. With two volumes `Recoverable` is violated: enroll one, plug
the other in, enroll it, and the first still unlocks by itself while the key that the
portal reveals does not open it. The properties are therefore stated of
machines on which one volume is ever named. In tang mode suspend binds with
systemd-cryptenroll what verify tries to remove with clevis: `Removable` is then false
for ever, the slot stays and `state.json` goes on saying so, which is all that
`TempIsFound` says of it.

### GraphNotes

Notes are sequences of words, markers and pointers, and `Upsert` is `upsert_block` with
its lazy match. `Words` keeps the words of a sequence, token by token: it is a recursive
function, so that it can be proved about. A run (`run[r]`) holds the rows of its listing that are left, the row it
stamps, the Intune device it found and the notes it read; `Get` and `Patch` are two
calls between which people edit, agents enroll under other names and other runs write.
Each call may fail; `Unanswered` leaves a PATCH in `late`, which Graph may still apply.
A timeout of the read is a TimeoutError, which no except clause of the script catches:
then the run ends with exit 1 and the rows that are left are not tried, although the
docstring of `stamp_one` says it never raises. The history variables are the words that
people left (`text`) and the notes they edited under a run or left with half a block
(`spoiled`): after an end marker is deleted the next run appends a second block and the
one after that removes what is between. The dry run and the self-test write nothing
and are left out, as are white space and the fixed text of the block.

## Runs

| Run | Instance | Shows |
|---|---|---|
| `escrow_concurrent` | 2 processes, 2 keys, all commands and faults, 2 registrations, 1 late request | `EscrowFirstGate`, `EscrowedClaimIsTrue`, `EnrollIsRecoverable`, and that `AgentEscrow` implements `EscrowFirst` |
| `escrow_sequential` | 1 process, 3 keys, rotation requests, failing tools and calls, no kills | `ReportIsHonest`, `TokenIsCurrent`, `RotationEndsOldKeys`, `CommandsEnd` |
| `escrow_rotate_gap` | 1 process, 2 keys, no kills | violated: a failed escrow after the wipe leaves an auto-unlocking machine with no escrowed key that opens it (README.md:53 of the repository) |
| `escrow_stale_report` | 2 processes | violated: an overlapping verify hides a failed escrow (docstring of `cmd_rotate`) |
| `suspend_cycle` | 1 process at a time, kills, failing tools, 4 slots, 2 PCR values, any number of reboots, both modes | `TempIsTracked`, `BaselineMeansUnlock`, `RecoveryKept`, `ClevisSuspensionEnds` |
| `suspend_systemd` | systemd mode | violated: after drift a suspension never ends |
| `suspend_early` | clevis mode | violated: verify before the reboot ends the suspension |
| `reveal_requests` | 2 handlers, 3 users (two may approve), 1 request, 2 keys, both portals | `ImplementsTwoPersonRelease`, `ReleaseIsAudited`, `LoggedDecisionIsTheDecision`, `ReleasedKeyIsCurrent`, `PythonAuditNamesBoth` |
| `admin_accounts` | 2 handlers, 3 users, local accounts of 2 roles and SSO accounts of 4, 1 session, 3 accounts created, both portals | `SessionIsEarned`, `AccountLogIsTrue`, `LastOwnerKept`, `LocalAccountIsFixed` |
| `volumes` | 2 volumes with 4 slots each, 3 keys, 3 modes and none | `OneVolumeRecoverable`, `TempIsFound` |
| `graph_notes` | 2 runs, 2 portal devices, 2 host names, 1 Intune device, 2 edits of one word | `HumanTextKept`, `OneBlock`, `LastStampStands`, `PointerOfHost`, `ExitZeroMeansStamped` |
| `graph_clobber` | same | violated: a note saved between the GET and the PATCH is lost (docstring of the script) |

The passing runs also check the type invariants (that of `AgentEscrow` in the first).

Why the bounds are enough: two agent processes are what a person and the timer
start; two keys let one be retired, three let an old, a retired and a new one
differ. Four slots hold a recovery key, its replacement, the main and the
temporary protector. Two values let PCR 7 change and change back; reboots have no
bound. Races on a
request need two handlers; requests do not interact, so one is enough. Three accounts
created let two owners be deleted at a time, or a name be taken again. Two volumes
let a command be about another one than the state; three keys let each be
enrolled and one be rotated. Two runs and two devices of the portal let a pointer be
overwritten and a name move; Intune devices do not interact, so one is enough; two
edits let a person break a block and write, or write before and under a run.
Whatever the theorems cover holds for any number of processes, keys, users, requests,
volumes and runs. Deadlock is checked except where the model stops: the bounds
`MaxCreated` and `MaxEdits`, and in `Volumes` the keys that are left; the runs of the
script end. Symmetry is used where no liveness is checked.

A run named *violated* records that a sentence of the documentation or of a
comment does not hold of the code; `PROJECT.json` quotes it ("findings").

### Fairness

`AgentEscrow`: a started command takes its next step, and a call ends, by an answer or
by the 30-second timeout of `urlopen`. Nobody is obliged to start a command.
`SuspendCycle`: started commands go on (weak fairness), and verify is started again
and again (strong fairness of its start, as other commands may be running when the
timer fires): the timer has `OnUnitActiveSec=24h` and `Persistent=true`. That is what the
code's scheduling gives. `ClevisSuspensionEnds` needs an assumption about the environment
besides, which is a conjunct of its own in `Spec`, `ToolsRecover`: verify may fail to
rebind, or to remove the slot, any number of times, but where it could do so again and
again it does in the end (strong fairness of `Regen` and `Clear`). The code retries at
every verify and does nothing more: with a clevis that fails for ever the suspension
stays, and without `ToolsRecover` TLC finds that behaviour. It also finds one if the
condition `Rebindable` is dropped. `SuspensionEnds` is refuted under the same assumptions. The portal modules
state no fairness and no liveness: a reveal that nobody retries need not happen.

## Proofs

`AgentEscrow_proofs` proves, for any number of processes and keys and any choice
of commands, faults and bounds:

- `TypeCorrect`, `GateHolds`, `ClaimsHold`, `EnrollRecoverable`: the properties of the
  same subject that `escrow_concurrent` checks;
- `Refinement`: `Spec => ImplementsEscrowFirst`;
- `RecoveryNeverLost`: what `EscrowFirst` alone implies (`NeverLockedOut`: the disk is
  never without a recovery slot once it had one, the vault holds only keys made for it,
  no auto-unlock with an empty vault), carried over by the refinement.

The inductive invariant `IInv` adds to the properties what links a process to its
requests: the key a process holds is minted (`HeldKeys`), what the portal stores
was minted and posted (`Ledger`, `Posted`), and an answer "ok" that a process waits
for means that its very key is stored and audited (`Awaited`). `EscrowFirstGate` alone is not
inductive: the step into "bind" needs the last of these. Each conjunct has a lemma
with one step per action.

`AgentSequential_proofs` proves `ReportsHonest`, `TokensCurrent` and
`RotationsEndOldKeys` under `OneAtATime`: one process, and no kills, late requests or
unparsable output. The invariant `Sequential` adds to `IInv`

- `Attended`: nobody has given up on a request, so that there is at most one and its
  process waits for it (`OneRequest`);
- `Honest`: what the files and the copy of a command claim is right about the disk,
  except in a rotation that has just wiped and has not come to saving and reporting;
- `KeyAtWork`: the key on its way to escrow has a slot, in a rotation the only one, and
  is new to the portal until it becomes the active one, which is why what the portal
  stored last is that key;
- `Tokens`: no copy of the token is a dead one, because the machine registers, which
  kills the token before, only while it knows none.

`RevealRequests_proofs` proves, for any handlers, users, roles, requests and keys and
for either portal, `TypeCorrect`, `ReleasesAudited`, `DecisionsLogged`, `KeysCurrent`,
`PythonNamesBoth` and `Refinement` (`Spec => ImplementsTwoPersonRelease`). What is
needed besides the properties is what a handler may rely on between two store calls:

- `Table`: requester, approver and status of a row fit together; `Deciders`: a
  handler that has decided finds its own decision in the row until it has logged it;
- `Revealers`: a reveal is the requester's, and in Python the approver it read is
  the final one, because a row is only read when approved and is decided once;
- `Fresh`: an approved request knows every key that is active from then on; this is
  why a key that Python read before the update still counts;
- `Holders`: at most one handler is between the consumption of a request and the
  answer, and the request has yielded nothing so far. This gives "at most once".

The refinement maps the requester to who asked, the approver of an approved or
consumed row to who granted. Filing asks, the guarded update of a decision grants or
refuses, the answer with the ciphertext releases, and every other step stutters.
`TwoPeopleStandBehind` and `DecisionsAreFinal` carry over what `TwoPersonRelease`
implies: two different people behind every request that may yield a key, and nothing of
a request taken back (`TwoPeople`, `Final`).

`NamesBothUnlessDecided` says how far Go falls short of `AuditNamesBoth`: under the
hypothesis `[][Quiet]_vars`, that nobody decides a request while a handler is between its
read of the row and the consuming update, the audit of either portal names both. The
invariant `SeenIsTheRow` says that the approver read is the one in the row until the
audit row is written; before the update this is the hypothesis, after it `Holders`, as a
consumed request is decided by nobody. TLC finds the violation without the hypothesis
at once and none with it as an action constraint.

`AdminAccounts_proofs` proves `TypeCorrect`, `SessionsEarned`, `AccountLogTrue`,
`LastOwnerStays` and `LocalAccountsFixed`. `Earned` carries the role from the
account through a login to the session. `LogsAccounted` counts, per user name, the
rows logged and the handlers that are still to log against the creations and
deletions; it needs `ThreadAssumption`, finitely many handlers at a time. Whatever
groups are asserted, the role is one of the four (`MappedRole`). The last two are action
properties.

`LastOwnerStays` says that the window of Go is the only way to lose the last owner, in
either portal and with any number of handlers. The invariant `ChecksHold` is that a
handler about to delete which nothing overtook is not about the only owner.
`ComesToDelete` says that it got there by the lookup of a name that was no owner or by a
count above one (`LookupHolds`, `CountHolds`); `ChangesOvertake` that a step which changes
an account overtakes every check made before, unless it creates one, which
takes no owner away (`CreateHolds`).

`SameRole` is `RoleMapsAgree` for every map and every list of groups. A group maps to at
most one role (`MapsToOne`); after every group Go's running best is the greatest role of
the groups so far, "" if there is none (`TopStep`, `GoIsTop`), and Python chooses the
greatest of them all.

`SuspendCycle_proofs` proves `TypeCorrect`, `SuspensionTracked`, `BaselineUnlocks` and
`RecoveryStays`. At rest the properties speak of `state.json`, but while a command
runs its copy is what will be saved, so `Tracked` and `Baselines` say of the copy, and
of the file as long as the command may still fail, what the properties say at
rest; `Lone` (no two commands overlap in a clean history) makes the copy the only
one. That a tool takes a slot out of a set at all is `LowestIn`, from the
well-foundedness of the naturals. The theorems use neither `Fairness` nor
`ToolsRecover`. `RecoveryStays` then uses `Tracked` in systemd
mode, where the wiped slot is whatever the state names, and only the kind of the slot
in clevis mode.

`Volumes_proofs` proves `TypeCorrect`, `OneVolumeStaysRecoverable` and `TempFound`, for any
volumes, slots, keys and modes. They say of a machine with one volume what the
properties say: recoverable or flagged, but for a rotation whose key was unread; and the
PCR-less slots are the one the state names and the `lost` ones. `Untouched` says that a volume no command was about has
empty slots, `DeviceNamed` that the volume of the state was named; with `OneVolume` a
step then concerns the only volume that matters. `EscrowedKey` says that only a key of
the portal counts as escrowed, and `OneRecoverable` and `OneTemp` carry the two
properties; `NotLost` keeps the slot that the state names apart from the lost ones. A
command that names a second volume makes the condition of both false for good.

`GraphNotes_proofs` proves `TypeCorrect`, `PointersLeadHome` and `ExitZeroIsEarned`, for
any runs, devices, names and edits. The upsert of a sequence has no token that neither
the sequence nor the block has (`UpsertTokens`, from where `\o` and `SubSeq` put their
elements), and what people make of it has no new pointer (`EditedTokens`). `NotesOK`
says of notes and of late requests that their pointers are known; `RestOK` that the
host names are; `RunsOK` that the row in hand is known and belongs to the device found,
and that, as long as a run has not failed, every row of its listing is left, in hand or
stamped.

`GraphNotesText_proofs` adds `WordsAreKept`, `OneBlockOnly` and `RestampsIdempotent`, for any
runs, devices, words and edits. Notes are `Clean` with respect to a text if they are
that text, words alone, or the text with one whole block somewhere in it. A stamp keeps
notes clean and their text what it was (`UpsertClean`), the last of two stamps stands
alone (`UpsertTwice`), and what a person makes of clean notes is clean again unless half
a block is left (`EditedClean`, `HalfBlock`). That the notes nobody spoiled are clean is
not inductive: the next PATCH replaces them by what its run computed earlier, and a
late one by what a run computed before it gave up. `TextOK` therefore says of
those too, as long as nobody edited under them, that they are clean and of the text
people left last (`Sound`); an edit under one of them spoils the notes, which is
what `Busy` is for. `WordsConcat`, that the words of joined sequences are their words
joined, is an induction over a sequence; it and the one of `SameRole` go over a set
of numbers (`SetInduction`, from the well-foundedness of the naturals), because the
library's induction theorems take a predicate as their parameter.

The assumptions are the ones the modules name (`NoneAssumption` and so on): `None` is
not a key, user or slot, slots are natural numbers, PCR values are not the names of
the other contents, the portals are the two that exist.

Only model-checked: liveness (`CommandsEnd`, `ClevisSuspensionEnds`), which the prover does
not reach, and every violated property. All other properties of the passing runs are
theorems. `NamesBothUnlessDecided` is conditional: its hypothesis is about the schedule,
which the code does not control. `LastOwnerStays` has the window of Go in its statement
instead.

## Not modelled

Cryptography (openssl, password hashing), HTTP parsing and routing, static files and
HTML, the discovery script (a filter over `compliance.json`), the web UI, packaging: they
keep no state of the system, or what they compute is a table. SQLite is
taken to make every store call atomic; a call that fails half way inside
Python's open transaction is a hazard without a model. Go's `Enroll` is a select and an update
or insert outside a transaction; as a device keeps its id and is never deleted, it takes
effect at the second, and an insert that comes too late is one more refused call.

## Plan

1. Two machines that share a machine-id, and with it one device row of the portal.
2. `SuspendCycle` with two commands that overlap, checked by TLC: the theorems cover any
   number of processes, but their properties assume that commands do not overlap.
3. A store whose calls fail half way, with the shared connection of Python and the
   transactions of Go.
4. A proof of which overlap the deletion rows of Go's audit are exposed to, as there is
   for its last owner; and of which single steps of a rotation `escrow_rotate_gap`
   and `escrow_stale_report` need.
