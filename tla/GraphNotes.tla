----------------------------- MODULE GraphNotes -----------------------------
(***************************************************************************)
(* luksmith-graph-notes: runs of the script write a pointer to the portal  *)
(* page of a device into the notes of the Intune device of that name, in a *)
(* block between two markers.  Graph gives no lock and the script sends no *)
(* condition: a run reads the notes, computes them and writes the whole    *)
(* field, while people edit the same field and other runs are at work.     *)
(*                                                                         *)
(* Notes are sequences of a human's words, the markers and pointers (the   *)
(* portal id of the device stands for its URL); white space is left out.   *)
(***************************************************************************)
EXTENDS Naturals, SequencesExt

CONSTANTS
  Run,       \* runs of the script
  Device,    \* devices of the portal
  Managed,   \* devices of Intune
  Host,      \* host names
  NameOf,    \* deviceName of each device of Intune
  Word,      \* what people write
  MaxEdits,  \* bound on the edits by people
  None

ASSUME NameAssumption == NameOf \in [Managed -> Host]
ASSUME TokenAssumption ==
  /\ "[luksmith]" \notin Device \cup Word /\ "[/luksmith]" \notin Device \cup Word
  /\ Device \cap Word = {}
ASSUME EditsAssumption == MaxEdits \in Nat
ASSUME NoneAssumption == None \notin Managed /\ None \notin Host /\ None \notin Device

BEGIN == "[luksmith]"
END   == "[/luksmith]"
Token == Device \cup Word \cup {BEGIN, END}

VARIABLES
  hostname,  \* hostname of each device of the portal; None: not enrolled
  notes,     \* managedDevice.notes
  run,       \* the runs
  late,      \* PATCH requests given up by their run that Graph may still apply
  known,     \* history: the pairs of device and name the portal or a caller gave
  text,      \* history: the words people last left in the notes
  spoiled,   \* history: notes a person edited under a run, or left with half a block
  edits      \* edits so far

vars == <<hostname, notes, run, late, known, text, spoiled, edits>>

-----------------------------------------------------------------------------
(* upsert_block.                                                           *)

Block(d) == <<BEGIN, d, END>>

\* Where a match of BLOCK_RE can begin, and where it ends: the match is lazy.
Begins(s) == {i \in 1..Len(s) : s[i] = BEGIN /\ \E j \in i..Len(s) : s[j] = END}
EndOf(s, i) == Min({j \in i..Len(s) : s[j] = END})

\* Mutant: the block is always appended.
Upsert_Append(s, d) == s \o Block(d)

\* Mutant: what follows the block is lost.
Upsert_DropsRest(s, d) ==
  IF Begins(s) = {} THEN s \o Block(d) ELSE SubSeq(s, 1, Min(Begins(s)) - 1) \o Block(d)

Upsert(s, d) ==
  IF Begins(s) = {} THEN s \o Block(d)
  ELSE LET i == Min(Begins(s)) IN
       SubSeq(s, 1, i - 1) \o Block(d) \o SubSeq(s, EndOf(s, i) + 1, Len(s))

-----------------------------------------------------------------------------
(* The portal and the people.                                              *)

\* An agent enrolls, again under a new host name, or a second device under the
\* same one.
Enroll(d, h) ==
  /\ hostname[d] # h
  /\ hostname' = [hostname EXCEPT ![d] = h]
  /\ known' = known \cup {<<d, h>>}
  /\ UNCHANGED <<notes, run, late, text, spoiled, edits>>

\* What is left of s when the words alone are kept, token by token.
Words(s) ==
  LET kept[i \in 0..Len(s)] ==
        IF i = 0 THEN <<>>
        ELSE IF s[i] \in Word THEN Append(kept[i - 1], s[i]) ELSE kept[i - 1]
  IN  kept[Len(s)]

Count(s, t) == Cardinality({i \in DOMAIN s : s[i] = t})

\* A run has read the notes of m and not yet written them, or its PATCH is late.
Busy(m) ==
  \/ \E r \in Run : run[r].pc = "patch" /\ run[r].to = m
  \/ \E l \in late : l.to = m

\* A person writes before or after what is there, empties the notes, or deletes
\* an end marker.
Edited(s) ==
  {<<w>> \o s : w \in Word} \cup {s \o <<w>> : w \in Word} \cup {<<>>}
    \cup {RemoveAt(s, i) : i \in {j \in DOMAIN s : s[j] = END}}

Edit(m) ==
  /\ edits < MaxEdits
  /\ edits' = edits + 1
  /\ \E s \in Edited(notes[m]) \ {notes[m]} :
       /\ notes' = [notes EXCEPT ![m] = s]
       /\ text' = [text EXCEPT ![m] = Words(s)]
       /\ spoiled' = IF Busy(m) \/ Count(s, BEGIN) # Count(s, END)
                     THEN spoiled \cup {m} ELSE spoiled
  /\ UNCHANGED <<hostname, run, late, known>>

-----------------------------------------------------------------------------
(* A run.  todo: the rows of the listing that are left; row: the one being *)
(* stamped; to, read: the Intune device found and its notes; ok: ok == len *)
(* so far; stamped: history, the rows written and where.                   *)

Row == Device \X Host

RunState ==
  [pc: {"idle", "next", "get", "patch", "ended"}, todo: SUBSET Row, row: Row \cup {None},
   to: Managed \cup {None}, read: Seq(Token), ok: BOOLEAN, total: SUBSET Row,
   stamped: SUBSET (Row \X Managed), exit: 0..2]

Idle == [pc |-> "idle", todo |-> {}, row |-> None, to |-> None, read |-> <<>>,
         ok |-> TRUE, total |-> {}, stamped |-> {}, exit |-> 0]

\* The locals of stamp_one are gone when it returns.
Returned(r) == [run[r] EXCEPT !.pc = "next", !.row = None, !.to = None, !.read = <<>>]
Exit(r, code) ==
  run' = [run EXCEPT ![r] = IF code = 0 THEN [Returned(r) EXCEPT !.pc = "ended"]
                            ELSE [Idle EXCEPT !.pc = "ended", !.exit = code]]

\* portal_devices: the rows as they are at that moment, in any order.  The
\* portal takes no device without a host name.
List(r) ==
  /\ run[r].pc = "idle"
  /\ LET rows == {<<d, hostname[d]>> : d \in {e \in Device : hostname[e] # None}} IN
     run' = [run EXCEPT ![r] = [Idle EXCEPT !.pc = "next", !.todo = rows, !.total = rows]]
  /\ UNCHANGED <<hostname, notes, late, known, text, spoiled, edits>>

\* --device and --pointer: the caller says which device has the name.
Manual(r, row) ==
  /\ run[r].pc = "idle"
  /\ run' = [run EXCEPT ![r] = [Idle EXCEPT !.pc = "next", !.todo = {row}, !.total = {row}]]
  /\ known' = known \cup {row}
  /\ UNCHANGED <<hostname, notes, late, text, spoiled, edits>>

\* No token, or no listing.
Refused(r) ==
  /\ run[r].pc = "idle"
  /\ Exit(r, 2)
  /\ UNCHANGED <<hostname, notes, late, known, text, spoiled, edits>>

\* Mutant: the device found for one row gets the pointer of another one.
Find_OtherRow(r) ==
  /\ run[r].pc = "next"
  /\ \E row, next \in run[r].todo, m \in Managed :
       /\ NameOf[m] = row[2]
       /\ run' = [run EXCEPT ![r].pc = "get", ![r].row = next, ![r].to = m,
                             ![r].todo = @ \ {row}]
  /\ UNCHANGED <<hostname, notes, late, known, text, spoiled, edits>>

\* Mutant: the record of the device instead of its id.
Find_WholeRecord(r) ==
  /\ run[r].pc = "next"
  /\ \E row \in run[r].todo, m \in Managed :
       /\ NameOf[m] = row[2]
       /\ run' = [run EXCEPT ![r].pc = "get", ![r].row = row, ![r].to = [id |-> m],
                             ![r].todo = @ \ {row}]
  /\ UNCHANGED <<hostname, notes, late, known, text, spoiled, edits>>

\* find_device_id: of several devices with the name, the first that Graph lists.
Find(r) ==
  /\ run[r].pc = "next"
  /\ \E row \in run[r].todo, m \in Managed :
       /\ NameOf[m] = row[2]
       /\ run' = [run EXCEPT ![r].pc = "get", ![r].row = row, ![r].to = m,
                             ![r].todo = @ \ {row}]
  /\ UNCHANGED <<hostname, notes, late, known, text, spoiled, edits>>

\* MISS, or FAIL of the search.
FindFails(r) ==
  /\ run[r].pc = "next"
  /\ \E row \in run[r].todo : run' = [run EXCEPT ![r].ok = FALSE, ![r].todo = @ \ {row}]
  /\ UNCHANGED <<hostname, notes, late, known, text, spoiled, edits>>

\* get_notes.
Get(r) ==
  /\ run[r].pc = "get"
  /\ run' = [run EXCEPT ![r].pc = "patch", ![r].read = notes[run[r].to]]
  /\ UNCHANGED <<hostname, notes, late, known, text, spoiled, edits>>

\* patch_notes, without a condition on what the notes are by now.
Patch(r) ==
  /\ run[r].pc = "patch"
  /\ notes' = [notes EXCEPT ![run[r].to] = Upsert(run[r].read, run[r].row[1])]
  /\ run' = [run EXCEPT ![r] = [Returned(r) EXCEPT !.stamped = @ \cup {<<run[r].row, run[r].to>>}]]
  /\ UNCHANGED <<hostname, late, known, text, spoiled, edits>>

\* Mutant: the row counts as stamped all the same.
Fail_Counted(r) ==
  /\ run[r].pc \in {"get", "patch"}
  /\ run' = [run EXCEPT ![r] = Returned(r)]
  /\ UNCHANGED <<hostname, notes, late, known, text, spoiled, edits>>

\* FAIL: Graph refuses the GET or the PATCH, or cannot be reached.
Fail(r) ==
  /\ run[r].pc \in {"get", "patch"}
  /\ run' = [run EXCEPT ![r] = [Returned(r) EXCEPT !.ok = FALSE]]
  /\ UNCHANGED <<hostname, notes, late, known, text, spoiled, edits>>

\* The PATCH is sent and no answer comes in time.  An error of the gateway is a
\* FAIL; the timeout of the read is a TimeoutError, no URLError: it ends the run.
Unanswered(r) ==
  /\ run[r].pc = "patch"
  /\ late' = late \cup {[to |-> run[r].to, notes |-> Upsert(run[r].read, run[r].row[1])]}
  /\ run' = [run EXCEPT ![r] = [Returned(r) EXCEPT !.ok = FALSE]] \/ Exit(r, 1)
  /\ UNCHANGED <<hostname, notes, known, text, spoiled, edits>>

\* A kill, or a timeout anywhere else.
Die(r) ==
  /\ run[r].pc \in {"next", "get", "patch"}
  /\ Exit(r, 1)
  /\ UNCHANGED <<hostname, notes, late, known, text, spoiled, edits>>

Finish(r) ==
  /\ run[r].pc = "next" /\ run[r].todo = {}
  /\ Exit(r, IF run[r].ok THEN 0 ELSE 1)
  /\ UNCHANGED <<hostname, notes, late, known, text, spoiled, edits>>

\* Graph applies a PATCH nobody waits for, or drops it.
LatePatch(l) ==
  /\ late' = late \ {l}
  /\ notes' \in {notes, [notes EXCEPT ![l.to] = l.notes]}
  /\ UNCHANGED <<hostname, run, known, text, spoiled, edits>>

-----------------------------------------------------------------------------
Init ==
  /\ hostname = [d \in Device |-> None]
  /\ notes = [m \in Managed |-> <<>>]
  /\ run = [r \in Run |-> Idle]
  /\ late = {}
  /\ known = {}
  /\ text = [m \in Managed |-> <<>>]
  /\ spoiled = {}
  /\ edits = 0

Next ==
  \/ \E d \in Device, h \in Host : Enroll(d, h)
  \/ \E m \in Managed : Edit(m)
  \/ \E r \in Run :
       \/ List(r) \/ Refused(r) \/ Find(r) \/ FindFails(r) \/ Get(r) \/ Patch(r)
       \/ Fail(r) \/ Unanswered(r) \/ Die(r) \/ Finish(r)
       \/ \E row \in Row : Manual(r, row)
  \/ \E l \in late : LatePatch(l)

Spec == Init /\ [][Next]_vars

-----------------------------------------------------------------------------
(* Properties.                                                             *)

\* Every variable stays in its set.
TypeOK ==
  /\ hostname \in [Device -> Host \cup {None}]
  /\ notes \in [Managed -> Seq(Token)]
  /\ run \in [Run -> RunState]
  /\ late \subseteq [to: Managed, notes: Seq(Token)]
  /\ known \subseteq Row
  /\ DOMAIN text = Managed
  /\ spoiled \subseteq Managed
  /\ edits \in 0..MaxEdits

\* The docstring: re-runs never clobber notes a human wrote.  Whatever runs have
\* done, also late and on top of each other, the words are those people left ...
NeverClobbered == \A m \in Managed : Words(notes[m]) = text[m]

\* ... unless one of them edited under a run or left half a block.
HumanTextKept == \A m \in Managed \ spoiled : Words(notes[m]) = text[m]

\* Re-runs are idempotent: stamping notes again, for whatever device and whatever
\* was stamped before, leaves what one stamp would have left.
LastStampStands ==
  \A m \in Managed \ spoiled : \A d, e \in Device :
    Upsert(Upsert(notes[m], e), d) = Upsert(notes[m], d)

\* The block is replaced in place: there is never a second one, and it is whole.
OneBlock ==
  \A m \in Managed \ spoiled :
    \/ Words(notes[m]) = notes[m]
    \/ \E i \in 1..Len(notes[m]) - 2, d \in Device :
         /\ SubSeq(notes[m], i, i + 2) = Block(d)
         /\ Count(notes[m], BEGIN) = 1 /\ Count(notes[m], END) = 1

\* A pointer in the notes leads to a portal device that had the name of this
\* Intune device, whatever was renamed, and whichever run or late PATCH wrote it.
PointerOfHost ==
  \A m \in Managed : \A i \in DOMAIN notes[m] :
    notes[m][i] \in Device => <<notes[m][i], NameOf[m]>> \in known

\* Exit 0 says that every row of the listing was written to a device of its name.
ExitZeroMeansStamped ==
  \A r \in Run : run[r].pc = "ended" /\ run[r].exit = 0 =>
    \A row \in run[r].total : \E m \in Managed :
      NameOf[m] = row[2] /\ <<row, m>> \in run[r].stamped
=============================================================================
