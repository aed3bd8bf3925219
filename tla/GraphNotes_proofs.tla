-------------------------- MODULE GraphNotes_proofs --------------------------
(***************************************************************************)
(* Proofs about GraphNotes, for any runs, devices, names, words and edits: *)
(* which pointers the notes may hold, and what exit 0 says.                *)
(***************************************************************************)
EXTENDS GraphNotes, WellFoundedInduction, TLAPS

-----------------------------------------------------------------------------
(* upsert_block.                                                           *)

LEMMA MinIn ==
  ASSUME NEW S, S \subseteq Nat, S # {}
  PROVE  Min(S) \in S
<1> DEFINE Less == {ss \in Nat \X Nat : ss[1] < ss[2]}
<1>1. IsWellFoundedOn(Less, Nat)
  BY NatLessThanWellFounded DEF OpToRel
<1>2. PICK s \in S : \A t \in S : <<t, s>> \notin Less
  <2> HIDE DEF Less
  <2> QED
    BY <1>1, WFMin
<1>3. ASSUME NEW t \in S PROVE s <= t
  <2>1. s \in Nat /\ t \in Nat
    OBVIOUS
  <2>2. ~(t < s)
    BY <1>2, <2>1
  <2>3. QED
    BY <2>1, <2>2
<1>4. QED
  BY <1>3 DEF Min

\* What is in the result: the new block and tokens that were there.
LEMMA Concat ==
  ASSUME NEW S, NEW s \in Seq(S), NEW t \in Seq(S)
  PROVE  /\ s \o t \in Seq(S) /\ Len(s \o t) = Len(s) + Len(t)
         /\ \A i \in 1..Len(s) + Len(t) : (s \o t)[i] = IF i <= Len(s) THEN s[i] ELSE t[i - Len(s)]
OBVIOUS

LEMMA UpsertTokens ==
  ASSUME NEW s \in Seq(Token), NEW d \in Device
  PROVE  /\ Upsert(s, d) \in Seq(Token)
         /\ \A i \in DOMAIN Upsert(s, d) :
              \/ Upsert(s, d)[i] \in {BEGIN, d, END}
              \/ \E j \in DOMAIN s : Upsert(s, d)[i] = s[j]
<1>1. Block(d) \in Seq(Token) /\ Len(Block(d)) = 3
      /\ \A i \in 1..3 : Block(d)[i] \in {BEGIN, d, END}
  BY DEF Block, Token
<1>2. CASE Begins(s) = {}
  <2> DEFINE blk == Block(d)
             new == s \o blk
  <2>1. Upsert(s, d) = new
    BY <1>2 DEF Upsert
  <2>2. blk \in Seq(Token) /\ Len(blk) = 3
        /\ \A i \in 1..3 : blk[i] \in {BEGIN, d, END}
    BY <1>1
  <2> HIDE DEF blk
  <2>3. new \in Seq(Token) /\ Len(new) = Len(s) + 3
    <3>1. new \in Seq(Token) /\ Len(new) = Len(s) + Len(blk)
      BY <2>2, Concat
    <3>2. QED
      BY <2>2, <3>1
  <2>4. ASSUME NEW i \in 1..Len(s) + 3
        PROVE  new[i] = IF i <= Len(s) THEN s[i] ELSE blk[i - Len(s)]
    <3>1. \A k \in 1..Len(s) + Len(blk) : new[k] = IF k <= Len(s) THEN s[k] ELSE blk[k - Len(s)]
      BY <2>2, Concat
    <3> HIDE DEF new
    <3>2. i \in 1..Len(s) + Len(blk)
      BY <2>2
    <3>3. QED
      BY <3>1, <3>2
  <2> HIDE DEF new
  <2>5. ASSUME NEW i \in DOMAIN new
        PROVE  new[i] \in {BEGIN, d, END} \/ \E j \in DOMAIN s : new[i] = s[j]
    <3>1. i \in 1..Len(s) + 3
      BY <2>3
    <3>2. CASE i <= Len(s)
      <4>1. new[i] = s[i] /\ i \in 1..Len(s)
        BY <2>4, <3>1, <3>2
      <4>2. QED
        BY <4>1
    <3>3. CASE ~(i <= Len(s))
      <4>1. new[i] = blk[i - Len(s)] /\ i - Len(s) \in 1..3
        BY <2>4, <3>1, <3>3
      <4>2. QED
        BY <2>2, <4>1
    <3>4. QED
      BY <3>2, <3>3
  <2>6. QED
    BY <2>1, <2>3, <2>5
<1>3. CASE Begins(s) # {}
  <2> DEFINE a == Min(Begins(s))
             b == EndOf(s, a)
             before == SubSeq(s, 1, a - 1)
             after == SubSeq(s, b + 1, Len(s))
  <2>1. a \in 1..Len(s) /\ \E j \in a..Len(s) : s[j] = END
    <3>1. Begins(s) \subseteq Nat
      BY DEF Begins
    <3>2. a \in Begins(s)
      BY <1>3, <3>1, MinIn
    <3>3. QED
      BY <3>2 DEF Begins
  <2> HIDE DEF a
  <2>2. b \in 1..Len(s)
    <3> DEFINE E == {j \in a..Len(s) : s[j] = END}
    <3>1. E \subseteq Nat /\ E # {}
      BY <2>1
    <3>2. Min(E) \in E
      <4> HIDE DEF E
      <4> QED
        BY <3>1, MinIn
    <3>3. QED
      BY <2>1, <3>2 DEF EndOf
  <2> HIDE DEF b
  <2>3. before \in Seq(Token) /\ Len(before) = a - 1 /\ \A i \in 1..a - 1 : before[i] = s[i]
    BY <2>1
  <2>4. after \in Seq(Token) /\ Len(after) = Len(s) - b
        /\ \A i \in 1..Len(s) - b : after[i] = s[b + i]
    BY <2>2
  <2>5. Upsert(s, d) = before \o Block(d) \o after
    BY <1>3 DEF Upsert, a, b
  <2> HIDE DEF before, after
  <2> DEFINE front == before \o Block(d)
  <2>6. front \in Seq(Token) /\ Len(front) = a + 2
        /\ \A i \in 1..a + 2 : front[i] = IF i <= a - 1 THEN s[i] ELSE Block(d)[i - (a - 1)]
    <3>1. /\ front \in Seq(Token) /\ Len(front) = Len(before) + Len(Block(d))
          /\ \A i \in 1..Len(before) + Len(Block(d)) :
               front[i] = IF i <= Len(before) THEN before[i] ELSE Block(d)[i - Len(before)]
      BY <1>1, <2>3, Concat
    <3> HIDE DEF front
    <3>2. Len(before) + Len(Block(d)) = a + 2
      BY <1>1, <2>1, <2>3
    <3>3. ASSUME NEW i \in 1..a + 2
          PROVE  front[i] = IF i <= a - 1 THEN s[i] ELSE Block(d)[i - (a - 1)]
      BY <2>1, <2>3, <3>1, <3>2
    <3>4. QED
      BY <3>1, <3>2, <3>3
  <2>7. ASSUME NEW i \in 1..a + 2
        PROVE  front[i] \in {BEGIN, d, END} \/ \E j \in DOMAIN s : front[i] = s[j]
    <3> HIDE DEF front
    <3>1. CASE i <= a - 1
      <4>1. front[i] = s[i] /\ i \in 1..Len(s)
        BY <2>1, <2>6, <3>1
      <4>2. QED
        BY <4>1
    <3>2. CASE ~(i <= a - 1)
      <4>1. front[i] = Block(d)[i - (a - 1)] /\ i - (a - 1) \in 1..3
        BY <2>1, <2>6, <3>2
      <4>2. QED
        BY <1>1, <4>1
    <3>3. QED
      BY <3>1, <3>2
  <2> HIDE DEF front
  <2>8. Upsert(s, d) \in Seq(Token)
    BY <2>4, <2>5, <2>6 DEF front
  <2>9. ASSUME NEW i \in DOMAIN Upsert(s, d)
        PROVE  \/ Upsert(s, d)[i] \in {BEGIN, d, END}
               \/ \E j \in DOMAIN s : Upsert(s, d)[i] = s[j]
    <3>1. Upsert(s, d) = front \o after
      BY <2>5 DEF front
    <3>2. i \in 1..(a + 2 + (Len(s) - b))
      BY <3>1, <2>1, <2>2, <2>4, <2>6
    <3>3. CASE i <= a + 2
      <4>1. i \in 1..a + 2 /\ Upsert(s, d)[i] = front[i]
        BY <2>1, <2>2, <2>4, <2>6, <3>1, <3>2, <3>3
      <4>2. QED
        BY <2>7, <4>1
    <3>4. CASE i > a + 2
      <4> DEFINE k == i - (a + 2)
      <4>1. Upsert(s, d)[i] = after[k] /\ k \in 1..Len(s) - b
        BY <2>1, <2>2, <2>4, <2>6, <3>1, <3>2, <3>4
      <4> HIDE DEF k
      <4>2. after[k] = s[b + k]
        BY <2>4, <4>1
      <4>3. b + k \in 1..Len(s)
        BY <2>2, <4>1
      <4>4. QED
        BY <4>1, <4>2, <4>3
    <3>5. QED
      BY <2>1, <3>2, <3>3, <3>4
  <2>10. QED
    BY <2>8, <2>9
<1>4. QED
  BY <1>2, <1>3

\* What people make of notes has no pointer that was not there.
LEMMA EditedTokens ==
  ASSUME NEW s \in Seq(Token), NEW e \in Edited(s)
  PROVE  /\ e \in Seq(Token)
         /\ \A i \in DOMAIN e : e[i] \in Word \/ \E j \in DOMAIN s : e[i] = s[j]
<1>1. ASSUME NEW w \in Word, e = <<w>> \o s
      PROVE  e \in Seq(Token) /\ \A i \in DOMAIN e : e[i] \in Word \/ \E j \in DOMAIN s : e[i] = s[j]
  <2>1. <<w>> \in Seq(Token) /\ Len(<<w>>) = 1 /\ <<w>>[1] = w
    BY DEF Token
  <2>2. QED
    BY <1>1, <2>1
<1>2. ASSUME NEW w \in Word, e = s \o <<w>>
      PROVE  e \in Seq(Token) /\ \A i \in DOMAIN e : e[i] \in Word \/ \E j \in DOMAIN s : e[i] = s[j]
  <2>1. <<w>> \in Seq(Token) /\ Len(<<w>>) = 1 /\ <<w>>[1] = w
    BY DEF Token
  <2>2. QED
    BY <1>2, <2>1
<1>3. CASE e = <<>>
  BY <1>3
<1>4. ASSUME NEW k \in DOMAIN s, e = RemoveAt(s, k)
      PROVE  e \in Seq(Token) /\ \A i \in DOMAIN e : e[i] \in Word \/ \E j \in DOMAIN s : e[i] = s[j]
  <2>1. k \in 1..Len(s)
    OBVIOUS
  <2> DEFINE before == SubSeq(s, 1, k - 1)
             after == SubSeq(s, k + 1, Len(s))
  <2>2. before \in Seq(Token) /\ Len(before) = k - 1 /\ \A i \in 1..k - 1 : before[i] = s[i]
    BY <2>1
  <2>3. after \in Seq(Token) /\ Len(after) = Len(s) - k
        /\ \A i \in 1..Len(s) - k : after[i] = s[k + i]
    BY <2>1
  <2>4. e = before \o after
    BY <1>4 DEF RemoveAt
  <2> HIDE DEF before, after
  <2>5. e \in Seq(Token)
    BY <2>2, <2>3, <2>4
  <2>6. ASSUME NEW i \in DOMAIN e PROVE \E j \in DOMAIN s : e[i] = s[j]
    <3>1. i \in 1..Len(s) - 1
      BY <2>1, <2>2, <2>3, <2>4
    <3>2. CASE i <= k - 1
      BY <2>1, <2>2, <2>3, <2>4, <3>1, <3>2
    <3>3. CASE i > k - 1
      <4>1. e[i] = after[i - (k - 1)] /\ i - (k - 1) \in 1..Len(s) - k
        BY <2>1, <2>2, <2>3, <2>4, <3>1, <3>3
      <4>2. e[i] = s[k + (i - (k - 1))] /\ k + (i - (k - 1)) \in 1..Len(s)
        BY <2>1, <2>3, <4>1
      <4>3. QED
        BY <4>2
    <3>4. QED
      BY <2>1, <3>1, <3>2, <3>3
  <2>7. QED
    BY <2>5, <2>6
<1>5. QED
  BY <1>1, <1>2, <1>3, <1>4 DEF Edited

-----------------------------------------------------------------------------
(* The inductive invariant.                                                *)

\* The pointers in s are of devices that had the name of m.
Pointers(s, m, K) == \A i \in DOMAIN s : s[i] \in Device => <<s[i], NameOf[m]>> \in K

\* What a run has in hand: rows that were given to it, the device found by the
\* name of the row, and for each row of the listing that is not left or in hand,
\* as long as ok holds, a device of its name that it stamped.
InHand(q, K) ==
  /\ q.todo \subseteq K
  /\ q.pc \in {"get", "patch"} => q.row \in K /\ q.to \in Managed /\ q.row[2] = NameOf[q.to]
  /\ q.pc = "patch" => Pointers(q.read, q.to, K)
Stamped(q, row) == \E m \in Managed : NameOf[m] = row[2] /\ <<row, m>> \in q.stamped
Accounted(q) ==
  /\ q.ok => \A row \in q.total :
       row \in q.todo \/ (q.pc \in {"get", "patch"} /\ row = q.row) \/ Stamped(q, row)
  /\ q.pc = "ended" /\ q.exit = 0 => q.ok /\ q.todo = {}
RunOK(q, K) == InHand(q, K) /\ Accounted(q)

NotesOK ==
  /\ notes \in [Managed -> Seq(Token)]
  /\ late \subseteq [to: Managed, notes: Seq(Token)]
  /\ \A m \in Managed : Pointers(notes[m], m, known)
  /\ \A l \in late : Pointers(l.notes, l.to, known)
RestOK ==
  /\ hostname \in [Device -> Host \cup {None}]
  /\ known \subseteq Row
  /\ DOMAIN text = Managed /\ spoiled \subseteq Managed /\ edits \in 0..MaxEdits
  /\ \A d \in Device : hostname[d] # None => <<d, hostname[d]>> \in known
RunsOK == run \in [Run -> RunState] /\ \A r \in Run : RunOK(run[r], known)

IInv == NotesOK /\ RestOK /\ RunsOK

\* More is known as devices enroll.
LEMMA Grows ==
  ASSUME NEW K, NEW L, K \subseteq L, NEW q, RunOK(q, K)
  PROVE  RunOK(q, L)
BY DEF RunOK, InHand, Pointers

\* A step of one run.
LEMMA RunStep ==
  ASSUME IInv, NEW r \in Run, NEW q \in RunState, RunOK(q, known),
         run' = [run EXCEPT ![r] = q], NotesOK',
         UNCHANGED <<hostname, known, text, spoiled, edits>>
  PROVE  IInv'
<1>1. run' \in [Run -> RunState] /\ \A p \in Run : run'[p] = IF p = r THEN q ELSE run[p]
  BY DEF IInv, RunsOK
<1>2. \A p \in Run : RunOK(run'[p], known)
  BY <1>1 DEF IInv, RunsOK
<1>3. RunsOK'
  BY <1>1, <1>2 DEF RunsOK
<1>4. RestOK'
  BY DEF IInv, RestOK
<1>5. QED
  BY <1>3, <1>4 DEF IInv

LEMMA Same ==
  ASSUME NotesOK, UNCHANGED <<notes, late, known>>
  PROVE  NotesOK'
BY DEF NotesOK, Pointers

LEMMA IdleOK == Idle \in RunState /\ \A K : RunOK(Idle, K)
<1>1. <<>> \in Seq(Token)
  OBVIOUS
<1>2. Idle \in RunState
  BY <1>1 DEF Idle, RunState
<1>3. QED
  BY <1>2 DEF Idle, RunOK, InHand, Accounted, Pointers

\* A run given rows that are known.
LEMMA BegunOK ==
  ASSUME NEW rows, rows \subseteq Row, NEW K, rows \subseteq K
  PROVE  LET q == [Idle EXCEPT !.pc = "next", !.todo = rows, !.total = rows] IN
         q \in RunState /\ RunOK(q, K)
<1> DEFINE q == [Idle EXCEPT !.pc = "next", !.todo = rows, !.total = rows]
<1>1. q \in RunState
  BY IdleOK DEF RunState
<1>2. q.pc = "next" /\ q.todo = rows /\ q.total = rows
  BY DEF Idle
<1> HIDE DEF q
<1>3. RunOK(q, K)
  BY <1>2 DEF RunOK, InHand, Accounted
<1>4. QED
  BY <1>1, <1>3 DEF q

\* stamp_one returned without success, or the run was refused or died.
LEMMA MissedOK ==
  ASSUME NEW q \in RunState, NEW K, RunOK(q, K), NEW rest, rest \subseteq q.todo
  PROVE  LET n == [q EXCEPT !.pc = "next", !.row = None, !.to = None, !.read = <<>>,
                            !.ok = FALSE, !.todo = rest] IN
         n \in RunState /\ RunOK(n, K)
<1> DEFINE n == [q EXCEPT !.pc = "next", !.row = None, !.to = None, !.read = <<>>,
                          !.ok = FALSE, !.todo = rest]
<1>1. <<>> \in Seq(Token) /\ rest \subseteq Row
  BY DEF RunState
<1>2. n \in RunState
  BY <1>1 DEF RunState
<1>3. n.pc = "next" /\ n.todo = rest /\ n.ok = FALSE
  BY DEF RunState
<1> HIDE DEF n
<1>4. RunOK(n, K)
  BY <1>3 DEF RunOK, InHand, Accounted
<1>5. QED
  BY <1>2, <1>4 DEF n

LEMMA FailedOK ==
  ASSUME NEW code \in {1, 2}
  PROVE  LET n == [Idle EXCEPT !.pc = "ended", !.exit = code] IN
         n \in RunState /\ \A K : RunOK(n, K)
<1> DEFINE n == [Idle EXCEPT !.pc = "ended", !.exit = code]
<1>1. n \in RunState
  <2>1. code \in 0..2
    OBVIOUS
  <2>2. QED
    BY <2>1, IdleOK DEF RunState
<1>2. n.pc = "ended" /\ n.todo = {} /\ n.total = {} /\ n.exit # 0
  BY DEF Idle
<1> HIDE DEF n
<1>3. \A K : RunOK(n, K)
  BY <1>2 DEF RunOK, InHand, Accounted
<1>4. QED
  BY <1>1, <1>3 DEF n

\* The notes a run computes.
LEMMA ComputedOK ==
  ASSUME IInv, NEW r \in Run, run[r].pc = "patch"
  PROVE  LET s == Upsert(run[r].read, run[r].row[1]) IN
         /\ run[r].to \in Managed /\ run[r].row \in Row /\ run[r].row[2] = NameOf[run[r].to]
         /\ s \in Seq(Token) /\ Pointers(s, run[r].to, known)
<1> DEFINE q == run[r]
           d == q.row[1]
           s == Upsert(q.read, d)
<1>1. q \in RunState /\ InHand(q, known) /\ known \subseteq Row
  BY DEF IInv, RunsOK, RunOK, RestOK
<1>2. q.to \in Managed /\ q.row \in known /\ q.row \in Row /\ q.row[2] = NameOf[q.to]
      /\ q.read \in Seq(Token) /\ Pointers(q.read, q.to, known)
  BY <1>1 DEF InHand, RunState
<1>3. d \in Device /\ q.row = <<d, NameOf[q.to]>>
  BY <1>2 DEF Row
<1> HIDE DEF d
<1>4. s \in Seq(Token)
      /\ \A i \in DOMAIN s : s[i] \in {BEGIN, d, END} \/ \E j \in DOMAIN q.read : s[i] = q.read[j]
  BY <1>2, <1>3, UpsertTokens
<1> HIDE DEF s
<1>5. BEGIN \notin Device /\ END \notin Device
  BY TokenAssumption DEF BEGIN, END
<1>6. Pointers(s, q.to, known)
  BY <1>2, <1>3, <1>4, <1>5 DEF Pointers
<1>7. QED
  BY <1>2, <1>4, <1>6 DEF s, d

-----------------------------------------------------------------------------
(* One lemma per step of a run.                                            *)

LEMMA FindStep ==
  ASSUME IInv, NEW r \in Run, Find(r)
  PROVE  IInv'
<1>1. PICK row \in run[r].todo, m \in Managed :
        /\ NameOf[m] = row[2]
        /\ run' = [run EXCEPT ![r].pc = "get", ![r].row = row, ![r].to = m,
                              ![r].todo = @ \ {row}]
  BY DEF Find
<1> DEFINE p == run[r]
           q == [p EXCEPT !.pc = "get", !.row = row, !.to = m, !.todo = p.todo \ {row}]
<1>2. p \in RunState /\ RunOK(p, known)
  BY DEF IInv, RunsOK
<1>3. run' = [run EXCEPT ![r] = q]
  BY <1>1, <1>2 DEF IInv, RunsOK, RunState
<1>4. row \in Row /\ row \in known
  BY <1>2 DEF RunState, RunOK, InHand
<1>5. q \in RunState
  BY <1>2, <1>4 DEF RunState
<1>6. /\ q.pc = "get" /\ q.row = row /\ q.to = m /\ q.todo = p.todo \ {row}
      /\ q.ok = p.ok /\ q.total = p.total /\ q.stamped = p.stamped
  BY <1>2 DEF RunState
<1>10. p.pc = "next"
  BY DEF Find
<1> HIDE DEF q, p
<1>7. InHand(q, known)
  BY <1>1, <1>2, <1>4, <1>6 DEF RunOK, InHand
<1>8. Accounted(q)
  BY <1>2, <1>6, <1>10 DEF RunOK, Accounted, Stamped
<1>9. QED
  BY <1>3, <1>5, <1>7, <1>8, RunStep, Same DEF RunOK, Find, IInv

LEMMA FindFailsStep ==
  ASSUME IInv, NEW r \in Run, FindFails(r)
  PROVE  IInv'
<1>1. PICK row \in run[r].todo :
        run' = [run EXCEPT ![r].ok = FALSE, ![r].todo = @ \ {row}]
  BY DEF FindFails
<1> DEFINE p == run[r]
           q == [p EXCEPT !.ok = FALSE, !.todo = p.todo \ {row}]
<1>2. p \in RunState /\ RunOK(p, known) /\ p.pc = "next"
  BY DEF IInv, RunsOK, FindFails
<1>3. run' = [run EXCEPT ![r] = q]
  BY <1>1, <1>2 DEF IInv, RunsOK, RunState
<1>4. q \in RunState
  BY <1>2 DEF RunState
<1>5. q.pc = "next" /\ q.todo = p.todo \ {row} /\ q.ok = FALSE
  BY <1>2 DEF RunState
<1> HIDE DEF q, p
<1>6. RunOK(q, known)
  BY <1>2, <1>5 DEF RunOK, InHand, Accounted
<1>7. QED
  BY <1>3, <1>4, <1>6, RunStep, Same DEF FindFails, IInv

LEMMA GetStep ==
  ASSUME IInv, NEW r \in Run, Get(r)
  PROVE  IInv'
<1> DEFINE p == run[r]
           q == [p EXCEPT !.pc = "patch", !.read = notes[p.to]]
<1>1. p \in RunState /\ RunOK(p, known) /\ p.pc = "get"
  BY DEF IInv, RunsOK, Get
<1>2. p.to \in Managed
  BY <1>1 DEF RunOK, InHand
<1>3. notes[p.to] \in Seq(Token) /\ Pointers(notes[p.to], p.to, known)
  BY <1>2 DEF IInv, NotesOK
<1>4. run' = [run EXCEPT ![r] = q]
  BY <1>1 DEF Get, IInv, RunsOK, RunState
<1>5. q \in RunState
  BY <1>1, <1>3 DEF RunState
<1>6. /\ q.pc = "patch" /\ q.read = notes[p.to] /\ q.row = p.row /\ q.to = p.to
      /\ q.todo = p.todo /\ q.ok = p.ok /\ q.total = p.total /\ q.stamped = p.stamped
  BY <1>1 DEF RunState
<1> HIDE DEF q, p
<1>7. RunOK(q, known)
  BY <1>1, <1>3, <1>6 DEF RunOK, InHand, Accounted, Stamped
<1>8. QED
  BY <1>4, <1>5, <1>7, RunStep, Same DEF Get, IInv

\* FAIL, with the notes as they were or the PATCH on its way.
LEMMA FailStep ==
  ASSUME IInv, NEW r \in Run, NotesOK', UNCHANGED <<hostname, known, text, spoiled, edits>>,
         run' = [run EXCEPT ![r] = [Returned(r) EXCEPT !.ok = FALSE]]
  PROVE  IInv'
<1> DEFINE p == run[r]
           q == [p EXCEPT !.pc = "next", !.row = None, !.to = None, !.read = <<>>,
                          !.ok = FALSE, !.todo = p.todo]
<1>1. p \in RunState /\ RunOK(p, known)
  BY DEF IInv, RunsOK
<1>2. q = [Returned(r) EXCEPT !.ok = FALSE]
  BY <1>1 DEF Returned, RunState
<1>3. q \in RunState /\ RunOK(q, known)
  BY <1>1, MissedOK
<1> HIDE DEF q
<1>4. QED
  BY <1>2, <1>3, RunStep

LEMMA ExitStep ==
  ASSUME IInv, NEW r \in Run, NotesOK', UNCHANGED <<hostname, known, text, spoiled, edits>>,
         NEW code \in {1, 2}, Exit(r, code)
  PROVE  IInv'
<1> DEFINE q == [Idle EXCEPT !.pc = "ended", !.exit = code]
<1>1. run' = [run EXCEPT ![r] = q]
  <2>1. code # 0
    OBVIOUS
  <2>2. QED
    BY <2>1 DEF Exit
<1>2. q \in RunState /\ RunOK(q, known)
  BY FailedOK
<1> HIDE DEF q
<1>3. QED
  BY <1>1, <1>2, RunStep

LEMMA PatchStep ==
  ASSUME IInv, NEW r \in Run, Patch(r)
  PROVE  IInv'
<1> DEFINE p == run[r]
           s == Upsert(p.read, p.row[1])
           q == [Returned(r) EXCEPT !.stamped = p.stamped \cup {<<p.row, p.to>>}]
<1>1. p \in RunState /\ RunOK(p, known) /\ p.pc = "patch"
  BY DEF IInv, RunsOK, Patch
<1>2. p.to \in Managed /\ p.row \in Row /\ p.row[2] = NameOf[p.to]
      /\ s \in Seq(Token) /\ Pointers(s, p.to, known)
  BY <1>1, ComputedOK
<1>3. run' = [run EXCEPT ![r] = q] /\ notes' = [notes EXCEPT ![p.to] = s]
      /\ UNCHANGED <<hostname, late, known, text, spoiled, edits>>
  <2>1. Returned(r).stamped = p.stamped
    BY <1>1 DEF Returned, RunState
  <2>2. QED
    BY <2>1 DEF Patch
<1> HIDE DEF s
<1>4. notes' \in [Managed -> Seq(Token)]
      /\ \A m \in Managed : notes'[m] = IF m = p.to THEN s ELSE notes[m]
  BY <1>2, <1>3 DEF IInv, NotesOK
<1>5. NotesOK'
  BY <1>2, <1>3, <1>4 DEF IInv, NotesOK, Pointers
<1>6. q \in RunState
  <2>1. <<>> \in Seq(Token) /\ <<p.row, p.to>> \in Row \X Managed
    BY <1>2
  <2>2. QED
    BY <1>1, <2>1 DEF Returned, RunState
<1>7. /\ q.pc = "next" /\ q.todo = p.todo /\ q.ok = p.ok /\ q.total = p.total
      /\ q.stamped = p.stamped \cup {<<p.row, p.to>>}
  BY <1>1 DEF Returned, RunState
<1> HIDE DEF q, p
<1>8. InHand(q, known)
  BY <1>1, <1>7 DEF RunOK, InHand
<1>9. Accounted(q)
  <2>1. ASSUME q.ok, NEW row \in q.total PROVE row \in q.todo \/ Stamped(q, row)
    <3>1. row \in p.todo \/ row = p.row \/ Stamped(p, row)
      BY <1>1, <1>7, <2>1 DEF RunOK, Accounted
    <3>2. CASE row = p.row
      BY <1>2, <1>7, <3>2 DEF Stamped
    <3>3. CASE Stamped(p, row)
      BY <1>7, <3>3 DEF Stamped
    <3>4. QED
      BY <1>7, <3>1, <3>2, <3>3
  <2>2. QED
    BY <1>7, <2>1 DEF Accounted
<1>10. QED
  BY <1>3, <1>5, <1>6, <1>8, <1>9, RunStep DEF RunOK

LEMMA UnansweredStep ==
  ASSUME IInv, NEW r \in Run, Unanswered(r)
  PROVE  IInv'
<1> DEFINE s == Upsert(run[r].read, run[r].row[1])
           l == [to |-> run[r].to, notes |-> s]
<1>1. run[r].to \in Managed /\ s \in Seq(Token) /\ Pointers(s, run[r].to, known)
  BY ComputedOK DEF Unanswered
<1>2. late' = late \cup {l} /\ UNCHANGED <<hostname, notes, known, text, spoiled, edits>>
  BY DEF Unanswered
<1> HIDE DEF s
<1>3. l \in [to: Managed, notes: Seq(Token)] /\ Pointers(l.notes, l.to, known)
  BY <1>1
<1> HIDE DEF l
<1>4. NotesOK'
  BY <1>2, <1>3 DEF IInv, NotesOK, Pointers
<1>5. run' = [run EXCEPT ![r] = [Returned(r) EXCEPT !.ok = FALSE]] \/ Exit(r, 1)
  BY DEF Unanswered
<1>6. QED
  BY <1>2, <1>4, <1>5, FailStep, ExitStep

LEMMA FinishStep ==
  ASSUME IInv, NEW r \in Run, Finish(r)
  PROVE  IInv'
<1>1. UNCHANGED <<hostname, notes, late, known, text, spoiled, edits>> /\ NotesOK'
  BY Same DEF Finish, IInv
<1>2. CASE ~run[r].ok
  BY <1>1, <1>2, ExitStep DEF Finish
<1>3. CASE run[r].ok
  <2> DEFINE p == run[r]
             q == [Returned(r) EXCEPT !.pc = "ended"]
  <2>1. p \in RunState /\ RunOK(p, known) /\ p.pc = "next" /\ p.todo = {} /\ p.ok
    BY <1>3 DEF IInv, RunsOK, Finish
  <2>2. run' = [run EXCEPT ![r] = q]
    BY <1>3 DEF Finish, Exit
  <2>3. q \in RunState
    <3>1. <<>> \in Seq(Token)
      OBVIOUS
    <3>2. QED
      BY <2>1, <3>1 DEF Returned, RunState
  <2>4. /\ q.pc = "ended" /\ q.todo = p.todo /\ q.ok = p.ok /\ q.total = p.total
        /\ q.stamped = p.stamped
    BY <2>1 DEF Returned, RunState
  <2> HIDE DEF q, p
  <2>5. RunOK(q, known)
    BY <2>1, <2>4 DEF RunOK, InHand, Accounted, Stamped
  <2>6. QED
    BY <1>1, <2>2, <2>3, <2>5, RunStep
<1>4. QED
  BY <1>2, <1>3

LEMMA ListStep ==
  ASSUME IInv, NEW r \in Run, List(r)
  PROVE  IInv'
<1> DEFINE rows == {<<d, hostname[d]>> : d \in {e \in Device : hostname[e] # None}}
           q == [Idle EXCEPT !.pc = "next", !.todo = rows, !.total = rows]
<1>1. run' = [run EXCEPT ![r] = q]
      /\ UNCHANGED <<hostname, notes, late, known, text, spoiled, edits>>
  BY DEF List
<1>2. rows \subseteq known /\ known \subseteq Row
  BY DEF IInv, RestOK
<1> HIDE DEF rows
<1>3. q \in RunState /\ RunOK(q, known)
  BY <1>2, BegunOK
<1>4. NotesOK'
  BY <1>1, Same DEF IInv
<1> HIDE DEF q
<1>5. QED
  BY <1>1, <1>3, <1>4, RunStep

-----------------------------------------------------------------------------
(* The steps that change what is known, or the notes alone.                *)

\* Enroll and Manual: more is known.
LEMMA KnownStep ==
  ASSUME IInv, NEW row \in Row, known' = known \cup {row}, RunsOK',
         UNCHANGED <<notes, late, text, spoiled, edits>>,
         hostname' = hostname \/ hostname' = [hostname EXCEPT ![row[1]] = row[2]]
  PROVE  IInv'
<1>1. NotesOK'
  BY DEF IInv, NotesOK, Pointers
<1>2. row = <<row[1], row[2]>> /\ row[1] \in Device /\ row[2] \in Host
  BY DEF Row
<1>3. RestOK'
  BY <1>2 DEF IInv, RestOK
<1>4. QED
  BY <1>1, <1>3 DEF IInv

LEMMA EnrollStep ==
  ASSUME IInv, NEW d \in Device, NEW h \in Host, Enroll(d, h)
  PROVE  IInv'
<1>1. <<d, h>> \in Row /\ <<d, h>>[1] = d /\ <<d, h>>[2] = h
  BY DEF Row
<1>2. known' = known \cup {<<d, h>>} /\ hostname' = [hostname EXCEPT ![d] = h]
      /\ UNCHANGED <<notes, run, late, text, spoiled, edits>>
  BY DEF Enroll
<1>3. \A r \in Run : RunOK(run[r], known')
  BY <1>2, Grows DEF IInv, RunsOK
<1>4. RunsOK'
  BY <1>2, <1>3 DEF IInv, RunsOK
<1>5. QED
  BY <1>1, <1>2, <1>4, KnownStep

LEMMA ManualStep ==
  ASSUME IInv, NEW r \in Run, NEW row \in Row, Manual(r, row)
  PROVE  IInv'
<1> DEFINE q == [Idle EXCEPT !.pc = "next", !.todo = {row}, !.total = {row}]
<1>1. known' = known \cup {row} /\ run' = [run EXCEPT ![r] = q]
      /\ UNCHANGED <<hostname, notes, late, text, spoiled, edits>>
  BY DEF Manual
<1>2. q \in RunState /\ RunOK(q, known')
  <2>1. {row} \subseteq Row /\ {row} \subseteq known'
    BY <1>1
  <2>2. QED
    BY <2>1, BegunOK
<1> HIDE DEF q
<1>3. run' \in [Run -> RunState] /\ \A p \in Run : run'[p] = IF p = r THEN q ELSE run[p]
  BY <1>1, <1>2 DEF IInv, RunsOK
<1>4. \A p \in Run : RunOK(run[p], known')
  BY <1>1, Grows DEF IInv, RunsOK
<1>5. \A p \in Run : RunOK(run'[p], known')
  BY <1>2, <1>3, <1>4
<1>6. RunsOK'
  BY <1>3, <1>5 DEF RunsOK
<1>7. QED
  BY <1>1, <1>6, KnownStep

LEMMA EditStep ==
  ASSUME IInv, NEW m \in Managed, Edit(m)
  PROVE  IInv'
<1>1. PICK s \in Edited(notes[m]) :
        /\ notes' = [notes EXCEPT ![m] = s]
        /\ text' = [text EXCEPT ![m] = Words(s)]
        /\ spoiled' = spoiled \cup {m} \/ spoiled' = spoiled
  BY DEF Edit
<1>2. UNCHANGED <<hostname, run, late, known>> /\ edits < MaxEdits /\ edits' = edits + 1
  BY DEF Edit
<1>3. notes[m] \in Seq(Token) /\ Pointers(notes[m], m, known)
  BY DEF IInv, NotesOK
<1>4. s \in Seq(Token)
      /\ \A i \in DOMAIN s : s[i] \in Word \/ \E j \in DOMAIN notes[m] : s[i] = notes[m][j]
  BY <1>3, EditedTokens
<1>5. Pointers(s, m, known)
  BY <1>3, <1>4, TokenAssumption DEF Pointers
<1>6. notes' \in [Managed -> Seq(Token)]
      /\ \A n \in Managed : notes'[n] = IF n = m THEN s ELSE notes[n]
  BY <1>1, <1>4 DEF IInv, NotesOK
<1>7. \A n \in Managed : Pointers(notes'[n], n, known)
  BY <1>5, <1>6 DEF IInv, NotesOK
<1>8. NotesOK'
  BY <1>2, <1>6, <1>7 DEF IInv, NotesOK, Pointers
<1>9. RestOK'
  <2>1. edits' \in 0..MaxEdits
    BY <1>2, EditsAssumption DEF IInv, RestOK
  <2>2. DOMAIN text' = Managed /\ spoiled' \subseteq Managed
    BY <1>1 DEF IInv, RestOK
  <2>3. QED
    BY <1>2, <2>1, <2>2 DEF IInv, RestOK
<1>10. RunsOK'
  BY <1>2 DEF IInv, RunsOK, RunOK, InHand, Accounted, Stamped, Pointers
<1>11. QED
  BY <1>8, <1>9, <1>10 DEF IInv

LEMMA LateStep ==
  ASSUME IInv, NEW l \in late, LatePatch(l)
  PROVE  IInv'
<1>1. late' = late \ {l} /\ notes' \in {notes, [notes EXCEPT ![l.to] = l.notes]}
      /\ UNCHANGED <<hostname, run, known, text, spoiled, edits>>
  BY DEF LatePatch
<1>2. l.to \in Managed /\ l.notes \in Seq(Token) /\ Pointers(l.notes, l.to, known)
  BY DEF IInv, NotesOK
<1>3. notes' \in [Managed -> Seq(Token)]
      /\ \A n \in Managed : notes'[n] = notes[n] \/ (n = l.to /\ notes'[n] = l.notes)
  BY <1>1, <1>2 DEF IInv, NotesOK
<1>4. \A n \in Managed : Pointers(notes'[n], n, known)
  BY <1>2, <1>3 DEF IInv, NotesOK
<1>5. NotesOK'
  BY <1>1, <1>3, <1>4 DEF IInv, NotesOK, Pointers
<1>6. RestOK' /\ RunsOK'
  BY <1>1 DEF IInv, RestOK, RunsOK, RunOK, InHand, Accounted, Stamped, Pointers
<1>7. QED
  BY <1>5, <1>6 DEF IInv

-----------------------------------------------------------------------------
(* The specification.                                                      *)

LEMMA InitIInv == Init => IInv
<1> SUFFICES ASSUME Init PROVE IInv
  OBVIOUS
<1>1. <<>> \in Seq(Token)
  OBVIOUS
<1>2. NotesOK
  BY <1>1 DEF Init, NotesOK, Pointers
<1>3. RestOK
  BY EditsAssumption DEF Init, RestOK
<1>4. run \in [Run -> RunState] /\ \A r \in Run : run[r] = Idle
  BY IdleOK DEF Init
<1>5. RunsOK
  BY <1>4, IdleOK DEF RunsOK
<1>6. QED
  BY <1>2, <1>3, <1>5 DEF IInv

LEMMA NextIInv == IInv /\ [Next]_vars => IInv'
<1> SUFFICES ASSUME IInv, [Next]_vars PROVE IInv'
  OBVIOUS
<1>1. ASSUME NEW r \in Run, Refused(r) \/ Die(r) PROVE IInv'
  <2>1. /\ Exit(r, 1) \/ Exit(r, 2)
        /\ UNCHANGED <<hostname, notes, late, known, text, spoiled, edits>>
    BY <1>1 DEF Refused, Die
  <2>2. NotesOK'
    BY <2>1, Same DEF IInv
  <2>3. QED
    BY <2>1, <2>2, ExitStep
<1>2. ASSUME NEW r \in Run, Fail(r) PROVE IInv'
  <2>1. /\ run' = [run EXCEPT ![r] = [Returned(r) EXCEPT !.ok = FALSE]]
        /\ UNCHANGED <<hostname, notes, late, known, text, spoiled, edits>>
    BY <1>2 DEF Fail
  <2>2. NotesOK'
    BY <2>1, Same DEF IInv
  <2>3. QED
    BY <2>1, <2>2, FailStep
<1>3. CASE UNCHANGED vars
  BY <1>3 DEF vars, IInv, NotesOK, RestOK, RunsOK, RunOK, InHand, Accounted, Stamped, Pointers
<1>4. QED
  BY <1>1, <1>2, <1>3, EnrollStep, EditStep, ListStep, ManualStep, FindStep, FindFailsStep,
     GetStep, PatchStep, UnansweredStep, FinishStep, LateStep DEF Next

LEMMA Invariance == Spec => []IInv
<1>1. QED
  BY InitIInv, NextIInv, PTL DEF Spec

\* Every variable stays in its set, for any runs, devices and edits.
THEOREM TypeCorrect == Spec => []TypeOK
<1>1. IInv => TypeOK
  BY DEF IInv, NotesOK, RestOK, RunsOK, TypeOK
<1>2. QED
  BY <1>1, Invariance, PTL

\* A pointer in the notes leads to a device that had the name of the Intune
\* device, whatever runs, people, renames and late requests have done.
THEOREM PointersLeadHome == Spec => []PointerOfHost
<1>1. IInv => PointerOfHost
  BY DEF IInv, NotesOK, Pointers, PointerOfHost
<1>2. QED
  BY <1>1, Invariance, PTL

\* A run that exits with 0 has stamped every row it was given.
THEOREM ExitZeroIsEarned == Spec => []ExitZeroMeansStamped
<1>1. IInv => ExitZeroMeansStamped
  <2> SUFFICES ASSUME IInv, NEW r \in Run, run[r].pc = "ended", run[r].exit = 0,
                      NEW row \in run[r].total
               PROVE  Stamped(run[r], row)
    BY DEF ExitZeroMeansStamped, Stamped
  <2>1. Accounted(run[r])
    BY DEF IInv, RunsOK, RunOK
  <2>2. QED
    BY <2>1 DEF Accounted
<1>2. QED
  BY <1>1, Invariance, PTL
=============================================================================
