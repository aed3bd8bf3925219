--------------------------- MODULE Volumes_proofs ---------------------------
(***************************************************************************)
(* Proofs about Volumes, for any volumes, slots and keys: as long as the   *)
(* operator names one volume, the machine is recoverable and state.json    *)
(* knows the temporary slots.                                              *)
(***************************************************************************)
EXTENDS Volumes, WellFoundedInduction, TLAPS

-----------------------------------------------------------------------------
(* Slots.                                                                  *)

\* A tool takes the lowest of the slots that are left.
LEMMA LowestIn ==
  ASSUME NEW S, S \subseteq Slot, S # {}
  PROVE  Lowest(S) \in S
<1> DEFINE Less == {ss \in Nat \X Nat : ss[1] < ss[2]}
<1>1. IsWellFoundedOn(Less, Nat)
  BY NatLessThanWellFounded DEF OpToRel
<1>2. S \subseteq Nat
  BY SlotAssumption
<1>3. PICK s \in S : \A t \in S : <<t, s>> \notin Less
  <2> HIDE DEF Less
  <2> QED
    BY <1>1, <1>2, WFMin
<1>4. ASSUME NEW t \in S PROVE s <= t
  <2>1. s \in Nat /\ t \in Nat
    BY <1>2
  <2>2. ~(t < s)
    BY <1>3, <2>1
  <2>3. QED
    BY <2>1, <2>2
<1>5. QED
  BY <1>4 DEF Lowest

IsTemp(c) == c \in Protector /\ c.temp
IsMain(c) == c \in Protector /\ ~c.temp
Main(m)   == [tool |-> IF m = "systemd" THEN "systemd" ELSE "clevis", temp |-> FALSE]

\* Put fills one free slot and leaves the others alone.
LEMMA PutFills ==
  ASSUME NEW hd \in Header, Free(hd) # {}, NEW c \in Key \cup Protector
  PROVE  /\ Put(hd, c) \in Header
         /\ Lowest(Free(hd)) \in Slot
         /\ hd[Lowest(Free(hd))] = None
         /\ \A s \in Slot : Put(hd, c)[s] = IF s = Lowest(Free(hd)) THEN c ELSE hd[s]
<1>1. Lowest(Free(hd)) \in Free(hd)
  BY LowestIn DEF Free
<1>2. Lowest(Free(hd)) \in Slot /\ hd[Lowest(Free(hd))] = None
  BY <1>1 DEF Free
<1>3. QED
  BY <1>2 DEF Put, Header

\* What a slot holds: nothing, a key, a main protector or a temporary one.
LEMMA Kinds ==
  /\ ~IsTemp(None) /\ ~IsMain(None)
  /\ \A k \in Key : ~IsTemp(k) /\ ~IsMain(k)
  /\ \A c \in Key : c # None
<1>1. \A k \in Key : k \notin Protector /\ k # None
  BY KeyAssumption, NoneAssumption
<1>2. None \notin Protector
  BY KeyAssumption
<1>3. QED
  BY <1>1, <1>2 DEF IsTemp, IsMain

LEMMA MainIs == \A m : Main(m) \in Protector /\ IsMain(Main(m)) /\ ~IsTemp(Main(m))
BY DEF Main, Protector, IsMain, IsTemp

LEMMA TempIs == \A m : TempOf(m) \in Protector /\ ~IsMain(TempOf(m)) /\ IsTemp(TempOf(m))
BY DEF TempOf, Protector, IsMain, IsTemp

\* What an enrollment leaves on its volume.
Filled(hd, new, k) ==
  /\ new \in Header
  /\ \A s \in Slot : new[s] = hd[s] \/ (hd[s] = None /\ (new[s] = k \/ IsMain(new[s])))
  /\ \E s \in Slot : new[s] = k

LEMMA PutKey ==
  ASSUME NEW hd \in Header, Free(hd) # {}, NEW k \in Key
  PROVE  Filled(hd, Put(hd, k), k)
<1>1. k \in Key \cup Protector
  OBVIOUS
<1>2. QED
  BY <1>1, PutFills DEF Filled

LEMMA PutBoth ==
  ASSUME NEW hd \in Header, Free(hd) # {}, NEW k \in Key, NEW m,
         m # None => Free(Put(hd, k)) # {}
  PROVE  Filled(hd, Bound(Put(hd, k), m), k)
<1>1. CASE m = None
  BY <1>1, PutKey DEF Bound
<1>2. CASE m # None
  <2> DEFINE new == Put(hd, k)
             both == Put(new, Main(m))
             s1 == Lowest(Free(hd))
             s2 == Lowest(Free(new))
  <2>1. /\ new \in Header /\ s1 \in Slot /\ hd[s1] = None
        /\ \A s \in Slot : new[s] = IF s = s1 THEN k ELSE hd[s]
    <3>1. k \in Key \cup Protector
      OBVIOUS
    <3>2. QED
      BY <3>1, PutFills
  <2>2. Main(m) \in Key \cup Protector
    BY MainIs
  <2>3. Free(new) # {}
    BY <1>2
  <2> HIDE DEF new
  <2>4. /\ both \in Header /\ s2 \in Slot /\ new[s2] = None
        /\ \A s \in Slot : both[s] = IF s = s2 THEN Main(m) ELSE new[s]
    BY <2>1, <2>2, <2>3, PutFills
  <2> HIDE DEF both, s1, s2
  <2>5. k # None
    BY Kinds
  <2>6. s1 # s2
    BY <2>1, <2>4, <2>5
  <2>7. both[s1] = k
    BY <2>1, <2>4, <2>6
  <2>8. IsMain(Main(m))
    BY MainIs
  <2>9. \A s \in Slot : both[s] = hd[s] \/ (hd[s] = None /\ (both[s] = k \/ IsMain(both[s])))
    BY <2>1, <2>4, <2>5, <2>8
  <2>10. Bound(new, m) = both
    BY <1>2 DEF Bound, both, Main
  <2>11. QED
    BY <2>1, <2>4, <2>7, <2>9, <2>10 DEF Filled, new
<1>3. QED
  BY <1>1, <1>2

-----------------------------------------------------------------------------
(* The inductive invariant.                                                *)

\* A volume that was never named holds nothing.
Untouched == \A v \in Volume \ named, s \in Slot : header[v][s] = None

\* state.json names a volume that was named, whenever it says suspended.
DeviceNamed ==
  /\ state.device \in named \cup {None}
  /\ state.suspended => state.device # None

\* With one volume: what the portal reveals opens what unlocks by itself, and
\* a temporary slot is the one of the state or was lost.
OneRecoverable ==
  OneVolume /\ ~unread /\ state.escrowed =>
    \A v \in Volume : (\E s \in Slot : IsMain(header[v][s])) => \E s \in Slot : header[v][s] = active
TempAt(v, s) == s \in lost[v] \/ (state.suspended /\ v = state.device /\ s = state.slot)
OneTemp ==
  OneVolume =>
    \A v \in Volume, s \in Slot :
      IsTemp(header[v][s]) <=> TempAt(v, s)

\* The slot that the state names is not one of the lost.
NotLost == OneVolume /\ state.suspended => state.slot \notin lost[state.device]

\* Only a key in escrow counts as escrowed.
EscrowedKey == state.escrowed => active \in Key

IInv == TypeOK /\ Untouched /\ DeviceNamed /\ EscrowedKey /\ OneRecoverable /\ OneTemp /\ NotLost

\* An enrollment, however far it gets.
Enrolls(v, k, m) ==
  /\ Filled(header[v], header'[v], k)
  /\ header' = [header EXCEPT ![v] = header'[v]]
  /\ named' = named \cup {v} /\ disks' = disks /\ minted' = minted \cup {k} /\ lost' = lost
  /\ \/ active' = k /\ unread' = FALSE
     \/ /\ active' = active /\ unread' = unread
        /\ \A s \in Slot : IsMain(header'[v][s]) => IsMain(header[v][s])
  /\ \/ state' = [state EXCEPT !.enrolled = TRUE]
     \/ /\ active' = k
        /\ state' = [state EXCEPT !.enrolled = TRUE, !.device = v, !.mode = m, !.escrowed = TRUE]

LEMMA EnrollStep ==
  ASSUME IInv, NEW v \in disks, NEW k \in Key, NEW m \in Modes \cup {None}, Enrolls(v, k, m)
  PROVE  IInv'
<1> USE DEF IInv
<1>1. TypeOK'
  BY DEF TypeOK, Enrolls, Filled, State
<1>2. v \in Volume /\ header' \in [Volume -> Header] /\ header \in [Volume -> Header]
  BY <1>1 DEF TypeOK
<1>3. \A w \in Volume : w # v => header'[w] = header[w]
  BY <1>2 DEF Enrolls
<1>4. Untouched'
  BY <1>2, <1>3 DEF Untouched, Enrolls
<1>5. /\ state'.suspended = state.suspended /\ state'.slot = state.slot
      /\ state'.device \in {state.device, v}
      /\ state'.escrowed = state.escrowed \/ active' = k
  BY DEF Enrolls, TypeOK, State
<1>6. DeviceNamed'
  <2>1. v # None
    BY <1>2, NoneAssumption
  <2>2. QED
    BY <1>5, <2>1 DEF DeviceNamed, Enrolls
<1>7. OneVolume' => OneVolume /\ \A w \in Volume : w # v => w \notin named
  BY <1>2 DEF OneVolume, Enrolls
<1>8. \A s \in Slot : IsTemp(header'[v][s]) <=> IsTemp(header[v][s])
  BY Kinds DEF Enrolls, Filled, IsMain, IsTemp
<1>9. OneTemp'
  <2> SUFFICES ASSUME OneVolume', NEW w \in Volume, NEW s \in Slot
               PROVE  IsTemp(header'[w][s]) <=> TempAt(w, s)'
    BY DEF OneTemp, OneVolume, IsTemp, TempAt
  <2>1. state.suspended => state'.device = state.device
    BY <1>5, <1>7, <1>2 DEF DeviceNamed, TypeOK
  <2>2. IsTemp(header[w][s]) <=> TempAt(w, s)
    BY <1>7 DEF OneTemp
  <2>3. IsTemp(header'[w][s]) <=> IsTemp(header[w][s])
    BY <1>3, <1>8
  <2>4. lost' = lost
    BY DEF Enrolls
  <2>5. QED
    BY <1>5, <2>1, <2>2, <2>3, <2>4 DEF TempAt
<1>10. OneRecoverable'
  <2> SUFFICES ASSUME OneVolume', ~unread', state'.escrowed, NEW w \in Volume,
                      NEW s \in Slot, IsMain(header'[w][s])
               PROVE  \E t \in Slot : header'[w][t] = active'
    BY DEF OneRecoverable, OneVolume, IsMain
  <2>1. CASE w # v
    <3>1. header'[w][s] = None
      BY <1>3, <1>7, <2>1 DEF Untouched
    <3>2. QED
      BY <3>1, Kinds
  <2>2. CASE w = v /\ active' = k
    BY <2>2 DEF Enrolls, Filled
  <2>3. CASE w = v /\ active' # k
    <3>1. active' = active /\ state.escrowed /\ ~unread /\ IsMain(header[w][s])
      <4>1. active' = active /\ unread' = unread /\ IsMain(header[w][s])
        BY <2>3 DEF Enrolls
      <4>2. QED
        BY <2>3, <4>1, <1>5
    <3>2. PICK t \in Slot : header[w][t] = active
      BY <3>1, <1>7 DEF OneRecoverable
    <3>3. header'[w][t] = active
      <4>1. active # None
        BY <3>1, Kinds DEF EscrowedKey
      <4>2. QED
        BY <3>2, <4>1, <2>3 DEF Enrolls, Filled
    <3>4. QED
      BY <3>1, <3>3
  <2>4. QED
    BY <2>1, <2>2, <2>3
<1>11. EscrowedKey'
  BY <1>1 DEF EscrowedKey, Enrolls, TypeOK, State
<1>12. NotLost'
  <2>1. lost' = lost
    BY DEF Enrolls
  <2>2. OneVolume' /\ state.suspended => state'.device = state.device
    BY <1>5, <1>7, <1>2 DEF DeviceNamed, TypeOK
  <2>3. QED
    BY <1>5, <1>7, <2>1, <2>2 DEF NotLost
<1>13. QED
  BY <1>1, <1>4, <1>6, <1>9, <1>10, <1>11, <1>12

\* rotate only changes keys, and in the end the portal has the new one.
LEMMA RotateStep ==
  ASSUME IInv, NEW k \in Key, RotateUnread(k) \/ RotateUnescrowed(k) \/ Rotate(k)
  PROVE  IInv'
<1> USE DEF IInv
<1> DEFINE d == state.device
           s1 == Lowest(Free(header[d]))
<1>1. Rotates(k)
  BY DEF RotateUnread, RotateUnescrowed, Rotate
<1>2. d \in Volume /\ d \in named /\ header \in [Volume -> Header]
  BY <1>1 DEF Rotates, TypeOK, State, DeviceNamed
<1>3. header[d] \in Header /\ k \in Key \cup Protector /\ Free(header[d]) # {}
  BY <1>1, <1>2 DEF Rotates
<1>4. s1 \in Slot /\ header[d][s1] = None
  BY <1>3, PutFills
<1> HIDE DEF s1
<1>5. /\ header' = [header EXCEPT ![d] = Swapped(header[d], k)]
      /\ Swapped(header[d], k) \in Header
      /\ \A s \in Slot : Swapped(header[d], k)[s] =
           IF s = s1 THEN k ELSE IF header[d][s] \in Key THEN None ELSE header[d][s]
  BY <1>1, <1>3, <1>4 DEF Rotates, Swapped, Header, s1
<1>6. /\ disks' = disks /\ named' = named /\ minted' = minted \cup {k}
      /\ state'.device = d /\ state'.suspended = state.suspended /\ state'.slot = state.slot
      /\ lost' = lost /\ unread' \in BOOLEAN
      /\ state'.escrowed => active' = k \/ (unread' /\ state.escrowed /\ active' = active)
      /\ state' \in State /\ active' \in Key \cup {None}
  BY <1>1 DEF Rotates, RotateUnread, RotateUnescrowed, Rotate, TypeOK, State
<1>7. TypeOK'
  BY <1>2, <1>5, <1>6 DEF TypeOK
<1>8. \A w \in Volume : w # d => header'[w] = header[w]
  BY <1>2, <1>5
<1>9. \A s \in Slot : header'[d][s] =
        IF s = s1 THEN k ELSE IF header[d][s] \in Key THEN None ELSE header[d][s]
  BY <1>2, <1>5
<1>10. Untouched' /\ DeviceNamed' /\ EscrowedKey'
  BY <1>2, <1>6, <1>8 DEF Untouched, DeviceNamed, EscrowedKey
<1>11. OneTemp'
  <2>1. \A w \in Volume, s \in Slot : IsTemp(header'[w][s]) <=> IsTemp(header[w][s])
    BY <1>4, <1>8, <1>9, Kinds
  <2>2. OneVolume' => OneVolume
    BY <1>6 DEF OneVolume
  <2>3. QED
    BY <1>6, <2>1, <2>2 DEF OneTemp, IsTemp, TempAt
<1>12. OneRecoverable'
  <2> SUFFICES ASSUME OneVolume', ~unread', state'.escrowed, NEW w \in Volume,
                      NEW s \in Slot, IsMain(header'[w][s])
               PROVE  \E t \in Slot : header'[w][t] = active'
    BY DEF OneRecoverable, OneVolume, IsMain
  <2>1. CASE w = d
    BY <2>1, <1>4, <1>6, <1>9
  <2>2. CASE w # d
    <3>1. w \notin named
      BY <2>2, <1>2, <1>6 DEF OneVolume
    <3>2. header'[w][s] = None
      BY <3>1, <2>2, <1>8 DEF Untouched
    <3>3. QED
      BY <3>2, Kinds
  <2>3. QED
    BY <2>1, <2>2
<1>13. NotLost'
  BY <1>6 DEF NotLost, OneVolume
<1>14. QED
  BY <1>7, <1>10, <1>11, <1>12, <1>13

\* suspend adds the one temporary slot that the state then names.
LEMMA SuspendStep ==
  ASSUME IInv, NEW v \in Volume, v \in disks, SuspendOn(v)
  PROVE  IInv'
<1> USE DEF IInv
<1> DEFINE c == TempOf(state.mode)
           s1 == Lowest(Free(header[v]))
<1>1. header[v] \in Header /\ c \in Key \cup Protector /\ Free(header[v]) # {}
  BY TempIs DEF SuspendOn, TypeOK
<1>2. /\ Put(header[v], c) \in Header /\ s1 \in Slot /\ header[v][s1] = None
      /\ \A s \in Slot : Put(header[v], c)[s] = IF s = s1 THEN c ELSE header[v][s]
  BY <1>1, PutFills
<1>3. IsTemp(c) /\ ~IsMain(c)
  BY TempIs
<1> HIDE DEF c
<1>4. /\ header' = [header EXCEPT ![v] = Put(header[v], c)]
      /\ named' = named \cup {v} /\ disks' = disks /\ active' = active /\ minted' = minted
      /\ unread' = unread /\ ~state.suspended
  BY DEF SuspendOn, c
<1>4a. PICK slot \in {s1, None} :
         /\ state' = [state EXCEPT !.device = v, !.suspended = TRUE, !.slot = slot]
         /\ lost' = IF slot = None THEN [lost EXCEPT ![v] = lost[v] \cup {s1}] ELSE lost
  BY DEF SuspendOn, s1
<1>4b. /\ \A w \in Volume, s \in Slot : s \in lost'[w] <=> s \in lost[w] \/ (slot = None /\ w = v /\ s = s1)
       /\ lost' \in [Volume -> SUBSET Slot]
  BY <1>2, <1>4a DEF TypeOK
<1> HIDE DEF s1
<1>5. TypeOK'
  BY <1>2, <1>4, <1>4a, <1>4b DEF TypeOK, State
<1>6. /\ \A w \in Volume : w # v => header'[w] = header[w]
      /\ \A s \in Slot : header'[v][s] = IF s = s1 THEN c ELSE header[v][s]
  BY <1>2, <1>4 DEF TypeOK
<1>7. /\ state'.device = v /\ state'.suspended /\ state'.slot = slot
      /\ state'.escrowed = state.escrowed
  BY <1>4a DEF TypeOK, State
<1>8. Untouched'
  BY <1>4, <1>6 DEF Untouched
<1>9. DeviceNamed' /\ EscrowedKey'
  BY <1>2, <1>4, <1>7, NoneAssumption DEF DeviceNamed, EscrowedKey
<1>10. OneVolume' => OneVolume
  BY <1>4 DEF OneVolume
<1>11. OneTemp'
  <2>1. OneVolume => \A w \in Volume, s \in Slot : IsTemp(header[w][s]) <=> s \in lost[w]
    BY <1>4 DEF OneTemp, TempAt
  <2>2. OneVolume => \A w \in Volume, s \in Slot :
                       IsTemp(header'[w][s]) <=> s \in lost[w] \/ (w = v /\ s = s1)
    BY <1>3, <1>6, <2>1
  <2>3. slot = s1 \/ slot = None
    BY <1>4a
  <2>4. \A s \in Slot : s # None
    BY NoneAssumption
  <2>5. QED
    BY <1>2, <1>7, <1>10, <1>4b, <2>2, <2>3, <2>4 DEF OneTemp, IsTemp, TempAt
<1>12. OneRecoverable'
  <2> SUFFICES ASSUME OneVolume', ~unread', state'.escrowed, NEW w \in Volume,
                      NEW s \in Slot, IsMain(header'[w][s])
               PROVE  \E t \in Slot : header'[w][t] = active'
    BY DEF OneRecoverable, OneVolume, IsMain
  <2>1. IsMain(header[w][s]) /\ state.escrowed /\ ~unread
    BY <1>3, <1>4, <1>6, <1>7
  <2>2. PICK t \in Slot : header[w][t] = active
    BY <1>10, <2>1 DEF OneRecoverable
  <2>3. active \in Key
    BY <2>1 DEF EscrowedKey
  <2>4. header'[w][t] = active
    BY <1>2, <1>6, <2>2, <2>3, Kinds
  <2>5. QED
    BY <1>4, <2>4
<1>13. NotLost'
  <2>1. OneVolume => s1 \notin lost[v]
    BY <1>2, Kinds DEF OneTemp, TempAt
  <2>2. \A w : lost[w] \subseteq Slot \/ w \notin Volume
    BY DEF TypeOK
  <2>3. lost'[v] = IF slot = None THEN lost[v] \cup {s1} ELSE lost[v]
    BY <1>4a DEF TypeOK
  <2>4. None \notin Slot
    BY NoneAssumption
  <2>5. QED
    BY <1>2, <1>7, <1>10, <1>4a, <2>1, <2>2, <2>3, <2>4 DEF NotLost
<1>14. QED
  BY <1>5, <1>8, <1>9, <1>11, <1>12, <1>13

\* verify takes the temporary slot away: with one volume, no key and no
\* protector of the machine.
LEMMA VerifyStep ==
  ASSUME IInv, Verify
  PROVE  IInv'
<1> USE DEF IInv
<1> DEFINE d == state.device
           s1 == state.slot
           cleared == [header[d] EXCEPT ![s1] = None]
<1>1. d \in Volume /\ d \in named /\ s1 \in Slot \cup {None}
  BY DEF Verify, TypeOK, State, DeviceNamed
<1>2. /\ IF s1 = None THEN header' = header ELSE header' = [header EXCEPT ![d] = cleared]
      /\ state' = [state EXCEPT !.suspended = FALSE, !.slot = None]
      /\ named' = named /\ disks' = disks /\ active' = active /\ minted' = minted
      /\ unread' = unread /\ lost' = lost
      /\ state.suspended
  BY DEF Verify, historyVars
<1>3. header[d] \in Header
  BY <1>1 DEF TypeOK
<1>4. s1 # None => /\ cleared \in Header
                   /\ \A s \in Slot : cleared[s] = IF s = s1 THEN None ELSE header[d][s]
  BY <1>1, <1>3 DEF Header
<1> HIDE DEF cleared
<1>5. TypeOK'
  <2>1. header' \in [Volume -> Header]
    BY <1>1, <1>2, <1>4 DEF TypeOK
  <2>2. state' \in State
    BY <1>2 DEF TypeOK, State
  <2>3. QED
    BY <1>2, <2>1, <2>2 DEF TypeOK
<1>6. /\ \A w \in Volume : w # d => header'[w] = header[w]
      /\ \A s \in Slot : header'[d][s] = IF s = s1 THEN None ELSE header[d][s]
  <2>1. \A s \in Slot : s # None
    BY NoneAssumption
  <2>2. QED
    BY <1>1, <1>2, <1>4, <2>1 DEF TypeOK
<1>7. state'.device = d /\ ~state'.suspended /\ state'.escrowed = state.escrowed
  BY <1>2 DEF TypeOK, State
<1>8. Untouched' /\ DeviceNamed' /\ EscrowedKey'
  BY <1>1, <1>2, <1>6, <1>7 DEF Untouched, DeviceNamed, EscrowedKey
<1>9. OneVolume' => OneVolume
  BY <1>2 DEF OneVolume
<1>10. OneVolume => \A w \in Volume, s \in Slot :
                      IsTemp(header[w][s]) <=> s \in lost[w] \/ (w = d /\ s = s1)
  BY <1>2 DEF OneTemp, TempAt
<1>11. OneTemp'
  <2>1. OneVolume => \A w \in Volume, s \in Slot : IsTemp(header'[w][s]) <=> s \in lost[w]
    <3>1. OneVolume => s1 \notin lost[d]
      BY <1>2 DEF NotLost
    <3>2. QED
      BY <1>6, <1>10, <3>1, Kinds
  <2>2. QED
    BY <1>2, <1>7, <1>9, <2>1 DEF OneTemp, IsTemp, TempAt
<1>12. OneRecoverable'
  <2> SUFFICES ASSUME OneVolume', ~unread', state'.escrowed, NEW w \in Volume,
                      NEW s \in Slot, IsMain(header'[w][s])
               PROVE  \E t \in Slot : header'[w][t] = active'
    BY DEF OneRecoverable, OneVolume, IsMain
  <2>1. IsMain(header[w][s]) /\ state.escrowed /\ ~unread
    BY <1>2, <1>6, <1>7, Kinds
  <2>2. PICK t \in Slot : header[w][t] = active
    BY <1>9, <2>1 DEF OneRecoverable
  <2>3. active \in Key
    BY <2>1 DEF EscrowedKey
  <2>4. ~(w = d /\ t = s1)
    BY <1>1, <1>9, <1>10, <2>2, <2>3, Kinds
  <2>5. header'[w][t] = active
    BY <1>6, <2>2, <2>4
  <2>6. QED
    BY <1>2, <2>5
<1>13. NotLost'
  BY <1>7 DEF NotLost
<1>14. QED
  BY <1>5, <1>8, <1>11, <1>12, <1>13

-----------------------------------------------------------------------------
(* The specification.                                                      *)

LEMMA InitIInv == Init => IInv
<1> SUFFICES ASSUME Init PROVE IInv
  OBVIOUS
<1>1. \A v \in Volume, s \in Slot : header[v][s] = None
  BY DEF Init
<1>2. TypeOK
  <2>1. disks \subseteq Volume
    BY DEF Init
  <2>2. header \in [Volume -> Header]
    BY DEF Init, Header
  <2>3. state \in State
    BY DEF Init, State
  <2>4. QED
    BY <2>1, <2>2, <2>3 DEF Init, TypeOK
<1>3. ~state.suspended /\ ~state.escrowed /\ state.device = None /\ lost = [v \in Volume |-> {}]
  BY DEF Init
<1>4. Untouched /\ DeviceNamed /\ EscrowedKey
  BY <1>1, <1>3 DEF Untouched, DeviceNamed, EscrowedKey
<1>5. OneRecoverable /\ OneTemp /\ NotLost
  BY <1>1, <1>3, Kinds DEF OneRecoverable, OneTemp, TempAt, NotLost
<1>6. QED
  BY <1>2, <1>4, <1>5 DEF IInv

\* Every step keeps the invariant.
LEMMA NextIInv == IInv /\ [Next]_vars => IInv'
<1> SUFFICES ASSUME IInv, [Next]_vars PROVE IInv'
  OBVIOUS
<1>1. \A d \in Volume \cup {None} : Pick(d) \subseteq disks
  BY DEF Pick
<1>2. disks \subseteq Volume /\ header \in [Volume -> Header]
  BY DEF IInv, TypeOK
<1>3. ASSUME NEW v \in disks, NEW k \in Key,
             \/ EnrollUnescrowed(v, k) \/ EnrollUnbound(v, k)
             \/ \E m \in Modes \cup {None} : Enroll(v, k, m)
      PROVE  IInv'
  <2>1. Begins(v, k)
    BY <1>3 DEF EnrollUnescrowed, EnrollUnbound, Enroll
  <2>2. v \in Volume /\ header[v] \in Header /\ Free(header[v]) # {}
    BY <1>2, <2>1 DEF Begins
  <2>3. Filled(header[v], Put(header[v], k), k)
    BY <2>2, PutKey
  <2>4. named' = named \cup {v} /\ disks' = disks /\ minted' = minted \cup {k} /\ lost' = lost
    BY <2>1 DEF Begins
  <2>5. ASSUME EnrollUnescrowed(v, k) \/ EnrollUnbound(v, k) PROVE IInv'
    <3>1. /\ header' = [header EXCEPT ![v] = Put(header[v], k)]
          /\ state' = [state EXCEPT !.enrolled = TRUE]
          /\ (active' = active /\ unread' = unread) \/ (active' = k /\ unread' = FALSE)
      BY <2>5 DEF EnrollUnescrowed, EnrollUnbound
    <3>2. header'[v] = Put(header[v], k)
      BY <1>2, <2>2, <3>1
    <3>3. \A s \in Slot : IsMain(header'[v][s]) => IsMain(header[v][s])
      <4>1. k \in Key \cup Protector
        OBVIOUS
      <4>2. QED
        BY <2>2, <3>2, <4>1, PutFills, Kinds
    <3>4. Enrolls(v, k, None)
      BY <2>3, <2>4, <3>1, <3>2, <3>3 DEF Enrolls
    <3>5. None \in Modes \cup {None}
      OBVIOUS
    <3>6. QED
      BY <3>4, <3>5, EnrollStep
  <2>6. ASSUME NEW m \in Modes \cup {None}, Enroll(v, k, m) PROVE IInv'
    <3>1. /\ header' = [header EXCEPT ![v] = Bound(Put(header[v], k), m)]
          /\ m # None => Free(Put(header[v], k)) # {}
          /\ active' = k /\ unread' = FALSE
          /\ state' = [state EXCEPT !.enrolled = TRUE, !.device = v, !.mode = m, !.escrowed = TRUE]
      BY <2>6 DEF Enroll
    <3>2. Filled(header[v], Bound(Put(header[v], k), m), k)
      BY <2>2, <3>1, PutBoth
    <3>3. header'[v] = Bound(Put(header[v], k), m)
      BY <1>2, <2>2, <3>1
    <3>4. Enrolls(v, k, m)
      BY <2>4, <3>1, <3>2, <3>3 DEF Enrolls
    <3>5. QED
      BY <3>4, EnrollStep
  <2>7. QED
    BY <1>3, <2>5, <2>6
<1>4. ASSUME NEW k \in Key, RotateUnread(k) \/ RotateUnescrowed(k) \/ Rotate(k) PROVE IInv'
  BY <1>4, RotateStep
<1>5. ASSUME NEW d \in Volume \cup {None}, Suspend(d) PROVE IInv'
  <2>1. PICK v \in (IF d = None /\ state.device # None THEN {state.device} ELSE Pick(d)) :
          SuspendOn(v)
    BY <1>5 DEF Suspend
  <2>2. state.device # None => state.device \in disks
    BY DEF IInv, TypeOK, DeviceNamed
  <2>3. v \in disks
    BY <1>1, <2>1, <2>2
  <2>4. QED
    BY <1>2, <2>1, <2>3, SuspendStep
<1>6. ASSUME CheckUpdates PROVE IInv'
  BY <1>5, <1>6 DEF CheckUpdates
<1>7. ASSUME NEW v \in Volume, Attach(v) PROVE IInv'
  <2>1. disks' = disks \cup {v} /\ UNCHANGED <<header, state, active, minted, historyVars>>
    BY <1>7 DEF Attach
  <2>2. TypeOK'
    BY <2>1 DEF IInv, TypeOK, historyVars
  <2>3. QED
    BY <2>1, <2>2 DEF historyVars, IInv, Untouched, DeviceNamed, EscrowedKey, OneRecoverable, OneTemp,
                      TempAt, NotLost, OneVolume
<1>8. CASE UNCHANGED vars
  BY <1>8 DEF IInv, vars, historyVars, TypeOK, Untouched, DeviceNamed, EscrowedKey, OneRecoverable, OneTemp,
              TempAt, NotLost, OneVolume
<1>9. ASSUME NEW v \in disks, EnrollFails(v) PROVE IInv'
  <2>1. /\ state' = [state EXCEPT !.enrolled = TRUE]
        /\ named' = named \cup {v}
        /\ UNCHANGED <<disks, header, active, minted, unread, lost>>
    BY <1>9 DEF EnrollFails
  <2>2. TypeOK'
    BY <2>1 DEF IInv, TypeOK, State
  <2>3. /\ state'.device = state.device /\ state'.escrowed = state.escrowed
        /\ state'.suspended = state.suspended /\ state'.slot = state.slot
    BY <2>1 DEF IInv, TypeOK, State
  <2>4. OneVolume' => OneVolume
    BY <2>1 DEF OneVolume
  <2>5. Untouched' /\ DeviceNamed' /\ EscrowedKey'
    BY <2>1, <2>3 DEF IInv, Untouched, DeviceNamed, EscrowedKey
  <2>6. OneRecoverable' /\ OneTemp' /\ NotLost'
    BY <2>1, <2>3, <2>4 DEF IInv, OneRecoverable, OneTemp, TempAt, NotLost
  <2>7. QED
    BY <2>2, <2>5, <2>6 DEF IInv
<1>10. QED
  <2>1. ASSUME NEW d \in Volume \cup {None}, NEW k \in Key, NEW v \in Pick(d),
               \/ EnrollUnescrowed(v, k) \/ EnrollUnbound(v, k)
               \/ \E m \in Modes \cup {None} : Enroll(v, k, m)
        PROVE  IInv'
    BY <1>1, <1>3, <2>1
  <2>2. ASSUME NEW d \in Volume \cup {None}, NEW v \in Pick(d), EnrollFails(v) PROVE IInv'
    BY <1>1, <1>9, <2>2
  <2>3. QED
    BY <1>4, <1>5, <1>6, <1>7, <1>8, <2>1, <2>2, VerifyStep DEF Next

LEMMA Invariance == Spec => []IInv
<1>1. QED
  BY InitIInv, NextIInv, PTL DEF Spec

\* Every variable stays in its set, for any volumes, slots and keys.
THEOREM TypeCorrect == Spec => []TypeOK
<1>1. IInv => TypeOK
  BY DEF IInv
<1>2. QED
  BY <1>1, Invariance, PTL

\* As long as one volume is named and the last rotation's key was read, what
\* unlocks by itself is opened by the key that the portal reveals, or a rotation
\* has flagged it.
THEOREM OneVolumeStaysRecoverable == Spec => []OneVolumeRecoverable
<1>1. IInv => OneVolumeRecoverable
  <2> SUFFICES ASSUME IInv, OneVolume, ~unread, state.escrowed, NEW v \in Volume, BoundOn(v)
               PROVE  active \in KeysOn(v)
    BY DEF OneVolumeRecoverable, Recoverable
  <2>1. PICK s \in Slot : IsMain(header[v][s])
    BY DEF BoundOn, IsMain
  <2>2. PICK t \in Slot : header[v][t] = active
    BY <2>1 DEF IInv, OneRecoverable
  <2>3. active \in Key
    BY DEF IInv, EscrowedKey
  <2>4. QED
    BY <2>2, <2>3 DEF KeysOn
<1>2. QED
  BY <1>1, Invariance, PTL

\* As long as one volume is named, the PCR-less slots are the one that
\* state.json names and those whose number was never found.
THEOREM TempFound == Spec => []TempIsFound
<1>1. IInv => TempIsFound
  <2> SUFFICES ASSUME IInv, OneVolume, NEW v \in Volume
               PROVE  Temps(v) = lost[v] \cup
                        (IF state.suspended /\ v = state.device THEN {state.slot} \ {None} ELSE {})
    BY DEF TempIsFound
  <2>1. Temps(v) = {s \in Slot : IsTemp(header[v][s])}
    BY DEF Temps, IsTemp
  <2>2. \A s \in Slot : IsTemp(header[v][s]) <=> TempAt(v, s)
    BY DEF IInv, OneTemp
  <2>3. state.slot \in Slot \cup {None} /\ lost[v] \subseteq Slot /\ \A s \in Slot : s # None
    BY NoneAssumption DEF IInv, TypeOK, State
  <2>4. QED
    BY <2>1, <2>2, <2>3 DEF TempAt
<1>2. QED
  BY <1>1, Invariance, PTL
=============================================================================
