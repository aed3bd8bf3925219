------------------------- MODULE SuspendCycle_proofs -------------------------
(***************************************************************************)
(* Proofs about SuspendCycle, for any numbers of processes, slots, PCR     *)
(* values and reboots: what state.json knows of the slots in the header,   *)
(* and that no command takes the last recovery slot away.                  *)
(***************************************************************************)
EXTENDS SuspendCycle, WellFoundedInduction, TLAPS

-----------------------------------------------------------------------------
(* Slots.                                                                  *)

\* The tools take the lowest of the slots that are left.
LEMMA LowestIn ==
  ASSUME NEW S, S \subseteq Slot, S # {}
  PROVE  Lowest(S) \in S
<1> DEFINE Less == {ss \in Nat \X Nat : ss[1] < ss[2]}
<1>1. IsWellFoundedOn(Less, Nat)
  BY NatLessThanWellFounded DEF OpToRel
<1>2. S \subseteq Nat
  BY SlotAssumption
<1>3. PICK s \in S : \A t \in S : <<t, s>> \notin Less
  <2> HIDE DEF Less
  <2> QED
    BY <1>1, <1>2, WFMin
<1>4. ASSUME NEW t \in S PROVE s <= t
  <2>1. s \in Nat /\ t \in Nat
    BY <1>2
  <2>2. ~(t < s)
    BY <1>3, <2>1
  <2>3. QED
    BY <2>1, <2>2
<1>5. QED
  BY <1>4 DEF Lowest

\* A new key goes to a slot that is free.
LEMMA FreeSlot ==
  ASSUME FreeSlots # {}
  PROVE  Lowest(FreeSlots) \in Slot /\ slots[Lowest(FreeSlots)] = "free"
<1>1. FreeSlots \subseteq Slot
  BY DEF FreeSlots
<1>2. Lowest(FreeSlots) \in FreeSlots
  BY <1>1, LowestIn
<1>3. QED
  BY <1>2 DEF FreeSlots

\* What verify regenerates is a protector and not the suspend slot.
LEMMA MainSlot ==
  ASSUME NEW m, MainSlots(m) # {}
  PROVE  LET s == Lowest(MainSlots(m)) IN
         s \in Slot /\ s # m.slot /\ (slots[s] \in Temp \/ slots[s] \in Pcr)
<1>1. MainSlots(m) \subseteq Slot
  BY DEF MainSlots, ClevisSlots
<1>2. Lowest(MainSlots(m)) \in MainSlots(m)
  BY <1>1, LowestIn
<1>3. QED
  BY <1>2 DEF MainSlots, ClevisSlots, Temp

-----------------------------------------------------------------------------
(* The conjuncts of the inductive invariant.                               *)

\* As long as nothing went wrong one command runs at a time.
Lone == clean => \A p, q \in Proc : pc[p] # "idle" /\ pc[q] # "idle" => p = q

\* The PCR-less slots that a copy of the state knows of.
Known(m) == IF m.suspended THEN {m.slot} ELSE {}

\* state.json knows the PCR-less slots, and while a command runs its copy does:
\* a command that is to fail or to save leaves a true state behind.
Tracked ==
  clean =>
    /\ AtRest => TempSlots = Known(file)
    /\ \A p \in Proc :
         /\ pc[p] # "idle" => TempSlots = Known(mem[p])
         /\ pc[p] \notin {"idle", "save"} => TempSlots = Known(file)
         /\ pc[p] = "addTemp" => ~mem[p].suspended

\* A slot is bound to the baseline of a bound state, if it has one.
Honest(m) ==
  m.bound /\ m.baseline # None => \E s \in Slot : slots[s] = m.baseline

Baselines ==
  clean =>
    /\ AtRest => Honest(file)
    /\ \A p \in Proc :
         /\ pc[p] \notin {"idle", "rebind"} => Honest(mem[p])
         /\ pc[p] \in {"addTemp", "swap", "addKey", "bind"} => Honest(file)

IInv ==
  /\ TypeOK
  /\ Lone
  /\ Tracked
  /\ Baselines

-----------------------------------------------------------------------------
(* One lemma per conjunct, one step per action.                            *)

\* Every step keeps the types.
LEMMA TypeNext == TypeOK /\ [Next]_vars => TypeOK'
<1> SUFFICES ASSUME TypeOK, [Next]_vars
             PROVE  TypeOK'
  OBVIOUS
<1> USE DEF TypeOK, State, Blank, PCs, Content, ClevisSlots, Temp,
        Alone, Goto, SetMem, Exit, Fill, vars, machineVars, historyVars,
        procVars
<1>1. ASSUME NEW p \in Proc, StartSuspend(p) PROVE TypeOK'
  BY <1>1 DEF StartSuspend, Begin
<1>2. ASSUME NEW p \in Proc, StartVerify(p) PROVE TypeOK'
  BY <1>2 DEF StartVerify, Begin
<1>3. ASSUME NEW p \in Proc, StartVerifyNoRegen(p) PROVE TypeOK'
  BY <1>3 DEF StartVerifyNoRegen, Begin
<1>4. ASSUME NEW p \in Proc, StartRotate(p) PROVE TypeOK'
  BY <1>4 DEF StartRotate, Begin
<1>5. ASSUME NEW p \in Proc, StartEnroll(p) PROVE TypeOK'
  BY <1>5 DEF StartEnroll, Begin
<1>6. ASSUME NEW p \in Proc, ToolFails(p) PROVE TypeOK'
  BY <1>6 DEF ToolFails
<1>7. ASSUME NEW p \in Proc, AddTemp(p) PROVE TypeOK'
  <2> DEFINE new == Lowest(FreeSlots)
  <2>1. new \in Slot
    BY <1>7, FreeSlot DEF AddTemp, BySystemd
  <2>2. slots' \in [Slot -> Content]
    BY <1>7, <2>1 DEF AddTemp, BySystemd
  <2>3. PICK s \in Slot \cup {None} :
          /\ mem' = [mem EXCEPT ![p] = [mem[p] EXCEPT !.suspended = TRUE, !.slot = s]]
          /\ clean' = (clean /\ s = new)
    BY <1>7, <2>1 DEF AddTemp, BySystemd
  <2>4. mem' \in [Proc -> State] /\ clean' \in BOOLEAN
    BY <2>3
  <2>5. QED
    BY <1>7, <2>2, <2>4 DEF AddTemp, BySystemd
<1>8. ASSUME NEW p \in Proc, Probe(p) PROVE TypeOK'
  <2>1. \A current : Drifted(mem[p], current) \in BOOLEAN
    BY DEF Drifted
  <2>2. drift' \in [Proc -> BOOLEAN]
    BY <1>8, <2>1 DEF Probe
  <2>3. QED
    BY <1>8, <2>2 DEF Probe
<1>9. ASSUME NEW p \in Proc, Check(p) PROVE TypeOK'
  <2>1. \A current : Drifted(mem[p], current) \in BOOLEAN
    BY DEF Drifted
  <2>2. drift' \in [Proc -> BOOLEAN]
    BY <1>9, <2>1 DEF Check
  <2>3. QED
    BY <1>9, <2>2 DEF Check
<1>10. ASSUME NEW p \in Proc, Regen(p) PROVE TypeOK'
  BY <1>10, MainSlot DEF Regen, Rebound, Reading
<1>11. ASSUME NEW p \in Proc, NoRegen(p) PROVE TypeOK'
  BY <1>11 DEF NoRegen
<1>12. ASSUME NEW p \in Proc, UnbindMain(p) PROVE TypeOK'
  BY <1>12, MainSlot DEF UnbindMain
<1>13. ASSUME NEW p \in Proc, Rebind(p) PROVE TypeOK'
  BY <1>13, FreeSlot DEF Rebind, TpmBind, Rebound, Reading
<1>14. ASSUME NEW p \in Proc, Clear(p) PROVE TypeOK'
  BY <1>14 DEF Clear, Unflagged, Wipeable, BySystemd
<1>15. ASSUME NEW p \in Proc, NoClear(p) PROVE TypeOK'
  BY <1>15 DEF NoClear
<1>16. ASSUME NEW p \in Proc, Swap(p) PROVE TypeOK'
  <2>1. CASE pc' = [pc EXCEPT ![p] = "save"] /\ UNCHANGED <<mem, drift>>
    BY <1>16, <2>1, FreeSlot DEF Swap
  <2>2. CASE Exit(p)
    BY <1>16, <2>2, FreeSlot DEF Swap
  <2>3. QED
    BY <1>16, <2>1, <2>2 DEF Swap
<1>17. ASSUME NEW p \in Proc, AddKey(p) PROVE TypeOK'
  BY <1>17, FreeSlot DEF AddKey
<1>18. ASSUME NEW p \in Proc, BindTpm(p) PROVE TypeOK'
  <2>1. PICK current \in Pcr \cup {None} :
          mem' = [mem EXCEPT ![p] = [mem[p] EXCEPT !.bound = TRUE, !.baseline = current]]
    BY <1>18 DEF BindTpm, Reading
  <2>2. mem' \in [Proc -> State]
    BY <2>1
  <2>3. slots' \in [Slot -> Content]
    BY <1>18, FreeSlot DEF BindTpm, TpmBind
  <2>4. QED
    BY <1>18, <2>2, <2>3 DEF BindTpm
<1>19. ASSUME NEW p \in Proc, Save(p) PROVE TypeOK'
  BY <1>19 DEF Save
<1>20. ASSUME NEW p \in Proc, Crash(p) PROVE TypeOK'
  <2>1. Blank \in State
    OBVIOUS
  <2>2. file' \in State
    BY <1>20, <2>1 DEF Crash
  <2>3. pc' \in [Proc -> PCs] /\ mem' \in [Proc -> State] /\ drift' \in [Proc -> BOOLEAN]
    BY <1>20, <2>1 DEF Crash
  <2>4. QED
    BY <1>20, <2>2, <2>3 DEF Crash
<1>21. ASSUME Reboot PROVE TypeOK'
  BY <1>21 DEF Reboot
<1>22. ASSUME NEW p \in Proc, SkipTpm(p) PROVE TypeOK'
  BY <1>22 DEF SkipTpm
<1>23. CASE UNCHANGED vars
  BY <1>23
<1>24. QED
  BY <1>1, <1>2, <1>3, <1>4, <1>5, <1>6, <1>7, <1>8, <1>9, <1>10, <1>11,
     <1>12, <1>13, <1>14, <1>15, <1>16, <1>17, <1>18, <1>19, <1>20, <1>21,
     <1>22, <1>23 DEF Next, Start, Step

\* A command that starts while another one runs is not a clean one.
LEMMA LoneNext == TypeOK /\ Lone /\ [Next]_vars => Lone'
<1> SUFFICES ASSUME TypeOK, Lone, [Next]_vars
             PROVE  Lone'
  OBVIOUS
<1> USE DEF TypeOK, Lone, Goto, SetMem, Exit, Fill, vars, machineVars,
        historyVars, procVars
<1>1. ASSUME NEW p \in Proc, StartSuspend(p) PROVE Lone'
  BY <1>1 DEF StartSuspend, Begin
<1>2. ASSUME NEW p \in Proc, StartVerify(p) PROVE Lone'
  BY <1>2 DEF StartVerify, Begin
<1>3. ASSUME NEW p \in Proc, StartVerifyNoRegen(p) PROVE Lone'
  BY <1>3 DEF StartVerifyNoRegen, Begin
<1>4. ASSUME NEW p \in Proc, StartRotate(p) PROVE Lone'
  BY <1>4 DEF StartRotate, Begin
<1>5. ASSUME NEW p \in Proc, StartEnroll(p) PROVE Lone'
  BY <1>5 DEF StartEnroll, Begin
<1>6. ASSUME NEW p \in Proc, ToolFails(p) PROVE Lone'
  BY <1>6 DEF ToolFails
<1>7. ASSUME NEW p \in Proc, AddTemp(p) PROVE Lone'
  BY <1>7 DEF AddTemp, BySystemd
<1>8. ASSUME NEW p \in Proc, Probe(p) PROVE Lone'
  BY <1>8 DEF Probe
<1>9. ASSUME NEW p \in Proc, Check(p) PROVE Lone'
  BY <1>9 DEF Check
<1>10. ASSUME NEW p \in Proc, Regen(p) PROVE Lone'
  BY <1>10 DEF Regen, Rebound, Reading
<1>11. ASSUME NEW p \in Proc, NoRegen(p) PROVE Lone'
  BY <1>11 DEF NoRegen
<1>12. ASSUME NEW p \in Proc, UnbindMain(p) PROVE Lone'
  BY <1>12 DEF UnbindMain
<1>13. ASSUME NEW p \in Proc, Rebind(p) PROVE Lone'
  BY <1>13 DEF Rebind, TpmBind, Rebound, Reading
<1>14. ASSUME NEW p \in Proc, Clear(p) PROVE Lone'
  BY <1>14 DEF Clear, Unflagged, Wipeable, BySystemd
<1>15. ASSUME NEW p \in Proc, NoClear(p) PROVE Lone'
  BY <1>15 DEF NoClear
<1>16. ASSUME NEW p \in Proc, Swap(p) PROVE Lone'
  BY <1>16 DEF Swap
<1>17. ASSUME NEW p \in Proc, AddKey(p) PROVE Lone'
  BY <1>17 DEF AddKey
<1>18. ASSUME NEW p \in Proc, BindTpm(p) PROVE Lone'
  BY <1>18 DEF BindTpm, TpmBind, Reading
<1>19. ASSUME NEW p \in Proc, Save(p) PROVE Lone'
  BY <1>19 DEF Save
<1>20. ASSUME NEW p \in Proc, Crash(p) PROVE Lone'
  BY <1>20 DEF Crash
<1>21. ASSUME Reboot PROVE Lone'
  BY <1>21 DEF Reboot
<1>22. ASSUME NEW p \in Proc, SkipTpm(p) PROVE Lone'
  BY <1>22 DEF SkipTpm
<1>23. CASE UNCHANGED vars
  BY <1>23
<1>24. QED
  BY <1>1, <1>2, <1>3, <1>4, <1>5, <1>6, <1>7, <1>8, <1>9, <1>10, <1>11,
     <1>12, <1>13, <1>14, <1>15, <1>16, <1>17, <1>18, <1>19, <1>20, <1>21,
     <1>22, <1>23 DEF Next, Start, Step

\* Every clean step keeps the state, or the copy to be saved, true of the slots.
LEMMA TrackedNext == TypeOK /\ Lone /\ Tracked /\ [Next]_vars => Tracked'
<1> SUFFICES ASSUME TypeOK, Lone, Tracked, [Next]_vars
             PROVE  Tracked'
  OBVIOUS
<1> USE PcrAssumption, NoneAssumption DEF TypeOK, State, Blank, Lone, Tracked,
        Known, AtRest, TempSlots, ClevisSlots, Temp, Alone, Goto, SetMem, Exit, Fill,
        vars, machineVars, historyVars, procVars
<1>1. ASSUME NEW p \in Proc, StartSuspend(p) PROVE Tracked'
  BY <1>1 DEF StartSuspend, Begin
<1>2. ASSUME NEW p \in Proc, StartVerify(p) PROVE Tracked'
  BY <1>2 DEF StartVerify, Begin
<1>3. ASSUME NEW p \in Proc, StartVerifyNoRegen(p) PROVE Tracked'
  BY <1>3 DEF StartVerifyNoRegen, Begin
<1>4. ASSUME NEW p \in Proc, StartRotate(p) PROVE Tracked'
  BY <1>4 DEF StartRotate, Begin
<1>5. ASSUME NEW p \in Proc, StartEnroll(p) PROVE Tracked'
  BY <1>5 DEF StartEnroll, Begin
<1>6. ASSUME NEW p \in Proc, ToolFails(p) PROVE Tracked'
  BY <1>6 DEF ToolFails
<1>7. ASSUME NEW p \in Proc, AddTemp(p) PROVE Tracked'
  BY <1>7, FreeSlot DEF AddTemp, BySystemd
<1>8. ASSUME NEW p \in Proc, Probe(p) PROVE Tracked'
  BY <1>8 DEF Probe
<1>9. ASSUME NEW p \in Proc, Check(p) PROVE Tracked'
  BY <1>9 DEF Check
<1>10. ASSUME NEW p \in Proc, Regen(p) PROVE Tracked'
  BY <1>10, MainSlot DEF Regen, Rebound, Reading
<1>11. ASSUME NEW p \in Proc, NoRegen(p) PROVE Tracked'
  BY <1>11 DEF NoRegen
<1>12. ASSUME NEW p \in Proc, UnbindMain(p) PROVE Tracked'
  BY <1>12, MainSlot DEF UnbindMain
<1>13. ASSUME NEW p \in Proc, Rebind(p) PROVE Tracked'
  BY <1>13, FreeSlot DEF Rebind, TpmBind, Rebound, Reading
<1>14. ASSUME NEW p \in Proc, Clear(p) PROVE Tracked'
  BY <1>14 DEF Clear, Unflagged, Wipeable, BySystemd
<1>15. ASSUME NEW p \in Proc, NoClear(p) PROVE Tracked'
  BY <1>15 DEF NoClear
<1>16. ASSUME NEW p \in Proc, Swap(p) PROVE Tracked'
  <2>1. CASE pc' = [pc EXCEPT ![p] = "save"] /\ UNCHANGED <<mem, drift>>
    BY <1>16, <2>1, FreeSlot DEF Swap
  <2>2. CASE Exit(p)
    BY <1>16, <2>2, FreeSlot DEF Swap
  <2>3. QED
    BY <1>16, <2>1, <2>2 DEF Swap
<1>17. ASSUME NEW p \in Proc, AddKey(p) PROVE Tracked'
  BY <1>17, FreeSlot DEF AddKey
<1>18. ASSUME NEW p \in Proc, BindTpm(p) PROVE Tracked'
  BY <1>18, FreeSlot DEF BindTpm, TpmBind, Reading
<1>19. ASSUME NEW p \in Proc, Save(p) PROVE Tracked'
  BY <1>19 DEF Save
<1>20. ASSUME NEW p \in Proc, Crash(p) PROVE Tracked'
  BY <1>20 DEF Crash
<1>21. ASSUME Reboot PROVE Tracked'
  BY <1>21 DEF Reboot
<1>22. ASSUME NEW p \in Proc, SkipTpm(p) PROVE Tracked'
  BY <1>22 DEF SkipTpm
<1>23. CASE UNCHANGED vars
  BY <1>23
<1>24. QED
  BY <1>1, <1>2, <1>3, <1>4, <1>5, <1>6, <1>7, <1>8, <1>9, <1>10, <1>11,
     <1>12, <1>13, <1>14, <1>15, <1>16, <1>17, <1>18, <1>19, <1>20, <1>21,
     <1>22, <1>23 DEF Next, Start, Step

\* Every clean step keeps a slot bound to the baseline.
LEMMA BaselinesNext ==
  TypeOK /\ Lone /\ Tracked /\ Baselines /\ [Next]_vars => Baselines'
<1> SUFFICES ASSUME TypeOK, Lone, Tracked, Baselines, [Next]_vars
             PROVE  Baselines'
  OBVIOUS
<1> USE PcrAssumption, NoneAssumption DEF TypeOK, State, Blank, Lone,
        Baselines, Honest, AtRest, Goto, SetMem, Exit, Fill, vars,
        machineVars, historyVars, procVars
<1>1. ASSUME NEW p \in Proc, StartSuspend(p) PROVE Baselines'
  BY <1>1 DEF StartSuspend, Begin
<1>2. ASSUME NEW p \in Proc, StartVerify(p) PROVE Baselines'
  BY <1>2 DEF StartVerify, Begin
<1>3. ASSUME NEW p \in Proc, StartVerifyNoRegen(p) PROVE Baselines'
  BY <1>3 DEF StartVerifyNoRegen, Begin
<1>4. ASSUME NEW p \in Proc, StartRotate(p) PROVE Baselines'
  BY <1>4 DEF StartRotate, Begin
<1>5. ASSUME NEW p \in Proc, StartEnroll(p) PROVE Baselines'
  BY <1>5 DEF StartEnroll, Begin
<1>6. ASSUME NEW p \in Proc, ToolFails(p) PROVE Baselines'
  <2>1. CASE clean'
    <3>1. Honest(file) /\ UNCHANGED <<slots, file>>
      BY <1>6, <2>1 DEF ToolFails
    <3>2. Honest(file)'
      BY <3>1
    <3>3. \A q \in Proc : pc'[q] = "idle"
      BY <1>6, <2>1 DEF ToolFails
    <3>4. QED
      BY <3>2, <3>3
  <2>2. QED
    BY <2>1
<1>7. ASSUME NEW p \in Proc, AddTemp(p) PROVE Baselines'
  BY <1>7, FreeSlot DEF AddTemp, BySystemd
<1>8. ASSUME NEW p \in Proc, Probe(p) PROVE Baselines'
  BY <1>8 DEF Probe
<1>9. ASSUME NEW p \in Proc, Check(p) PROVE Baselines'
  BY <1>9 DEF Check
<1>10. ASSUME NEW p \in Proc, Regen(p) PROVE Baselines'
  BY <1>10, MainSlot DEF Regen, Rebound, Reading
<1>11. ASSUME NEW p \in Proc, NoRegen(p) PROVE Baselines'
  BY <1>11 DEF NoRegen
<1>12. ASSUME NEW p \in Proc, UnbindMain(p) PROVE Baselines'
  BY <1>12, MainSlot DEF UnbindMain
<1>13. ASSUME NEW p \in Proc, Rebind(p) PROVE Baselines'
  BY <1>13, FreeSlot DEF Rebind, TpmBind, Rebound, Reading
<1>14. ASSUME NEW p \in Proc, Clear(p) PROVE Baselines'
  <2>1. CASE clean
    <3>1. \A s \in Slot : slots[s] \in Pcr => slots'[s] = slots[s]
      <4>1. TempSlots = {mem[p].slot}
        BY <1>14, <2>1 DEF Clear, Tracked, Known
      <4>2. mem[p].slot \in Slot /\ slots[mem[p].slot] \in Temp
        BY <4>1 DEF TempSlots
      <4>3. QED
        BY <1>14, <4>2 DEF Clear, Temp
    <3>2. Honest(mem[p])
      BY <1>14, <2>1 DEF Clear
    <3>3. mem'[p].bound = mem[p].bound /\ mem'[p].baseline = mem[p].baseline
      BY <1>14 DEF Clear, Unflagged
    <3>4. Honest(mem[p])'
      BY <3>1, <3>2, <3>3
    <3>5. \A q \in Proc : q # p => pc'[q] = "idle"
      BY <1>14, <2>1 DEF Clear
    <3>6. pc'[p] = "save"
      BY <1>14 DEF Clear
    <3>7. QED
      BY <3>4, <3>5, <3>6
  <2>2. CASE ~clean
    BY <1>14, <2>2 DEF Clear
  <2>3. QED
    BY <2>1, <2>2
<1>15. ASSUME NEW p \in Proc, NoClear(p) PROVE Baselines'
  BY <1>15 DEF NoClear
<1>16. ASSUME NEW p \in Proc, Swap(p) PROVE Baselines'
  <2>1. CASE pc' = [pc EXCEPT ![p] = "save"] /\ UNCHANGED <<mem, drift>>
    BY <1>16, <2>1, FreeSlot DEF Swap
  <2>2. CASE Exit(p)
    BY <1>16, <2>2, FreeSlot DEF Swap
  <2>3. QED
    BY <1>16, <2>1, <2>2 DEF Swap
<1>17. ASSUME NEW p \in Proc, AddKey(p) PROVE Baselines'
  BY <1>17, FreeSlot DEF AddKey
<1>18. ASSUME NEW p \in Proc, BindTpm(p) PROVE Baselines'
  BY <1>18, FreeSlot DEF BindTpm, TpmBind, Reading
<1>19. ASSUME NEW p \in Proc, Save(p) PROVE Baselines'
  BY <1>19 DEF Save
<1>20. ASSUME NEW p \in Proc, Crash(p) PROVE Baselines'
  BY <1>20 DEF Crash
<1>21. ASSUME Reboot PROVE Baselines'
  BY <1>21 DEF Reboot
<1>22. ASSUME NEW p \in Proc, SkipTpm(p) PROVE Baselines'
  BY <1>22 DEF SkipTpm
<1>23. CASE UNCHANGED vars
  BY <1>23
<1>24. QED
  BY <1>1, <1>2, <1>3, <1>4, <1>5, <1>6, <1>7, <1>8, <1>9, <1>10, <1>11,
     <1>12, <1>13, <1>14, <1>15, <1>16, <1>17, <1>18, <1>19, <1>20, <1>21,
     <1>22, <1>23 DEF Next, Start, Step

-----------------------------------------------------------------------------
(* The theorems.                                                           *)

\* The header is empty and no command runs at first.
LEMMA InvInit == Init => IInv
<1> SUFFICES ASSUME Init PROVE IInv
  OBVIOUS
<1>1. TypeOK
  <2>1. Blank \in State
    BY DEF Blank, State
  <2>2. slots \in [Slot -> Content] /\ pc \in [Proc -> PCs]
    BY DEF Init, Content, PCs
  <2>3. QED
    BY <2>1, <2>2 DEF Init, TypeOK
<1>2. Lone /\ Tracked
  BY DEF Init, Lone, Tracked, Known, TempSlots, Temp, Blank
<1>3. Baselines
  BY DEF Init, Baselines, Honest, Blank
<1>4. QED
  BY <1>1, <1>2, <1>3 DEF IInv

\* The conjuncts are inductive together.
LEMMA InvNext == IInv /\ [Next]_vars => IInv'
  BY TypeNext, LoneNext, TrackedNext, BaselinesNext DEF IInv

\* The invariant holds in every state the machine reaches.
THEOREM Invariance == Spec => []IInv
  BY InvInit, InvNext, PTL DEF Spec

\* Every variable keeps its type: the header, state.json and its copies.
THEOREM TypeCorrect == Spec => []TypeOK
<1>1. IInv => TypeOK
  BY DEF IInv
<1>2. QED
  BY Invariance, <1>1, PTL

\* At rest state.json names the PCR-less slot if there is one.
THEOREM SuspensionTracked == Spec => []TempIsTracked
<1>1. IInv => TempIsTracked
  BY DEF IInv, Tracked, Known, TempIsTracked
<1>2. QED
  BY Invariance, <1>1, PTL

\* A machine whose PCR 7 has the baseline value unlocks by itself.
THEOREM BaselineUnlocks == Spec => []BaselineMeansUnlock
<1>1. IInv => BaselineMeansUnlock
  BY NoneAssumption DEF IInv, TypeOK, Baselines, Honest, BaselineMeansUnlock
<1>2. QED
  BY Invariance, <1>1, PTL

\* A step leaves a recovery slot where there was one.
LEMMA RecoveryStep ==
  TypeOK /\ Lone /\ Tracked /\ [Next]_vars =>
    (HasRecovery /\ (mode = "clevis" \/ clean) => HasRecovery')
<1> SUFFICES ASSUME TypeOK, Lone, Tracked, [Next]_vars
             PROVE  (HasRecovery /\ (mode = "clevis" \/ clean) => HasRecovery')
  OBVIOUS
<1> DEFINE Kept == HasRecovery /\ (mode = "clevis" \/ clean) => HasRecovery'
<1> USE PcrAssumption, NoneAssumption DEF TypeOK, State, HasRecovery, Tracked,
        Known, TempSlots, ClevisSlots, Temp, Goto, SetMem, Exit, Fill, vars,
        machineVars, historyVars, procVars
<1>1. ASSUME NEW p \in Proc, StartSuspend(p) PROVE Kept
  BY <1>1 DEF StartSuspend, Begin
<1>2. ASSUME NEW p \in Proc, StartVerify(p) PROVE Kept
  BY <1>2 DEF StartVerify, Begin
<1>3. ASSUME NEW p \in Proc, StartVerifyNoRegen(p) PROVE Kept
  BY <1>3 DEF StartVerifyNoRegen, Begin
<1>4. ASSUME NEW p \in Proc, StartRotate(p) PROVE Kept
  BY <1>4 DEF StartRotate, Begin
<1>5. ASSUME NEW p \in Proc, StartEnroll(p) PROVE Kept
  BY <1>5 DEF StartEnroll, Begin
<1>6. ASSUME NEW p \in Proc, ToolFails(p) PROVE Kept
  BY <1>6 DEF ToolFails
<1>7. ASSUME NEW p \in Proc, AddTemp(p) PROVE Kept
  BY <1>7, FreeSlot DEF AddTemp, BySystemd
<1>8. ASSUME NEW p \in Proc, Probe(p) PROVE Kept
  BY <1>8 DEF Probe
<1>9. ASSUME NEW p \in Proc, Check(p) PROVE Kept
  BY <1>9 DEF Check
<1>10. ASSUME NEW p \in Proc, Regen(p) PROVE Kept
  BY <1>10, MainSlot DEF Regen, Rebound, Reading
<1>11. ASSUME NEW p \in Proc, NoRegen(p) PROVE Kept
  BY <1>11 DEF NoRegen
<1>12. ASSUME NEW p \in Proc, UnbindMain(p) PROVE Kept
  BY <1>12, MainSlot DEF UnbindMain
<1>13. ASSUME NEW p \in Proc, Rebind(p) PROVE Kept
  BY <1>13, FreeSlot DEF Rebind, TpmBind, Rebound, Reading
<1>14. ASSUME NEW p \in Proc, Clear(p) PROVE Kept
  BY <1>14 DEF Clear, Unflagged, Wipeable, BySystemd
<1>15. ASSUME NEW p \in Proc, NoClear(p) PROVE Kept
  BY <1>15 DEF NoClear
<1>16. ASSUME NEW p \in Proc, Swap(p) PROVE Kept
  BY <1>16, FreeSlot DEF Swap
<1>17. ASSUME NEW p \in Proc, AddKey(p) PROVE Kept
  BY <1>17, FreeSlot DEF AddKey
<1>18. ASSUME NEW p \in Proc, BindTpm(p) PROVE Kept
  BY <1>18, FreeSlot DEF BindTpm, TpmBind, Reading
<1>19. ASSUME NEW p \in Proc, Save(p) PROVE Kept
  BY <1>19 DEF Save
<1>20. ASSUME NEW p \in Proc, Crash(p) PROVE Kept
  BY <1>20 DEF Crash
<1>21. ASSUME Reboot PROVE Kept
  BY <1>21 DEF Reboot
<1>22. ASSUME NEW p \in Proc, SkipTpm(p) PROVE Kept
  BY <1>22 DEF SkipTpm
<1>23. CASE UNCHANGED vars
  BY <1>23
<1>24. QED
  BY <1>1, <1>2, <1>3, <1>4, <1>5, <1>6, <1>7, <1>8, <1>9, <1>10, <1>11,
     <1>12, <1>13, <1>14, <1>15, <1>16, <1>17, <1>18, <1>19, <1>20, <1>21,
     <1>22, <1>23 DEF Next, Start, Step

\* No command takes the last recovery slot away: with clevis not even after
\* kills and overlaps, with systemd as long as there were none.
THEOREM RecoveryStays == Spec => RecoveryKept
<1> DEFINE Kept == HasRecovery /\ (mode = "clevis" \/ clean) => HasRecovery'
<1>1. IInv /\ [Next]_vars => [Kept]_vars
  BY RecoveryStep DEF IInv
<1>2. Spec => [][Kept]_vars
  BY <1>1, Invariance, PTL DEF Spec
<1>3. QED
  BY <1>2 DEF RecoveryKept
==============================================================================
