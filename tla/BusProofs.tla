----------------------------- MODULE BusProofs -----------------------------
(***************************************************************************)
(* Proofs about registration on the bus, for every number of slots, every  *)
(* address space and every heap.                                           *)
(*                                                                         *)
(* TypeOK alone is not inductive: that the count stays within the slots is *)
(* known only because it counts them.  IInv adds that, and NoLeak, whose   *)
(* step needs the slot a memory goes to to be inactive before.             *)
(***************************************************************************)
EXTENDS Bus, TLAPS

IInv == TypeOK /\ CountIsActive /\ NoLeak

(* The free slot bus_find_slot returns is the count of active slots. *)
LEMMA FreeSlotIsCount ==
    ASSUME TypeOK, CountIsActive, NEW s \in Slot, IsFreeSlot(s)
    PROVE  s = count
<1>1. s \in Nat /\ count \in Nat /\ count <= NumSlots /\ s < NumSlots
  BY NumSlotsAssumption DEF TypeOK, Slot
<1>2. s >= count
  BY <1>1 DEF IsFreeSlot, CountIsActive, Active
<1>3. CASE s > count
  <2>1. count \in Slot /\ count \in 0 .. s - 1
    BY <1>1, <1>3, NumSlotsAssumption DEF Slot
  <2>2. count \in Active
    BY <2>1 DEF IsFreeSlot, Active
  <2>3. QED
    BY <1>1, <2>2 DEF CountIsActive
<1>4. QED
  BY <1>1, <1>2, <1>3

(* A registration takes the slot numbered count and touches no other. *)
LEMMA RegisterEffect ==
    ASSUME TypeOK, CountIsActive,
           NEW start \in Addr, NEW end \in Addr, NEW ctx \in Context \cup {External},
           Register(start, end, ctx)
    PROVE  /\ count \in Slot /\ ~slots[count].active
           /\ slots' = [slots EXCEPT ![count] = [active |-> TRUE, start |-> start,
                                                 end |-> end, ctx |-> ctx]]
           /\ slots' \in [Slot -> Peripheral]
           /\ Active' = Active \cup {count}
           /\ count' = count + 1
           /\ count' \in 0 .. NumSlots
           /\ result' \in BOOLEAN
           /\ CountIsActive'
<1>1. PICK s \in Slot :
         /\ IsFreeSlot(s)
         /\ slots' = [slots EXCEPT ![s] = [active |-> TRUE, start |-> start,
                                           end |-> end, ctx |-> ctx]]
         /\ count' = count + 1
         /\ result' = TRUE
  BY DEF Register
<1>2. s = count
  BY <1>1, FreeSlotIsCount
<1>3. slots' \in [Slot -> Peripheral]
  BY <1>1 DEF TypeOK, Peripheral
<1>4. Active' = Active \cup {count}
  BY <1>1, <1>2 DEF Active, TypeOK
<1>5. count \in Slot /\ ~slots[count].active /\ count' \in 0 .. NumSlots
  BY <1>1, <1>2, NumSlotsAssumption DEF TypeOK, Slot, IsFreeSlot
<1>6. CountIsActive'
  <2>1. 0 .. count' - 1 = (0 .. count - 1) \cup {count}
    BY <1>1 DEF TypeOK
  <2>2. QED
    BY <1>4, <2>1 DEF CountIsActive
<1>7. QED
  BY <1>1, <1>2, <1>3, <1>4, <1>5, <1>6

(* A refusal changes nothing but the result. *)
LEMMA RefuseEffect ==
    ASSUME TypeOK, CountIsActive, Refuse
    PROVE  /\ slots' = slots /\ count' = count
           /\ result' \in BOOLEAN
           /\ CountIsActive'
  BY DEF Refuse, CountIsActive, Active

(* The contexts the bus reaches, before and after a registration. *)
LEMMA ReachedAfterRegister ==
    ASSUME TypeOK, CountIsActive,
           NEW start \in Addr, NEW end \in Addr, NEW ctx \in Context \cup {External},
           Register(start, end, ctx)
    PROVE  {slots'[s].ctx : s \in Active'} = {slots[s].ctx : s \in Active} \cup {ctx}
<1>1. /\ count \in Slot /\ ~slots[count].active
      /\ slots' = [slots EXCEPT ![count] = [active |-> TRUE, start |-> start,
                                            end |-> end, ctx |-> ctx]]
      /\ Active' = Active \cup {count}
  BY RegisterEffect
<1>2. slots'[count].ctx = ctx
  BY <1>1 DEF TypeOK
<1>3. \A s \in Active : slots'[s] = slots[s]
  BY <1>1 DEF Active, TypeOK
<1>4. QED
  BY <1>1, <1>2, <1>3

----------------------------------------------------------------------------
LEMMA IInvInit == Init => IInv
<1> SUFFICES ASSUME Init PROVE IInv
  OBVIOUS
<1>1. Active = {}
  BY DEF Init, Active, Inactive
<1>2. TypeOK
  BY AddrSpaceAssumption, NumSlotsAssumption
     DEF Init, TypeOK, Peripheral, Inactive, Addr
<1>3. CountIsActive
  BY <1>1 DEF Init, CountIsActive
<1>4. NoLeak
  BY <1>1 DEF Init, NoLeak
<1>5. QED
  BY <1>2, <1>3, <1>4 DEF IInv

LEMMA IInvStep == IInv /\ [Next]_vars => IInv'
<1> SUFFICES ASSUME IInv, [Next]_vars PROVE IInv'
  OBVIOUS
<1> USE DEF IInv
<1>1. CASE AddPeripheral
  <2>1. PICK start \in Addr, end \in Addr :
           /\ Register(start, end, External) \/ Refuse
           /\ UNCHANGED heap
    BY <1>1 DEF AddPeripheral
  <2>2. CASE Register(start, end, External)
    <3>1. TypeOK' /\ CountIsActive'
      BY <2>1, <2>2, RegisterEffect DEF TypeOK
    <3>2. NoLeak'
      BY <2>1, <2>2, ReachedAfterRegister DEF NoLeak
    <3>3. QED
      BY <3>1, <3>2
  <2>3. CASE Refuse
    BY <2>1, <2>3, RefuseEffect DEF TypeOK, NoLeak, Active
  <2>4. QED
    BY <2>1, <2>2, <2>3
<1>2. CASE AddMemory
  <2>1. PICK start \in Addr, size \in 0 .. MaxSize, ctx \in Context \ heap :
           \/ /\ Register(start, (start + size) % AddrSpace, ctx)
              /\ heap' = heap \cup {ctx}
           \/ Refuse /\ UNCHANGED heap
    BY <1>2 DEF AddMemory
  <2>2. (start + size) % AddrSpace \in Addr
    BY AddrSpaceAssumption DEF Addr
  <2>3. CASE Register(start, (start + size) % AddrSpace, ctx) /\ heap' = heap \cup {ctx}
    <3>1. TypeOK' /\ CountIsActive'
      BY <2>2, <2>3, RegisterEffect DEF TypeOK
    <3>2. NoLeak'
      BY <2>2, <2>3, ReachedAfterRegister, ContextAssumption DEF NoLeak
    <3>3. QED
      BY <3>1, <3>2
  <2>4. CASE Refuse /\ UNCHANGED heap
    BY <2>4, RefuseEffect DEF TypeOK, NoLeak, Active
  <2>5. QED
    BY <2>1, <2>3, <2>4
<1>3. CASE AddMemoryNoStorage
  BY <1>3 DEF AddMemoryNoStorage, TypeOK, CountIsActive, NoLeak, Active
<1>4. CASE UNCHANGED vars
  BY <1>4 DEF vars, TypeOK, CountIsActive, NoLeak, Active
<1>5. QED
  BY <1>1, <1>2, <1>3, <1>4 DEF Next

(* The bus's table, count and heap keep their types, whatever is registered *)
(* and refused.                                                             *)
THEOREM TypeCorrect == Spec => []TypeOK
  BY IInvInit, IInvStep, PTL DEF Spec, IInv

(* bus->count is the number of active slots, and these are the first ones. *)
THEOREM CountCorrect == Spec => []CountIsActive
  BY IInvInit, IInvStep, PTL DEF Spec, IInv

(* soc_add_memory loses no allocation, also when it fails half way. *)
THEOREM NothingLeaks == Spec => []NoLeak
  BY IInvInit, IInvStep, PTL DEF Spec, IInv

----------------------------------------------------------------------------
(* "Preferred" is a total order on the slots of a table. *)
LEMMA PreferredOrder ==
    ASSUME NEW tbl \in [Slot -> Peripheral],
           NEW r \in Slot, NEW s \in Slot, NEW t \in Slot
    PROVE  /\ Preferred(tbl, s, t) \/ Preferred(tbl, t, s)
           /\ Preferred(tbl, s, s)
           /\ Preferred(tbl, r, s) /\ Preferred(tbl, s, t) => Preferred(tbl, r, t)
           /\ Preferred(tbl, s, t) /\ Preferred(tbl, t, s) => s = t
<1>1. /\ Extent(tbl[r]) \in Int /\ Extent(tbl[s]) \in Int /\ Extent(tbl[t]) \in Int
      /\ r \in Int /\ s \in Int /\ t \in Int
  BY AddrSpaceAssumption, NumSlotsAssumption DEF Peripheral, Addr, Extent, Slot
<1>2. QED
  BY <1>1 DEF Preferred

LEMMA OwnerIs ==
    ASSUME NEW tbl \in [Slot -> Peripheral], NEW a \in Addr,
           NEW s \in Slot, Owns(tbl, s, a)
    PROVE  Owner(tbl, a) = s
<1>1. Owner(tbl, a) \in Slot /\ Owns(tbl, Owner(tbl, a), a)
  BY DEF Owner
<1>2. QED
  BY <1>1, PreferredOrder DEF Owns

(* What owns an address, when something does. *)
LEMMA OwnerOwns ==
    ASSUME NEW tbl \in [Slot -> Peripheral], NEW a \in Addr, Owner(tbl, a) # NoSlot
    PROVE  Owner(tbl, a) \in Slot /\ Owns(tbl, Owner(tbl, a), a)
  BY DEF Owner

(* A registration takes an address only for the new peripheral, and only    *)
(* from one whose range is strictly larger.                                 *)
LEMMA RegisterCaptures ==
    ASSUME TypeOK, CountIsActive,
           NEW start \in Addr, NEW end \in Addr, NEW ctx \in Context \cup {External},
           Register(start, end, ctx),
           NEW a \in Addr, Owner(slots', a) # Owner(slots, a)
    PROVE  /\ Owner(slots', a) \notin Active
           /\ Owner(slots, a) # NoSlot =>
                Extent(slots'[Owner(slots', a)]) < Extent(slots[Owner(slots, a)])
<1>1. /\ count \in Slot /\ ~slots[count].active
      /\ slots' = [slots EXCEPT ![count] = [active |-> TRUE, start |-> start,
                                            end |-> end, ctx |-> ctx]]
      /\ slots' \in [Slot -> Peripheral]
  BY RegisterEffect
<1>2. slots \in [Slot -> Peripheral]
  BY DEF TypeOK
<1>3. \A t \in Slot : t # count => slots'[t] = slots[t]
  BY <1>1, <1>2
<1>4. \A t \in Slot : Covers(slots[t], a) => t # count /\ Covers(slots'[t], a)
  BY <1>1, <1>3 DEF Covers
<1>5. \A s, t \in Slot : s # count /\ t # count
         => (Preferred(slots', s, t) <=> Preferred(slots, s, t))
  BY <1>3 DEF Preferred
<1>6. Owner(slots', a) \notin Active
  <2> SUFFICES ASSUME Owner(slots', a) \in Active PROVE FALSE
    OBVIOUS
  <2> DEFINE o == Owner(slots', a)
  <2>1. o \in Slot /\ o # NoSlot /\ o # count
    BY <1>1, NumSlotsAssumption DEF Active, Slot, NoSlot
  <2>2. Owns(slots', o, a)
    BY <1>1, <2>1, OwnerOwns
  <2>3. Covers(slots[o], a)
    BY <1>3, <2>1, <2>2 DEF Owns
  <2>4. Owns(slots, o, a)
    BY <1>4, <1>5, <2>1, <2>2, <2>3 DEF Owns
  <2>5. Owner(slots, a) = o
    BY <1>2, <2>1, <2>4, OwnerIs
  <2>6. QED
    BY <2>5
<1>7. ASSUME Owner(slots, a) # NoSlot
      PROVE  Extent(slots'[Owner(slots', a)]) < Extent(slots[Owner(slots, a)])
  <2> DEFINE o == Owner(slots, a)
  <2>1. o \in Slot /\ Owns(slots, o, a)
    BY <1>2, <1>7, OwnerOwns
  <2>2. o # count /\ Covers(slots'[o], a) /\ slots'[o] = slots[o]
    BY <1>3, <1>4, <2>1 DEF Owns
  <2>3. \A t \in Slot : t # count /\ Covers(slots'[t], a) => Preferred(slots', o, t)
    BY <1>3, <1>5, <2>1, <2>2 DEF Owns
  <2>4. ~Owns(slots', o, a)
    BY <1>1, <2>1, OwnerIs
  <2>5. Covers(slots'[count], a) /\ ~Preferred(slots', o, count)
    BY <2>2, <2>3, <2>4 DEF Owns
  <2>6. Preferred(slots', count, o)
    BY <1>1, <2>1, <2>5, PreferredOrder
  <2>7. Owns(slots', count, a)
    <3>1. ASSUME NEW t \in Slot, Covers(slots'[t], a) PROVE Preferred(slots', count, t)
      <4>1. CASE t = count
        BY <1>1, <4>1, PreferredOrder
      <4>2. CASE t # count
        BY <1>1, <2>1, <2>3, <2>6, <3>1, <4>2, PreferredOrder
      <4>3. QED
        BY <4>1, <4>2
    <3>2. QED
      BY <2>5, <3>1 DEF Owns
  <2>8. Owner(slots', a) = count
    BY <1>1, <2>7, OwnerIs
  <2>9. o < count
    BY <1>1, <2>1 DEF Owns, Covers, CountIsActive, Active, TypeOK, Slot
  <2>10. /\ Extent(slots'[count]) \in Int /\ Extent(slots'[o]) \in Int
         /\ o \in Int /\ count \in Int
    BY <1>1, <2>1, AddrSpaceAssumption, NumSlotsAssumption
       DEF Peripheral, Addr, Extent, Slot
  <2>11. Extent(slots'[count]) < Extent(slots'[o])
    BY <2>5, <2>6, <2>9, <2>10 DEF Preferred
  <2>12. QED
    BY <2>2, <2>8, <2>11
<1>8. QED
  BY <1>6, <1>7

(* Registering a peripheral never takes an address from one that is at      *)
(* least as specific, however many ranges overlap.                          *)
THEOREM RegistrationOnlyCaptures == Spec => AddOnlyCaptures
<1> DEFINE Captures ==
      \A a \in Addr : Owner(slots', a) # Owner(slots, a) =>
         /\ Owner(slots', a) \notin Active
         /\ Owner(slots, a) # NoSlot =>
              Extent(slots'[Owner(slots', a)]) < Extent(slots[Owner(slots, a)])
<1>1. IInv /\ [Next]_vars => [Captures]_vars
  <2> SUFFICES ASSUME IInv, Next PROVE Captures
    BY DEF Captures
  <2>1. TypeOK /\ CountIsActive
    BY DEF IInv
  <2>2. CASE slots' = slots
    BY <2>2
  <2>3. CASE slots' # slots
    <3>1. PICK start \in Addr, end \in Addr, ctx \in Context \cup {External} :
             Register(start, end, ctx)
      <4>1. (\A start \in Addr, size \in 0 .. MaxSize : (start + size) % AddrSpace \in Addr)
        BY AddrSpaceAssumption DEF Addr
      <4>2. QED
        BY <2>3, <4>1 DEF Next, AddPeripheral, AddMemory, AddMemoryNoStorage, Refuse
    <3>2. QED
      BY <2>1, <3>1, RegisterCaptures
  <2>4. QED
    BY <2>2, <2>3
<1>2. QED
  BY <1>1, IInvInit, IInvStep, PTL DEF Spec, AddOnlyCaptures
=============================================================================
