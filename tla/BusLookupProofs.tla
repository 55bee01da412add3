-------------------------- MODULE BusLookupProofs --------------------------
(***************************************************************************)
(* Proofs about bus_get_peripheral's loop, for every number of slots,      *)
(* every address space and every slot table, overlapping or not.           *)
(*                                                                         *)
(* ReturnsOwner says nothing until the loop has ended, so it is not        *)
(* inductive.  BestSoFar is, together with the type invariant: at the end  *)
(* of the loop the slots seen are all the slots, and a slot preferred to   *)
(* every covering slot is unique.                                          *)
(***************************************************************************)
EXTENDS BusLookup, TLAPS

(* Two slots that both own an address are the same: the range decides, and  *)
(* the slot number decides a tie.                                           *)
LEMMA OwnerUnique ==
    ASSUME NEW tbl \in [Slot -> Peripheral], NEW a \in Addr,
           NEW s \in Slot, NEW t \in Slot,
           Owns(tbl, s, a), Owns(tbl, t, a)
    PROVE  s = t
<1>1. /\ Extent(tbl[s]) \in Int /\ Extent(tbl[t]) \in Int
      /\ s \in Int /\ t \in Int
  BY AddrSpaceAssumption, NumSlotsAssumption DEF Peripheral, Addr, Extent, Slot
<1>2. Preferred(tbl, s, t) /\ Preferred(tbl, t, s)
  BY DEF Owns
<1>3. QED
  BY <1>1, <1>2 DEF Preferred

(* Owner is whichever slot owns the address, and NoSlot when none does. *)
LEMMA OwnerIs ==
    ASSUME NEW tbl \in [Slot -> Peripheral], NEW a \in Addr,
           NEW s \in Slot, Owns(tbl, s, a)
    PROVE  Owner(tbl, a) = s
<1>1. /\ Owner(tbl, a) \in Slot
      /\ Owns(tbl, Owner(tbl, a), a)
  BY DEF Owner
<1>2. QED
  BY <1>1, OwnerUnique

LEMMA OwnerNone ==
    ASSUME NEW tbl, NEW a, \A t \in Slot : ~Covers(tbl[t], a)
    PROVE  Owner(tbl, a) = NoSlot
<1>1. ~ \E s \in Slot : Owns(tbl, s, a)
  BY DEF Owns
<1>2. QED
  BY <1>1 DEF Owner

----------------------------------------------------------------------------
(* The code's loop keeps its variables in their ranges. *)
LEMMA TypeInit == Init => TypeOK
  BY AddrSpaceAssumption, NumSlotsAssumption DEF Init, TypeOK, NoSlot

(* The range of a covering slot is not negative. *)
LEMMA ExtentOfCovering ==
    ASSUME NEW p \in Peripheral, NEW a \in Addr, Covers(p, a)
    PROVE  Extent(p) \in Nat
  BY AddrSpaceAssumption DEF Peripheral, Addr, Covers, Extent

LEMMA TypeStep == TypeOK /\ [Next]_vars => TypeOK'
<1> SUFFICES ASSUME TypeOK, [Next]_vars PROVE TypeOK'
  OBVIOUS
<1>1. CASE Take
  <2>1. i \in Slot /\ slots[i] \in Peripheral
    BY <1>1, NumSlotsAssumption DEF TypeOK, Take, Slot
  <2>2. Extent(slots[i]) \in Nat
    BY <1>1, <2>1, ExtentOfCovering DEF Take, Improves, TypeOK
  <2>3. QED
    BY <1>1, <2>1, <2>2, NumSlotsAssumption DEF TypeOK, Take
<1>2. CASE Skip
  BY <1>2, NumSlotsAssumption DEF TypeOK, Skip
<1>3. CASE UNCHANGED vars
  BY <1>3 DEF TypeOK, vars
<1>4. QED
  BY <1>1, <1>2, <1>3 DEF Next

(* The loop's variables keep their types: the best match is a slot of the   *)
(* table or NULL, and the range kept is never negative.                     *)
THEOREM TypeCorrect == Spec => []TypeOK
  BY TypeInit, TypeStep, PTL DEF Spec

----------------------------------------------------------------------------
LEMMA BestInit == Init => BestSoFar
  BY DEF Init, BestSoFar, Seen, NoSlot

LEMMA BestStep == TypeOK /\ BestSoFar /\ [Next]_vars => BestSoFar'
<1> SUFFICES ASSUME TypeOK, BestSoFar, [Next]_vars PROVE BestSoFar'
  OBVIOUS
<1>1. CASE Take
  <2>1. /\ i \in Slot /\ i \in Nat /\ i # NoSlot
        /\ slots' = slots /\ addr' = addr
        /\ best_match' = i /\ smallest_range' = Extent(slots[i])
        /\ Covers(slots[i], addr)
        /\ best_match = NoSlot \/ Extent(slots[i]) < smallest_range
    BY <1>1, NumSlotsAssumption DEF TypeOK, Take, Slot, Improves, NoSlot
  <2>2. Seen' = Seen \cup {i} /\ Seen \subseteq Slot
    BY <1>1, NumSlotsAssumption DEF TypeOK, Take, Seen, Slot
  <2>3. \A t \in Seen : /\ t \in Int
                        /\ Extent(slots[t]) \in Int
    BY <2>2, AddrSpaceAssumption DEF TypeOK, Peripheral, Addr, Extent, Slot
  <2>4. ASSUME NEW t \in Seen', Covers(slots[t], addr)
        PROVE  Preferred(slots, i, t)
    <3>1. CASE t = i
      BY <3>1, <2>1 DEF Preferred
    <3>2. CASE t # i
      <4>1. t \in Seen
        BY <3>2, <2>2
      <4>2. best_match # NoSlot
        BY <4>1, <2>4 DEF BestSoFar
      <4>3. /\ smallest_range = Extent(slots[best_match])
            /\ best_match \in Seen
            /\ Preferred(slots, best_match, t)
        BY <4>1, <4>2, <2>4 DEF BestSoFar
      <4>4. Extent(slots[i]) < Extent(slots[best_match])
        BY <4>2, <4>3, <2>1
      <4>5. Extent(slots[i]) \in Int
        BY <2>1, AddrSpaceAssumption DEF TypeOK, Peripheral, Addr, Extent
      <4>6. QED
        BY <4>1, <4>3, <4>4, <4>5, <2>3 DEF Preferred
    <3>3. QED
      BY <3>1, <3>2
  <2>5. QED
    BY <2>1, <2>2, <2>4 DEF BestSoFar
<1>2. CASE Skip
  <2>1. /\ i \in Slot
        /\ slots' = slots /\ addr' = addr
        /\ best_match' = best_match /\ smallest_range' = smallest_range
        /\ ~Improves(slots[i])
    BY <1>2, NumSlotsAssumption DEF TypeOK, Skip, Slot
  <2>2. Seen' = Seen \cup {i}
    BY <1>2, NumSlotsAssumption DEF TypeOK, Skip, Seen
  <2>3. CASE best_match = NoSlot
    BY <2>1, <2>2, <2>3 DEF BestSoFar, Improves
  <2>4. CASE best_match # NoSlot
    <3>1. /\ best_match \in Seen
          /\ Covers(slots[best_match], addr)
          /\ smallest_range = Extent(slots[best_match])
          /\ \A t \in Seen : Covers(slots[t], addr) => Preferred(slots, best_match, t)
      BY <2>4 DEF BestSoFar
    <3>2. best_match < i /\ best_match \in Int /\ i \in Int
      BY <3>1 DEF TypeOK, Seen
    <3>3. Extent(slots[i]) \in Int /\ smallest_range \in Int
      BY <2>1, AddrSpaceAssumption DEF TypeOK, Peripheral, Addr, Extent
    <3>4. ASSUME Covers(slots[i], addr) PROVE Preferred(slots, best_match, i)
      BY <3>1, <3>2, <3>3, <3>4, <2>1, <2>4 DEF Preferred, Improves
    <3>5. QED
      BY <2>1, <2>2, <2>4, <3>1, <3>4 DEF BestSoFar
  <2>5. QED
    BY <2>3, <2>4
<1>3. CASE UNCHANGED vars
  BY <1>3 DEF BestSoFar, Seen, vars
<1>4. QED
  BY <1>1, <1>2, <1>3 DEF Next

(* What the loop keeps after each slot: the best match owns the address     *)
(* among the slots seen so far.                                             *)
THEOREM BestSoFarHolds == Spec => []BestSoFar
  BY TypeInit, TypeStep, BestInit, BestStep, PTL DEF Spec

LEMMA BestIsOwner == TypeOK /\ BestSoFar => ReturnsOwner
<1> SUFFICES ASSUME TypeOK, BestSoFar, Returned PROVE best_match = Owner(slots, addr)
  BY DEF ReturnsOwner
<1>1. Seen = Slot
  BY NumSlotsAssumption DEF Returned, Seen, Slot
<1>2. CASE best_match = NoSlot
  BY <1>1, <1>2, OwnerNone DEF BestSoFar
<1>3. CASE best_match # NoSlot
  <2>1. best_match \in Slot /\ Owns(slots, best_match, addr)
    BY <1>1, <1>3 DEF BestSoFar, Owns
  <2>2. QED
    BY <2>1, OwnerIs DEF TypeOK
<1>4. QED
  BY <1>2, <1>3

(* bus_get_peripheral returns the routing rule's owner: the covering slot   *)
(* with the smallest range, the lowest-numbered of equals, and NULL exactly *)
(* when no slot covers the address, whatever ranges overlap.                *)
THEOREM LookupReturnsOwner == Spec => []ReturnsOwner
  BY TypeInit, TypeStep, BestInit, BestStep, BestIsOwner, PTL DEF Spec
=============================================================================
