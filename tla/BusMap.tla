------------------------------- MODULE BusMap -------------------------------
(***************************************************************************)
(* The routing rule of the system bus: which slot of a slot table owns an  *)
(* address.  This is the result bus_get_peripheral (src/bus.c) returns;    *)
(* module BusLookup models the loop that computes it.                      *)
(***************************************************************************)
EXTENDS Integers

CONSTANT NumSlots      \* BUS_MAX_PERIPHERALS

ASSUME NumSlotsAssumption == NumSlots \in Nat \ {0}

Slot   == 0 .. NumSlots - 1
NoSlot == -1           \* the NULL result, and bus_find_slot's "full"

(* Ranges are half open: [start, end). *)
Covers(p, a) == p.active /\ p.start <= a /\ a < p.end
Extent(p)    == p.end - p.start

(* Mutant of Preferred: the later slot wins a tie. *)
PreferredLater(slots, s, t) == \/ Extent(slots[s]) < Extent(slots[t])
                               \/ Extent(slots[s]) = Extent(slots[t]) /\ s >= t

(* Slot s is preferred to slot t: a smaller range, or the earlier slot of *)
(* two equally small ones.                                                *)
Preferred(slots, s, t) == \/ Extent(slots[s]) < Extent(slots[t])
                          \/ Extent(slots[s]) = Extent(slots[t]) /\ s <= t

Owns(slots, s, a) == /\ Covers(slots[s], a)
                     /\ \A t \in Slot : Covers(slots[t], a) => Preferred(slots, s, t)

Owner(slots, a) == IF \E s \in Slot : Owns(slots, s, a)
                   THEN CHOOSE s \in Slot : Owns(slots, s, a)
                   ELSE NoSlot
=============================================================================
