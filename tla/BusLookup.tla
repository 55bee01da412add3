----------------------------- MODULE BusLookup -----------------------------
(***************************************************************************)
(* bus_get_peripheral (src/bus.c 71-87) as the loop the code runs: one     *)
(* step per slot, keeping the best match so far and its range.  The slot   *)
(* table and the address are the arguments of the call and do not change   *)
(* while it runs.                                                          *)
(***************************************************************************)
EXTENDS BusMap

CONSTANT AddrSpace     \* number of addresses: 2^32 in the code

ASSUME AddrSpaceAssumption == AddrSpace \in Nat \ {0}

VARIABLES
    slots,             \* bus->peripherals
    addr,              \* the address looked up
    i,                 \* the loop counter
    best_match,        \* slot of the best match so far, or NoSlot
    smallest_range     \* its range; 0xFFFFFFFF before there is one

vars == <<slots, addr, i, best_match, smallest_range>>

Addr       == 0 .. AddrSpace - 1
Peripheral == [active : BOOLEAN, start : Addr, end : Addr]

TypeOK == /\ slots \in [Slot -> Peripheral]
          /\ addr \in Addr
          /\ i \in 0 .. NumSlots
          /\ best_match \in Slot \cup {NoSlot}
          /\ smallest_range \in Nat

----------------------------------------------------------------------------
Init == /\ slots \in [Slot -> Peripheral]
        /\ addr \in Addr
        /\ i = 0
        /\ best_match = NoSlot
        /\ smallest_range = AddrSpace - 1

(* Mutants of Improves: an equal range replaces the match; the first match   *)
(* too must be smaller than the initial range.                               *)
ImprovesOnTie(p)   == /\ Covers(p, addr)
                      /\ best_match = NoSlot \/ Extent(p) <= smallest_range
ImprovesStrictly(p) == Covers(p, addr) /\ Extent(p) < smallest_range

(* The slot replaces the best match: it covers the address and is the first *)
(* to do so, or its range is strictly smaller.                              *)
Improves(p) == /\ Covers(p, addr)
               /\ best_match = NoSlot \/ Extent(p) < smallest_range

(* Mutant of Take: the index is read after the increment. *)
TakeNextIndex == /\ i < NumSlots
                 /\ Improves(slots[i])
                 /\ best_match' = i + 1
                 /\ smallest_range' = Extent(slots[i])
                 /\ i' = i + 1
                 /\ UNCHANGED <<slots, addr>>

Take == /\ i < NumSlots
        /\ Improves(slots[i])
        /\ best_match' = i
        /\ smallest_range' = Extent(slots[i])
        /\ i' = i + 1
        /\ UNCHANGED <<slots, addr>>

(* Mutant of Skip: the counter does not advance. *)
SkipStuck == /\ i < NumSlots
             /\ ~Improves(slots[i])
             /\ UNCHANGED vars

Skip == /\ i < NumSlots
        /\ ~Improves(slots[i])
        /\ i' = i + 1
        /\ UNCHANGED <<slots, addr, best_match, smallest_range>>

Next == Take \/ Skip

Spec == Init /\ [][Next]_vars /\ WF_vars(Next)

----------------------------------------------------------------------------
Returned == i = NumSlots

(* The lookup returns the routing rule's owner: the covering slot with the   *)
(* smallest range, the lowest-numbered of equals, and NULL exactly when no   *)
(* slot covers the address, whatever ranges overlap, are empty or inverted.  *)
ReturnsOwner == Returned => best_match = Owner(slots, addr)

(* The rule the loop keeps after i slots: the best match is the owner among  *)
(* the slots already seen.                                                   *)
Seen == 0 .. i - 1
BestSoFar ==
    /\ best_match = NoSlot => \A t \in Seen : ~Covers(slots[t], addr)
    /\ best_match # NoSlot =>
         /\ best_match \in Seen
         /\ Covers(slots[best_match], addr)
         /\ smallest_range = Extent(slots[best_match])
         /\ \A t \in Seen : Covers(slots[t], addr) => Preferred(slots, best_match, t)

(* The lookup ends. *)
Terminates == <>Returned
=============================================================================
