-------------------------------- MODULE Bus --------------------------------
(***************************************************************************)
(* Registration on the system bus (src/bus.c) and the SoC operations that  *)
(* build an address map with it (src/soc.c): soc_add_peripheral and        *)
(* soc_add_memory, with every failure the two handle: an allocation that   *)
(* returns NULL and a bus with no free slot.                               *)
(*                                                                         *)
(* A peripheral context is an allocation: "heap" holds the memory contexts *)
(* soc_add_memory has allocated and not freed.  The context of a           *)
(* peripheral its caller allocates (UART, TOHOST) is External.             *)
(***************************************************************************)
EXTENDS BusMap, FiniteSets

CONSTANTS
    AddrSpace,         \* number of addresses: 2^32 in the code
    Context,           \* the contexts malloc can return
    External,          \* the context of a peripheral owned by the caller
    MaxSize            \* largest memory size requested

ASSUME AddrSpaceAssumption == AddrSpace \in Nat \ {0}
ASSUME ContextAssumption   == External \notin Context

VARIABLES
    slots,             \* bus->peripherals
    count,             \* bus->count
    heap,              \* memory contexts allocated and not freed
    result             \* what the last call returned

vars == <<slots, count, heap, result>>

Addr       == 0 .. AddrSpace - 1
Peripheral == [active : BOOLEAN, start : Addr, end : Addr, ctx : Context \cup {External}]
Inactive   == [active |-> FALSE, start |-> 0, end |-> 0, ctx |-> External]
Active     == {s \in Slot : slots[s].active}

TypeOK == /\ slots \in [Slot -> Peripheral]
          /\ count \in 0 .. NumSlots
          /\ heap \subseteq Context
          /\ result \in BOOLEAN

----------------------------------------------------------------------------
(* bus_init, on a SoC whose storage soc_init has zeroed. *)
Init == /\ slots = [s \in Slot |-> Inactive]
        /\ count = 0
        /\ heap = {}
        /\ result = TRUE

(* bus_find_slot: the first inactive slot. *)
IsFreeSlot(s) == ~slots[s].active /\ \A t \in 0 .. s - 1 : slots[t].active
Full          == \A s \in Slot : slots[s].active

(* Mutant of Register: the count is forgotten. *)
RegisterUncounted(start, end, ctx) ==
    \E s \in Slot :
        /\ IsFreeSlot(s)
        /\ slots' = [slots EXCEPT ![s] = [active |-> TRUE, start |-> start,
                                          end |-> end, ctx |-> ctx]]
        /\ result' = TRUE
        /\ UNCHANGED count

(* bus_add_peripheral with a free slot.  No range is compared with the *)
(* ranges already registered.                                          *)
Register(start, end, ctx) ==
    \E s \in Slot :
        /\ IsFreeSlot(s)
        /\ slots' = [slots EXCEPT ![s] = [active |-> TRUE, start |-> start,
                                          end |-> end, ctx |-> ctx]]
        /\ count' = count + 1
        /\ result' = TRUE

(* bus_add_peripheral on a full bus. *)
Refuse == /\ Full
          /\ result' = FALSE
          /\ UNCHANGED <<slots, count>>

AddPeripheral ==
    \E start, end \in Addr :
        /\ Register(start, end, External) \/ Refuse
        /\ UNCHANGED heap

(* Mutants of AddMemory: the end address does not wrap; a refused memory is  *)
(* not freed.                                                                *)
AddMemoryNoWrap ==
    \E start \in Addr, size \in 0 .. MaxSize, ctx \in Context \ heap :
        \/ Register(start, start + size, ctx) /\ heap' = heap \cup {ctx}
        \/ Refuse /\ UNCHANGED heap
AddMemoryLeak ==
    \E start \in Addr, size \in 0 .. MaxSize, ctx \in Context \ heap :
        /\ Register(start, (start + size) % AddrSpace, ctx) \/ Refuse
        /\ heap' = heap \cup {ctx}

(* soc_add_memory.  The end address is start + (word)size, so a region that  *)
(* reaches the top of the address space ends at 0.  The context is freed     *)
(* when its storage cannot be allocated and when the bus refuses it.         *)
AddMemory ==
    \E start \in Addr, size \in 0 .. MaxSize, ctx \in Context \ heap :
        \/ /\ Register(start, (start + size) % AddrSpace, ctx)
           /\ heap' = heap \cup {ctx}
        \/ /\ Refuse
           /\ UNCHANGED heap

(* soc_add_memory when malloc or calloc returns NULL: nothing is kept. *)
AddMemoryNoStorage == /\ result' = FALSE
                      /\ UNCHANGED <<slots, count, heap>>

Next == AddPeripheral \/ AddMemory \/ AddMemoryNoStorage

Spec == Init /\ [][Next]_vars

----------------------------------------------------------------------------
(* bus->count is the number of active slots, and these are the first ones:  *)
(* a call that fails takes no slot and one that succeeds takes exactly one. *)
CountIsActive == Active = 0 .. count - 1

(* No memory context is lost: what is on the heap is what the bus reaches,  *)
(* also after a registration that failed half way.                          *)
NoLeak == heap = {slots[s].ctx : s \in Active} \ {External}

(* Registering a peripheral never takes an address away from a peripheral   *)
(* that is at least as specific: an address that changes owner goes to the  *)
(* new peripheral, and its range is strictly smaller than the old owner's.  *)
AddOnlyCaptures ==
    [][\A a \in Addr :
          Owner(slots', a) # Owner(slots, a) =>
             /\ Owner(slots', a) \notin Active
             /\ Owner(slots, a) # NoSlot =>
                  Extent(slots'[Owner(slots', a)]) < Extent(slots[Owner(slots, a)])]_vars

(* include/rve/bus.h 7: "Overlapping address ranges are not permitted", and  *)
(* line 49, "false on slot exhaustion or overlap".  The code compares no     *)
(* ranges, so a run refutes this.                                            *)
NoOverlap == \A s, t \in Active : \A a \in Addr :
                Covers(slots[s], a) /\ Covers(slots[t], a) => s = t
=============================================================================
