------------------------------- MODULE Traps -------------------------------
(***************************************************************************)
(* Trap and return: the hart of module Hart with a history variable that   *)
(* remembers what the most recent trap interrupted, until MRET returns     *)
(* from it or software writes the registers it was saved in.  The history  *)
(* follows the hart and constrains nothing.                                *)
(***************************************************************************)
EXTENDS Hart

VARIABLE frame     \* [live, pc, mie]: the interrupted pc and interrupt enable

trapVars == <<gpr, csr, pc, dev, retire, frame>>

Frame      == [live : BOOLEAN, pc : Word, mie : {0, 1}]
EmptyFrame == [live |-> FALSE, pc |-> 0, mie |-> 0]

Enabled == Flag(csr["mstatus"], MIE)
Saved   == [live |-> TRUE, pc |-> pc, mie |-> Enabled]

(* Software overwrites the saved pc or the saved enable bit. *)
Overwrites == \E instruction \in FetchedWord :
                 LET di == Decode(instruction)
                 IN  di.valid /\ WritesCsr(di) /\ di.csr \in {"mepc", "mstatus"}

TrapInit == Init /\ frame = EmptyFrame

(* An instruction's exception and an interrupt both enter the handler. *)
TrapNext == \/ RaiseInterrupt /\ frame' = Saved
            \/ /\ HartStep
               /\ frame' = IF retire'.trap \in Exception THEN Saved
                           ELSE IF Overwrites \/ retire'.op = "MRET" THEN EmptyFrame
                           ELSE frame

TrapSpec == TrapInit /\ [][TrapNext]_trapVars

----------------------------------------------------------------------------
TrapTypeOK == TypeOK /\ frame \in Frame

(* While a frame is live the hart holds it: nothing the handler does short   *)
(* of writing mepc or mstatus disturbs the return address or the saved       *)
(* enable bit, whatever it loads, stores or calls, and interrupts stay       *)
(* disabled.  A nested trap replaces the frame.                              *)
FrameHeld == frame.live => /\ csr["mepc"] = frame.pc
                           /\ Flag(csr["mstatus"], MPIE) = frame.mie
                           /\ Flag(csr["mstatus"], MIE) = 0

(* MRET from a live frame resumes exactly the interrupted instruction with   *)
(* the interrupt enable it ran under.                                        *)
MretResumes == [][frame.live /\ HartStep /\ retire'.op = "MRET" /\ retire'.trap = TRAP_NONE
                    => /\ pc' = frame.pc
                       /\ Flag(csr'["mstatus"], MIE) = frame.mie]_trapVars
=============================================================================
