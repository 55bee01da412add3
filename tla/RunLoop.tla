------------------------------- MODULE RunLoop -------------------------------
(***************************************************************************)
(* What a program that embeds the emulator may count on, without the       *)
(* machine: calls that step the guest once or until it stops, a budget of  *)
(* steps that spans the calls, and an exit code that is final once a call  *)
(* has returned it, except that exhausting a budget makes it 1.            *)
(***************************************************************************)
EXTENDS Integers

CONSTANTS
    Limits,            \* the budgets a run may have, 0 for none
    Word,              \* the exit codes
    CycleCap           \* bound on the count of steps

VARIABLES
    phase,             \* "idle", or the call in progress: "run" or "step"
    budget,            \* of the last run
    steps,             \* taken since the beginning, all calls together
    fresh,             \* the call has not taken a step yet
    stopped, code      \* the guest has stopped, and its exit code

loopVars == <<phase, budget, steps, fresh, stopped, code>>

Init == /\ phase = "idle" /\ budget = 0 /\ steps = 0 /\ fresh = TRUE
        /\ stopped = FALSE /\ code = 0

Call == /\ phase = "idle"
        /\ fresh' = TRUE
        /\ \/ phase' = "run" /\ budget' \in Limits
           \/ phase' = "step" /\ budget' = budget
        /\ UNCHANGED <<steps, stopped, code>>

(* A run that has used up its budget must end; its first step is free. *)
Exhausted == phase = "run" /\ budget # 0 /\ steps >= budget /\ ~fresh

(* The guest may stop in a step, or in the system call that follows it. *)
Stops == ~stopped /\ stopped' = TRUE /\ code' \in Word

(* A single step ends its call, unless a system call is left to be served. *)
Step == /\ phase # "idle" /\ ~stopped
        /\ phase = "step" => fresh
        /\ ~Exhausted
        /\ steps' = IF steps < CycleCap THEN steps + 1 ELSE CycleCap
        /\ fresh' = FALSE
        /\ phase' = phase \/ (phase = "step" /\ phase' = "idle")
        /\ Stops \/ UNCHANGED <<stopped, code>>
        /\ UNCHANGED budget

Serve == /\ phase # "idle" /\ ~fresh /\ ~stopped
         /\ phase' = phase \/ (phase = "step" /\ phase' = "idle")
         /\ Stops \/ UNCHANGED <<stopped, code>>
         /\ UNCHANGED <<budget, steps, fresh>>

Exhaust == /\ Exhausted
           /\ stopped' = TRUE /\ code' = 1
           /\ phase' = "idle"
           /\ UNCHANGED <<budget, steps, fresh>>

(* A budget used up is reported even if the guest stopped in the last step. *)
Return == /\ phase # "idle" /\ stopped
          /\ ~Exhausted
          /\ phase = "step" => fresh
          /\ phase' = "idle"
          /\ UNCHANGED <<budget, steps, fresh, stopped, code>>

Next == Call \/ Step \/ Serve \/ Exhaust \/ Return

(* A call with a budget, or of a single step, ends. *)
Ends == phase # "idle" /\ (phase = "run" => budget # 0) ~> phase = "idle"

Spec == Init /\ [][Next]_loopVars /\ Ends
=============================================================================
