------------------------------- MODULE MCBus -------------------------------
(* Model-checking instance of Bus: memory contexts are interchangeable. *)
EXTENDS Bus, TLC
Perms == Permutations(Context)
=============================================================================
