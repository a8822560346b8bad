-------------------------- MODULE MCGuardedBackend --------------------------
(* Instances of GuardedBackend.  The calls are interchangeable, so their   *)
(* permutations are a symmetry; it is used for safety only.                *)
EXTENDS GuardedBackend, TLC

CONSTANTS c1, c2, c3, c4

Sym == Permutations(Calls)

=============================================================================
