---------------------------- MODULE MCFulfilment ----------------------------
(* Instances of Fulfilment for TLC. *)
EXTENDS Fulfilment, TLC

\* sound for invariants and action properties; not used for liveness
Alike == Permutations(Calls) \cup Permutations(Riders)

=============================================================================
