--------------------------- MODULE MCPaymentFlow ---------------------------
(* Instances of PaymentFlow for TLC. *)
EXTENDS PaymentFlow, TLC

\* sound for invariants and action properties; not used for liveness
Alike == Permutations(Calls)

=============================================================================
