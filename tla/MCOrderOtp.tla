----------------------------- MODULE MCOrderOtp -----------------------------
(* Instances of OrderOtp for TLC. *)
EXTENDS OrderOtp, TLC

\* history counts of a long race are of no interest
FewAnswers == \A i \in DOMAIN rows : rows[i].failed <= MaxAttempts /\ rows[i].accepted <= 2

Alike == Permutations(Generators) \cup Permutations(Checkers)

=============================================================================
