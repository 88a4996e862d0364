------------------------------- MODULE MCLedger -------------------------------
(* A settlement and a payout, of which two or three transactions begin. *)
EXTENDS Ledger

CONSTANTS settlement, payout

MCWriters == {settlement, payout}
MCAmounts == [w \in MCWriters |-> IF w = settlement THEN <<2, -1>> ELSE <<1>>]

=============================================================================
