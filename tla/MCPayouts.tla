------------------------------ MODULE MCPayouts ------------------------------
(* One row and two calls: the second is a job that stalled and was given out *)
(* again. *)
EXTENDS Payouts

CONSTANTS monday, w1, w2

MCRows == {monday}
MCWorkers == {w1, w2}
MCNets == {1, 2}
MCLowestPayout == -1

=============================================================================
