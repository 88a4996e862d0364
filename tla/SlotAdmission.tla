--------------------------- MODULE SlotAdmission ---------------------------
(***************************************************************************)
(* What a pickup slot promises: places are given out one at a time, only   *)
(* while there is one left, and everything else gives places back.         *)
(* claims[k] is the set of holders (slot holds, orders) of places of the   *)
(* booking key k, a slot on a day, and limit[k] the number of its places,  *)
(* which the vendor may change.  SlotBooking implements this.              *)
(***************************************************************************)
EXTENDS Naturals, FiniteSets

CONSTANTS Keys,       \* slot and day
          Claimants   \* whoever can have a place: holds and orders

VARIABLES claims, limit

Init ==
    /\ claims = [k \in Keys |-> {}]
    /\ limit \in [Keys -> Nat]

\* claimant x takes a place of key k; the hold it was converted from, and
\* any other, may give its place back in the same step
Admit(k, x) ==
    /\ claims' \in [Keys -> SUBSET Claimants]
    /\ claims'[k] \subseteq claims[k] \cup {x}
    /\ Cardinality(claims'[k]) <= limit[k]
    /\ \A j \in Keys \ {k} : claims'[j] \subseteq claims[j]
    /\ UNCHANGED limit

\* holds expire, are released or deleted; orders are rejected or refunded
GiveBack ==
    /\ claims' \in [Keys -> SUBSET Claimants]
    /\ \A k \in Keys : claims'[k] \subseteq claims[k]
    /\ UNCHANGED limit

\* more places or fewer; nobody loses the place it has
SetLimit ==
    /\ limit' \in [Keys -> Nat]
    /\ UNCHANGED claims

Next == GiveBack \/ SetLimit \/ \E k \in Keys, x \in Claimants : Admit(k, x)

Spec == Init /\ [][Next]_<<claims, limit>>

=============================================================================
