--------------------------- MODULE MCSlotBooking ---------------------------
(* Instances of SlotBooking for TLC. *)
EXTENDS SlotBooking, TLC

CONSTANTS Places  \* max_orders of every slot

MCMaxOrders == [s \in Slots |-> Places]

\* a process whose time zone is UTC, as in the containers of deploy/
MCSnapshotDay == [day \in Days |-> day]

\* sound for invariants and action properties; not used for liveness
Alike == Permutations(Holds) \cup Permutations(Drafts)
            \cup Permutations(Attempts) \cup Permutations(Quotes)
            \cup Permutations(Days)

=============================================================================
