\* two customers, two places of a slot, two days; the vendor takes one place away
CONSTANTS
    Nil = Nil
    Quotes = {q1, q2}
    Slots = {s1}
    Days = {day1, day2}
    Holds = {h1, h2}
    Drafts = {d1, d2}
    Attempts = {a1, a2}
    MaxOrders <- MCMaxOrders
    SnapshotDay <- MCSnapshotDay
    Places = 2
    Limits = {1}
    HoldTTL = 1
    MaxClock = 1
SPECIFICATION Spec
SYMMETRY Alike
INVARIANTS
    IInv
    TypeOK
    LockInv
    HoldUsedOnce
PROPERTIES
    AdmissionCapacity
    PlacedOnlyWhenPaid
    HoldEndsOnce
    AdmissionSpec
CHECK_DEADLOCK FALSE
