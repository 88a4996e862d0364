\* a claim of the code that its steps do not keep
CONSTANTS
    Nil = Nil
    Quotes = {q1, q2}
    Slots = {s1}
    Days = {day1}
    Holds = {h1, h2}
    Drafts = {d1, d2}
    Attempts = {a1, a2}
    MaxOrders <- MCMaxOrders
    SnapshotDay <- MCSnapshotDay
    Places = 1
    Limits = {}
    HoldTTL = 1
    MaxClock = 2
SPECIFICATION Spec
SYMMETRY Alike
INVARIANT SlotCapacity
CHECK_DEADLOCK FALSE
