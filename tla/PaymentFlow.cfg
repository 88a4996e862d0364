\* one payment of two units, two handlers, a job with one retry
SPECIFICATION FairSpec
CONSTANTS
    NPayments = 1
    Amount = 2
    Calls = {c1, c2}
    Attempts = 2
INVARIANTS IInv RefundReal
PROPERTIES  AutoRejectHappens
