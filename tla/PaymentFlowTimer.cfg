SPECIFICATION Spec
CONSTANTS
    NPayments = 1
    Amount = 1
    Calls = {c1}
    Attempts = 1
INVARIANT WaitingHasTimer
