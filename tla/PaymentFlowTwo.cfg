SPECIFICATION Spec
CONSTANTS
    NPayments = 2
    Amount = 1
    Calls = {c1, c2}
    Attempts = 1
SYMMETRY Alike
INVARIANTS OrderPaidFor OneDraftPaymentLinked
