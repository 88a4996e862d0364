\* two handlers, two riders, the job without a retry (see FulfilmentLive.cfg)
SPECIFICATION Spec
CONSTANTS
    Nobody = Nobody
    Riders = {r1, r2}
    Calls = {c1, c2}
    Attempts = 1
    MaxCredits = 1
SYMMETRY Alike
INVARIANTS IInv CodeBeforePickup RefundedWasCredited
 
