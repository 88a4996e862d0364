SPECIFICATION FairSpec
CONSTANTS
    Nobody = Nobody
    Riders = {r1, r2}
    Calls = {c1}
    Attempts = 2
    MaxCredits = 1
PROPERTY OfferHappens
