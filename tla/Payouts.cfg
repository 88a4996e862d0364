SPECIFICATION FairSpec
CONSTANTS
    monday = monday
    w1 = w1
    w2 = w2
    Rows <- MCRows
    DailyRows <- MCRows
    Workers <- MCWorkers
    Nets <- MCNets
    MaxAttempts = 3
    JobRuns = 2
    AttemptCap = 4
    LowestPayout <- MCLowestPayout
    MaxTroubles = 3
INVARIANTS IInv PaidOnce RetriesBounded
PROPERTIES PaidWhatIsOwed HeldUntilReleased 
