SPECIFICATION Spec
CONSTANTS
    settlement = settlement
    payout = payout
    Writers <- MCWriters
    Amounts <- MCAmounts
    MaxTxs = 3
INVARIANT BalanceIsSum
CHECK_DEADLOCK FALSE
