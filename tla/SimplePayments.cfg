CONSTANTS
    rent = rent
    fee = fee
    Calls = {1, 2, 3}
    Ids = {rent, fee}
    NoId = NoId
    Amount <- Amounts
    Deposit = 4
    MaxCrashes = 1

SPECIFICATION Spec

\* Every call may have been answered.
CHECK_DEADLOCK FALSE

INVARIANTS
    TypeOK
    GatewayNeverBelowBank
    
    SuccessMeansCharged
