CONSTANTS
    alice = alice
    bob = bob
    dave = dave
    zed = zed
    bankA = bankA
    bankB = bankB
    h1 = h1
    h2 = h2
    h3 = h3
    h4 = h4
    h5 = h5
    t1 = t1
    t2 = t2
    t3 = t3
    t4 = t4
    NoBank = NoBank
    NoRecord = NoRecord
    Clients = {alice, bob}
    Banks = {bankA, bankB}
    Handlers = {h1}
    TxIds = {t1}
    BankOf <- HomeBankOf
    InitialBalance <- FundsOf
    TxOf <- TxOfHandler
    Sender <- Payer
    Receiver <- Payee
    Amount <- Cost
    MayExpire = TRUE
    Overlap = FALSE
    MayForget = FALSE
    MaxBankRestarts = 0
    MaxGatewayRestarts = 0

SPECIFICATION Spec

CHECK_DEADLOCK FALSE

INVARIANTS
    AllOrNothing
