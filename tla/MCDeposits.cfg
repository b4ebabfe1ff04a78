SPECIFICATION FairSpec
CONSTANTS
    w1 = w1
    w2 = w2
    d1 = d1
    d2 = d2
    d3 = d3
    m1 = m1
    m2 = m2
    i1 = i1
    Wallets = {w1, w2}
    Deposits = {d1, d2, d3}
    Moves = {m1, m2}
    Indexers = {i1}
    Deposit <- MCDeposit
    Move <- MCMove
    Opened = {w1}
    Opening <- MCOpening
    Batch = 2
    Faults = 1
    MaxCredits = 2
INVARIANTS
    TypeOK
    CreditedOnce
    NoOverdraft
    ReportIsRight
PROPERTIES
    TransferHeals
    ConfirmedIsCredited
CHECK_DEADLOCK FALSE
