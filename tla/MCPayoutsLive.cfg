SPECIFICATION Spec
CONSTANTS
    mobile = mobile
    onchain = onchain
    bank = bank
    None = None
    d1 = d1
    d2 = d2
    x1 = x1
    x2 = x2
    p1 = p1
    p2 = p2
    Withdrawals = {mobile, onchain, bank}
    Calls = {mobile, bank}
    Served = {mobile, onchain, bank}
    Refused = {bank}
    Dispatchers = {d1}
    Workers = {x1}
    Processors = {p1}
    Attempts = 2
    MaxStalled = 1
    MaxFaults = 1
PROPERTIES
    CommittedIsDispatched
    ReceivedIsSettled
CHECK_DEADLOCK FALSE
