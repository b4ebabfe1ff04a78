SPECIFICATION Spec
CONSTANTS
    u1 = u1
    u2 = u2
    usd = usd
    q1 = q1
    q2 = q2
    q3 = q3
    k1 = k1
    k2 = k2
    k3 = k3
    k4 = k4
    h1 = h1
    h2 = h2
    d1 = d1
    d2 = d2
    Users <- MCUsers
    Currencies = {usd}
    Quotes = {q1, q2}
    Keys = {k1, k2, k3}
    Handlers = {h1, h2}
    Deciders = {d1, d2}
    Tier <- MCTier
    Order <- MCHeldOrder
    Terms <- MCHeldTerms
    AutoApprove = 3
    System <- MCSystem
    Opening <- MCOpening
    Opened <- MCOpened
SYMMETRY Symmetric
INVARIANT
    SuspenseAddsUp
PROPERTY
    ImplementsEscrow
