SPECIFICATION Spec
CONSTANTS
    u1 = u1
    k1 = k1
    k2 = k2
    h1 = h1
    h2 = h2
    r1 = r1
    Users = {u1}
    Records = {r1}
    Applicant <- MCApplicant
    Target <- MCTarget
    StartTier <- MCStartTier
    Keys = {k1, k2}
    Bodies <- MCBodies
    Body <- MCBody
    Handlers = {h1, h2}
    Admins = 2
    Oldest = "month"
    Rate <- MCRate
    Value <- MCValue
SYMMETRY Symmetric
INVARIANTS
    TypeOK
    KeyBindsBody
    WalletStaysWithinLimit
    MovesFollowReview
    LargeFirstIsHeld
    HitsAreQueued
    VerdictIsMonotone
    CountedIsFair
CHECK_DEADLOCK FALSE
