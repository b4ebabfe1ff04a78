SPECIFICATION Spec
CONSTANTS
    h1 = h1
    h2 = h2
    c1 = c1
    s1 = s1
    s2 = s2
    Handlers = {h1, h2}
    Sessions = {s1, s2}
    Challenges = {c1}
    Purpose <- MCPurpose
    LockAt = 2
    OtpMax = 1
    MaxTokens = 4
SYMMETRY Symmetric
INVARIANTS
    TypeOK
    PasswordTriesAreBounded
    LogoutIsFinal
    TokenIsSingleUse
    GuessesAreBounded
    SealedStaysSuspended
CHECK_DEADLOCK FALSE
