CONSTANTS
    p1 = p1
    p2 = p2
    t1 = t1
    t2 = t2
    None = None
    Pairings <- MCPairings
    Tokens <- MCTokens
    Ttls <- MCTtls
    MaxSessions = 1
    MaxPairingWait = 1
    MinTtl = 1
    MaxTtl = 2
    MaxTime = 3
    ClockMayStepBack = TRUE
SPECIFICATION PollSpec
INVARIANTS
    PollTypeOK
    OneTokenPerApproval
    UsableIsDisconnectable
    LastAnswerStands
PROPERTIES
    DecisionsAreFinal
    NoRevival
    ExpiredIsReaped
    ImplementsAccess
