CONSTANTS
    p1 = p1
    t1 = t1
    c1 = c1
    c2 = c2
    None = None
    Pairings <- MCPairings
    Tokens <- MCTokens
    Calls <- MCCalls
    Ttls <- MCTtls
    MaxSessions = 1
    MaxPairingWait = 1
    MinTtl = 1
    MaxTtl = 2
    MaxTime = 3
    ClockMayStepBack = FALSE
    Burst = 1
SPECIFICATION CallSpec
INVARIANTS
    CallTypeOK
    RevokedNeverActs
    ActsOnlyIfUsable
    TouchedIsAudited
    AnswerAgreesWithTrail
    DeniedIsFree
PROPERTIES
    EveryCallAnswered
CHECK_DEADLOCK FALSE
