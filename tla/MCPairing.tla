------------------------------ MODULE MCPairing ------------------------------
EXTENDS PairingPoll, TLC

CONSTANTS p1, p2, t1, t2

MCPairings == {p1, p2}
MCTokens == {t1, t2}
\* One below, one at each end of, and one above the limits 1..2.
MCTtls == 0..3
=============================================================================
