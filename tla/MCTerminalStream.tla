-------------------------- MODULE MCTerminalStream --------------------------
EXTENDS TerminalStream, TLC

CONSTANTS h1, h2, s1, s2

MCThreads == {h1, h2}
MCSockets == {s1, s2}

Symmetry == Permutations(MCThreads) \cup Permutations(MCSockets)
=============================================================================
