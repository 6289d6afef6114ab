----------------------------- MODULE MCToolCall -----------------------------
(* One session, two calls in two threads, a bucket of one. *)
EXTENDS ToolCall, TLC

CONSTANTS p1, t1, c1, c2

MCPairings == {p1}
MCTokens == {t1}
MCCalls == {c1, c2}
MCTtls == {2}
=============================================================================
