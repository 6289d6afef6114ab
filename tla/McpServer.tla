------------------------------ MODULE McpServer ------------------------------
(***************************************************************************)
(* The MCP layer: the issue-token command, the server process that serves  *)
(* the runtime's tools to one agent over stdio, and the keys that decide   *)
(* whether the token of the first passes the gate of the second.           *)
(*                                                                         *)
(* One audit log, whose sibling files hold the signing keypair of the      *)
(* tokens issued for it.  A token is its signing key, its issuer and the   *)
(* tools it grants; it expires by an action.  The agent's client sends one *)
(* request at a time: the server runs each to its end in its event loop.   *)
(***************************************************************************)
EXTENDS Naturals

CONSTANTS
  Tools,        \* the tools of the registry
  Miswired,     \* those of them the server calls with arguments the runtime
                \* lacks: shell.exec, logs.read and permission.request
  Unknown,      \* a tool name that is not in the registry
  Issuers,      \* values of --issuer-id
  MaxKeys       \* keypairs generated in a run

VARIABLES
  keyFile, pubFile,  \* <audit_log>.tokenkey and .tokenkey.pub
  keys,              \* keypairs generated so far
  tokens, expired,   \* the tokens issued, and those past their expires_at
  server,            \* the running server, or Down
  answer             \* the last request and what the client got for it

vars == <<keyFile, pubFile, keys, tokens, expired, server, answer>>

NoKey == 0
RandomIssuer == "random"
Down == [up |-> FALSE]
NoAnswer == [tool |-> Unknown, outcome |-> "none"]
Init ==
  /\ keyFile = NoKey /\ pubFile = NoKey /\ keys = 0
  /\ tokens = {} /\ expired = {} /\ server = Down /\ answer = NoAnswer

------------------------------------------------------------------------------
(* adroid-issue-token.                                                     *)

\* A keypair is reused when both of its files exist; else a new one is
\* written, the private file first, and the command may die in between.  The
\* grants are parsed after that: one that does not parse raises, and there is
\* no token although the keys are on disk.
IssueToken(issuer, grants) ==
  /\ \/ keyFile # NoKey /\ pubFile # NoKey /\ UNCHANGED <<keyFile, pubFile, keys>>
     \/ /\ (keyFile = NoKey \/ pubFile = NoKey) /\ keys < MaxKeys
        /\ keys' = keys + 1 /\ keyFile' = keys' /\ pubFile' \in {pubFile, keys'}
  /\ \/ /\ pubFile' = keyFile'
        /\ tokens' = tokens \cup {[key |-> keyFile', issuer |-> issuer, grants |-> grants]}
     \/ UNCHANGED tokens
  /\ UNCHANGED <<expired, server, answer>>

Expire(tok) ==
  /\ tok \in tokens /\ expired' = expired \cup {tok}
  /\ UNCHANGED <<keyFile, pubFile, keys, tokens, server, answer>>

------------------------------------------------------------------------------
(* adroid-mcp-server.                                                      *)

\* _build_runtime gives the runtime no token key, so it generates one of its
\* own; without --issuer-id it also picks an issuer of its own.  ADROID_TOKEN
\* is parsed and not verified.
StartServer(tok, issuer) ==
  /\ server = Down /\ tok \in tokens /\ keys < MaxKeys
  /\ keys' = keys + 1
  /\ server' = [up |-> TRUE, key |-> keys', issuer |-> issuer, token |-> tok]
  /\ answer' = NoAnswer
  /\ UNCHANGED <<keyFile, pubFile, tokens, expired>>

StopServer ==
  /\ server # Down /\ server' = Down /\ answer' = NoAnswer
  /\ UNCHANGED <<keyFile, pubFile, keys, tokens, expired>>

\* PermissionGate.authorize, revocations and the rate limit aside.
GateAllows(srv, tool) ==
  /\ srv.token.key = srv.key
  /\ srv.token \notin expired
  /\ srv.token.issuer = srv.issuer
  /\ tool \in srv.token.grants

\* call_tool: a name it does not know is answered as such; a miswired call
\* raises before the gate, and only AdroidErrors are turned into answers.
CallTool(tool) ==
  /\ server # Down
  /\ answer' = [tool |-> tool,
                outcome |-> CASE tool = Unknown -> "unknown_tool"
                              [] tool \in Miswired -> "internal_error"
                              [] tool \in Tools \ Miswired ->
                                   IF GateAllows(server, tool) THEN "served" ELSE "denied"]
  /\ UNCHANGED <<keyFile, pubFile, keys, tokens, expired, server>>

Next ==
  \/ \E i \in Issuers, g \in SUBSET Tools : IssueToken(i, g)
  \/ \E tok \in tokens : Expire(tok)
  \/ \E tok \in tokens, i \in Issuers \cup {RandomIssuer} : StartServer(tok, i)
  \/ StopServer
  \/ \E tool \in Tools \cup {Unknown} : CallTool(tool)

Spec == Init /\ [][Next]_vars

------------------------------------------------------------------------------

\* A token issued with the audit log's keypair, for the server's issuer,
\* granting the tool and not expired when the call is made, is not denied.
\* (issue_token.py, "the runtime's token-signing keypair"; server.py, "Every
\* tool call the server proxies through the runtime uses this token")
IssuedTokenAccepted ==
  [][\A tool \in Tools :
       LET tok == server.token IN
       (CallTool(tool) /\ tok.key = keyFile /\ tok.issuer = server.issuer
          /\ tok \notin expired /\ tool \in tok.grants)
         => answer'.outcome # "denied"]_vars
==============================================================================
