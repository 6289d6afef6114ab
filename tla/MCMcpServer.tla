----------------------------- MODULE MCMcpServer -----------------------------
(* The instance of McpServer that TLC checks. *)
EXTENDS McpServer

CONSTANTS list, shell, nope, cli

MCTools == {list, shell}
MCMiswired == {shell}
MCIssuers == {cli}
==============================================================================
