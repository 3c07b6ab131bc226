----------------------------- MODULE MCMCPClient -----------------------------
(* MCPClient for TLC: settings without a server, and with one that depends  *)
(* on the cluster.                                                          *)
EXTENDS MCPClient
==============================================================================
