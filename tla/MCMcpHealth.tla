---------------------------- MODULE MCMcpHealth ----------------------------
EXTENDS McpHealth, TLC

CONSTANTS s1, c1, c2

\* Both callers call the one server.
OneServer == (c1 :> s1) @@ (c2 :> s1)
=============================================================================
