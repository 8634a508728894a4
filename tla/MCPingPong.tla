----------------------------- MODULE MCPingPong -----------------------------
EXTENDS PingPong, TLC
CONSTANTS w1, w2, w3
MCIds == (w1 :> 1) @@ (w2 :> 2) @@ (w3 :> 127)
=============================================================================
