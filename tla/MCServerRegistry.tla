-------------------------- MODULE MCServerRegistry --------------------------
(* A small instance of ServerRegistry for TLC: one client that configures  *)
(* from two handlers at a time, and two streams for it.                    *)
EXTENDS ServerRegistry

CONSTANTS p1, t1, t2, h1, h2

MCPeers == {p1}
MCThreads == {t1, t2}
MCHandlers == {h1, h2}
=============================================================================
