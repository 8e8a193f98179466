--------------------------- MODULE MCServerThread ---------------------------
(* Small instances of ServerThread for TLC.                                *)
EXTENDS ServerThread, TLC

CONSTANTS h1, h2, r1, r2

MCHandlers == {h1, h2}
MCRequests == {r1, r2}

\* Threads of one kind, and request objects, are interchangeable.
MCSymmetry == Permutations(MCHandlers) \cup Permutations(MCRequests)

MCOneHandler == {h1}

=============================================================================
