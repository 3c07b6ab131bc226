--------------------------- MODULE MCSATokenCache ---------------------------
(* SATokenCache for TLC: two concurrent callers, one token file.            *)
EXTENDS SATokenCache, TLC

CONSTANTS c1, c2, tokenFile

MCCallers == {c1, c2}

MCPaths == {tokenFile}

Symmetry == Permutations(MCCallers)
=============================================================================
