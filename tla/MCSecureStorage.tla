-------------------------- MODULE MCSecureStorage --------------------------
(* SecureStorage for TLC: three plugins, two of which fit into the file,    *)
(* with one entry each.                                                     *)
EXTENDS SecureStorage, TLC

CONSTANTS n1, n2, n3, k1, k2

MCNamespaces == {n1, n2, n3}

MCKeys == {k1, k2}

Symmetry == Permutations(MCNamespaces) \cup Permutations(MCKeys)
=============================================================================
