---------------------------- MODULE MCMultiplexer ----------------------------
(* Multiplexer for TLC.  Connections are numbered in the order in which they *)
(* are established.                                                          *)
EXTENDS Multiplexer, TLC

CONSTANTS MaxConns, a, b

MCConns == 1..MaxConns

TwoClients == {a, b}

Symmetry == Permutations(TwoClients)
=============================================================================
