---------------------------- MODULE MCPortForward ----------------------------
(* PortForward for TLC.                                                      *)
EXTENDS PortForward

CONSTANTS MaxChans

MCChans == 1..MaxChans
=============================================================================
