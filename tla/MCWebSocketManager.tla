------------------------- MODULE MCWebSocketManager -------------------------
(* WebSocketManager for TLC: two runs of one useWebSocket effect, and a     *)
(* list of another query of the same path.                                  *)
EXTENDS WebSocketManager

CONSTANTS pod, pods, path, h1, h2, l1

MCKeys == {pod, pods}

MCPathOf == [k \in MCKeys |-> path]

MCSubs == {h1, h2, l1}

MCKeyOf == [s \in MCSubs |-> IF s = l1 THEN pods ELSE pod]

MCKindOf == [s \in MCSubs |-> IF s = l1 THEN "list" ELSE "hook"]

MCCallbackOf == [s \in MCSubs |-> IF s = h2 THEN h1 ELSE s]
=============================================================================
