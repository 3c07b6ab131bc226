----------------------------- MODULE DurableMap -----------------------------
(***************************************************************************)
(* What a small file-backed store promises: a map whose operations change  *)
(* one entry at a time, completely or not at all.  A crash of the machine  *)
(* may take the store back to the last state the disk is known to have,    *)
(* and never to anything in between.  SecureStorage.tla implements it.     *)
(***************************************************************************)
CONSTANTS
    Entries,   \* the names of the entries
    Values,    \* what an entry may hold
    NoValue    \* the value of an absent entry

VARIABLES
    data,      \* the map as a reader sees it
    stable     \* the map as it is after a crash, at worst

vars == <<data, stable>>

Init ==
    /\ data = [e \in Entries |-> NoValue]
    /\ stable = [e \in Entries |-> NoValue]

Assign(e, v) ==
    /\ data' = [data EXCEPT ![e] = v]
    /\ UNCHANGED stable

Persist ==
    /\ stable' = data
    /\ UNCHANGED data

Crash ==
    /\ data' \in {data, stable}
    /\ stable' = data'

Next ==
    \/ \E e \in Entries, v \in Values \cup {NoValue} : Assign(e, v)
    \/ Persist
    \/ Crash

Spec == Init /\ [][Next]_vars

=============================================================================
