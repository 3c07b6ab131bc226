-------------------------- MODULE MCKubeObjectList --------------------------
(* KubeObjectList for TLC: pages of two objects, so that three objects need *)
(* a second page and a deletion makes them fit into one.                    *)
EXTENDS KubeObjectList
=============================================================================
