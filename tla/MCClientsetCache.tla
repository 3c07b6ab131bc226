-------------------------- MODULE MCClientsetCache --------------------------
(* ClientsetCache for TLC: a context that two users share, and a stateless  *)
(* context of one of them whose key extends it.                             *)
EXTENDS ClientsetCache

CONSTANTS c1, c2, cluster, clusterOfUser, t1, t2

MCContexts == {cluster, clusterOfUser}

MCExtends == {<<clusterOfUser, cluster>>}

MCCredentials == {<<cluster, t1>>, <<cluster, t2>>, <<clusterOfUser, t1>>}
=============================================================================
