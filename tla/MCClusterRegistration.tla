----------------------- MODULE MCClusterRegistration -----------------------
(* ClusterRegistration for TLC: two registrations for one cluster name, two *)
(* contexts and two users, over files that already define some of them.     *)
EXTENDS ClusterRegistration

CONSTANTS k, u, w, c1, c2, s1, s2, certA, certB, alice, bob

None == [clusters |-> [n \in Clusters |-> Absent], contexts |-> [n \in Contexts |-> Absent],
         users |-> [n \in Users |-> Absent], current |-> Absent]

\* A file with context c for the user n, on the server s1.
With(c, n) == [clusters |-> [m \in Clusters |-> [server |-> s1, cert |-> certA]],
               contexts |-> [None.contexts EXCEPT ![c] = [cluster |-> k, user |-> n]],
               users |-> [None.users EXCEPT ![n] = alice], current |-> c]

\* Its context alone: cluster and user are defined in the other file.
ContextOnly(c, n) == [With(c, n) EXCEPT !.clusters = None.clusters, !.users = None.users]

MCInitialFiles ==
    { <<None, None>>, <<None, With(c2, u)>>, <<With(c1, w), With(c2, u)>>,
      <<With(c1, u), ContextOnly(c2, u)>> }
=============================================================================
