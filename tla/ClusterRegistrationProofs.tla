--------------------- MODULE ClusterRegistrationProofs ---------------------
(***************************************************************************)
(* Proofs about ClusterRegistration, for any number of registrations, any  *)
(* names and bodies and any two files to begin with.                       *)
(***************************************************************************)
EXTENDS ClusterRegistration, TLAPS

\* A transaction, once it has passed the conflict check.
Inside == {"write", "replace", "replaced"}

\* What a transaction has checked is still so when it replaces the file.
TransactionInv ==
    /\ \A r, s \in Regs : reg[r].at \in Inside /\ reg[s].at \in Inside => r = s
    /\ \A r \in Regs : reg[r].at \in Inside => queue # <<>>
    /\ \A r \in Regs : reg[r].at \in {"write", "replace"} => MayMerge(reg[r].gen)
    /\ \A r \in Regs : reg[r].at = "replace" => tmp = Merge(files[1], reg[r].gen)

\* Credentials are there from the queue on, unless the command failed.
FetchedInv ==
    \A r \in Regs : reg[r].at \in Inside \cup {"queued", "succeeding", "ok"} => reg[r].gen \in Generated

\* The registration r has its effect on the search path.
InEffect(r) ==
    LET x == Effective(files)
        g == reg[r].gen
    IN  /\ x.contexts[g.context] = [cluster |-> g.cluster, user |-> g.user]
        /\ ServerOf(x, g.context) # Absent
        /\ ServerOf(x, g.context).server = g.clusterBody.server
        /\ UserOf(x, g.context) # Absent

\* Who succeeds has replaced the destination, and who replaced it has not
\* begun anew and keeps its credentials.
CommitInv ==
    /\ \A r \in Regs : reg[r].at \in {"replaced", "succeeding", "ok"} => r \in committed
    /\ \A r \in committed : /\ reg[r].at \in {"replaced", "succeeding", "failing"} \cup Answered
                            /\ reg[r].gen \in Generated

SafetyInv == TypeOK /\ TransactionInv /\ FetchedInv /\ CommitInv

EffectInv == \A r \in committed : InEffect(r)

-----------------------------------------------------------------------------
(***************************************************************************)
(* Facts about the merge.                                                  *)
(***************************************************************************)
LEMMA MergeType ==
    ASSUME NEW x \in Kubeconfig, NEW g \in Generated
    PROVE  Merge(x, g) \in Kubeconfig
<1>1. /\ g.context \in Contexts /\ g.cluster \in Clusters /\ g.user \in Users
      /\ g.clusterBody \in ClusterBody /\ g.userBody \in UserBodies
  BY DEF Generated
<1>2. [cluster |-> g.cluster, user |-> g.user] \in ContextBody
  BY <1>1 DEF ContextBody
<1> QED BY <1>1, <1>2 DEF Merge, Kubeconfig

\* In the effective configuration a merge changes the three entries it is about.
LEMMA EffectiveOfMerge ==
    ASSUME NEW f \in Kubeconfig \X Kubeconfig, NEW g \in Generated
    PROVE  LET old == Effective(f)
               new == Effective(<<Merge(f[1], g), f[2]>>)
           IN  /\ \A c \in Contexts : new.contexts[c] =
                     IF c = g.context THEN [cluster |-> g.cluster, user |-> g.user] ELSE old.contexts[c]
               /\ \A k \in Clusters : new.clusters[k] =
                     IF k = g.cluster THEN g.clusterBody ELSE old.clusters[k]
               /\ \A u \in Users : new.users[u] =
                     IF u = g.user THEN g.userBody ELSE old.users[u]
<1>1. /\ g.context \in Contexts /\ g.cluster \in Clusters /\ g.user \in Users
      /\ g.clusterBody \in ClusterBody /\ g.userBody \in UserBodies
  BY DEF Generated
<1>2. [cluster |-> g.cluster, user |-> g.user] \in ContextBody
  BY <1>1 DEF ContextBody
<1>3. /\ g.clusterBody # Absent /\ g.userBody # Absent
      /\ [cluster |-> g.cluster, user |-> g.user] # Absent
  BY <1>1, <1>2, FilesAssumption
<1>4. /\ DOMAIN f[1].contexts = Contexts /\ DOMAIN f[1].clusters = Clusters
      /\ DOMAIN f[1].users = Users
  BY DEF Kubeconfig
<1> DEFINE x == f[1]
           y == f[2]
           m == Merge(x, g)
           new == Effective(<<m, y>>)
           old == Effective(f)
<1>5. /\ m.contexts = [x.contexts EXCEPT ![g.context] = [cluster |-> g.cluster, user |-> g.user]]
      /\ m.clusters = [x.clusters EXCEPT ![g.cluster] = g.clusterBody]
      /\ m.users = [x.users EXCEPT ![g.user] = g.userBody]
  BY DEF Merge
<1>6. /\ new.contexts = First(m.contexts, y.contexts) /\ old.contexts = First(x.contexts, y.contexts)
      /\ new.clusters = First(m.clusters, y.clusters) /\ old.clusters = First(x.clusters, y.clusters)
      /\ new.users = First(m.users, y.users) /\ old.users = First(x.users, y.users)
  BY DEF Effective
<1> HIDE DEF m, new, old
<1>7. \A c \in Contexts : new.contexts[c] =
         IF c = g.context THEN [cluster |-> g.cluster, user |-> g.user] ELSE old.contexts[c]
  BY <1>1, <1>3, <1>4, <1>5, <1>6 DEF First
<1>8. \A k \in Clusters : new.clusters[k] = IF k = g.cluster THEN g.clusterBody ELSE old.clusters[k]
  BY <1>1, <1>3, <1>4, <1>5, <1>6 DEF First
<1>9. \A u \in Users : new.users[u] = IF u = g.user THEN g.userBody ELSE old.users[u]
  BY <1>1, <1>3, <1>4, <1>5, <1>6 DEF First
<1> QED BY <1>7, <1>8, <1>9 DEF m, new, old

LEMMA EffectiveType ==
    ASSUME NEW f \in Kubeconfig \X Kubeconfig
    PROVE  Effective(f) \in Kubeconfig
<1>1. /\ f[1].clusters \in [Clusters -> ClusterBody \cup {Absent}]
      /\ f[2].clusters \in [Clusters -> ClusterBody \cup {Absent}]
      /\ f[1].contexts \in [Contexts -> ContextBody \cup {Absent}]
      /\ f[2].contexts \in [Contexts -> ContextBody \cup {Absent}]
      /\ f[1].users \in [Users -> UserBodies \cup {Absent}]
      /\ f[2].users \in [Users -> UserBodies \cup {Absent}]
      /\ f[1].current \in Contexts \cup {Absent}
      /\ f[2].current \in Contexts \cup {Absent}
  BY DEF Kubeconfig
<1>2. First(f[1].clusters, f[2].clusters) \in [Clusters -> ClusterBody \cup {Absent}]
  BY <1>1 DEF First
<1>3. First(f[1].contexts, f[2].contexts) \in [Contexts -> ContextBody \cup {Absent}]
  BY <1>1 DEF First
<1>4. First(f[1].users, f[2].users) \in [Users -> UserBodies \cup {Absent}]
  BY <1>1 DEF First
<1> QED BY <1>1, <1>2, <1>3, <1>4 DEF Effective, Kubeconfig

\* What the collision rules are for: without a conflict in the effective
\* configuration, other contexts keep their bodies and every context its server.
LEMMA MergeKeeps ==
    ASSUME NEW f \in Kubeconfig \X Kubeconfig, NEW g \in Generated,
           ~Conflict(Effective(f), g), NEW c \in Contexts
    PROVE  LET old == Effective(f)
               new == Effective(<<Merge(f[1], g), f[2]>>)
           IN  /\ c # g.context => new.contexts[c] = old.contexts[c]
               /\ c = g.context /\ old.contexts[c] # Absent =>
                     old.contexts[c] = [cluster |-> g.cluster, user |-> g.user]
               /\ c # g.context /\ ServerOf(old, c) # Absent => ServerOf(new, c) = ServerOf(old, c)
               /\ c # g.context /\ UserOf(old, c) # Absent => UserOf(new, c) = UserOf(old, c)
               /\ ServerOf(old, c) # Absent => ServerOf(new, c).server = ServerOf(old, c).server
<1> DEFINE old == Effective(f)
           new == Effective(<<Merge(f[1], g), f[2]>>)
           own == [cluster |-> g.cluster, user |-> g.user]
<1>1. /\ g.context \in Contexts /\ g.cluster \in Clusters /\ g.user \in Users
      /\ g.clusterBody \in ClusterBody /\ g.userBody \in UserBodies
  BY DEF Generated
<1>2. /\ new.contexts[c] = IF c = g.context THEN own ELSE old.contexts[c]
      /\ \A k \in Clusters : new.clusters[k] = IF k = g.cluster THEN g.clusterBody ELSE old.clusters[k]
      /\ \A u \in Users : new.users[u] = IF u = g.user THEN g.userBody ELSE old.users[u]
  BY EffectiveOfMerge
<1>3. old.contexts[c] # Absent => old.contexts[c].cluster \in Clusters /\ old.contexts[c].user \in Users
  BY EffectiveType DEF Kubeconfig, ContextBody
<1>4. ~ClusterConflict(old, g) /\ ~ContextConflict(old, g) /\ ~UserConflict(old, g)
  BY DEF Conflict
<1> HIDE DEF old, new
<1>a. own # Absent /\ own.cluster = g.cluster /\ own.user = g.user
  BY <1>1, FilesAssumption DEF ContextBody
<1>5. CASE c # g.context
  <2>1. ServerOf(old, c) # Absent => ServerOf(new, c) = ServerOf(old, c)
    BY <1>1, <1>2, <1>3, <1>4, <1>5 DEF ServerOf, ClusterConflict, PreservedUsesCluster
  <2>2. UserOf(old, c) # Absent => UserOf(new, c) = UserOf(old, c)
    BY <1>1, <1>2, <1>3, <1>4, <1>5 DEF UserOf, UserConflict
  <2> QED BY <1>2, <1>5, <2>1, <2>2 DEF old, new
<1>6. CASE c = g.context
  <2>1. old.contexts[c] # Absent => old.contexts[c] = own
    BY <1>4, <1>6 DEF ContextConflict
  <2>2. ServerOf(new, c) = g.clusterBody
    BY <1>1, <1>2, <1>6, <1>a DEF ServerOf
  <2>3. ServerOf(old, c) # Absent => ServerOf(old, c) = old.clusters[g.cluster]
    BY <2>1, <1>a DEF ServerOf
  <2>4. ServerOf(old, c) # Absent => ServerOf(new, c).server = ServerOf(old, c).server
    BY <1>4, <2>2, <2>3 DEF ClusterConflict
  <2> QED BY <1>6, <2>1, <2>4 DEF old, new
<1> QED BY <1>5, <1>6

\* The merged context itself is complete.
LEMMA MergeTakesEffect ==
    ASSUME NEW f \in Kubeconfig \X Kubeconfig, NEW g \in Generated
    PROVE  LET new == Effective(<<Merge(f[1], g), f[2]>>)
           IN  /\ new.contexts[g.context] = [cluster |-> g.cluster, user |-> g.user]
               /\ ServerOf(new, g.context) = g.clusterBody /\ g.clusterBody # Absent
               /\ UserOf(new, g.context) = g.userBody /\ g.userBody # Absent
<1> DEFINE new == Effective(<<Merge(f[1], g), f[2]>>)
<1>1. /\ g.context \in Contexts /\ g.cluster \in Clusters /\ g.user \in Users
      /\ g.clusterBody \in ClusterBody /\ g.userBody \in UserBodies
  BY DEF Generated
<1>2. /\ new.contexts[g.context] = [cluster |-> g.cluster, user |-> g.user]
      /\ new.clusters[g.cluster] = g.clusterBody
      /\ new.users[g.user] = g.userBody
  BY <1>1, EffectiveOfMerge
<1>3. [cluster |-> g.cluster, user |-> g.user] \in ContextBody
  BY <1>1 DEF ContextBody
<1> HIDE DEF new
<1>4. new.contexts[g.context] # Absent /\ g.clusterBody # Absent /\ g.userBody # Absent
  BY <1>1, <1>2, <1>3, FilesAssumption
<1> QED BY <1>2, <1>4 DEF ServerOf, UserOf, new

-----------------------------------------------------------------------------
(***************************************************************************)
(* The invariant of the registrations and their transactions.              *)
(***************************************************************************)
LEMMA InitSafety == Init => SafetyInv /\ EffectInv
<1> SUFFICES ASSUME Init PROVE SafetyInv /\ EffectInv
  OBVIOUS
<1>1. \A r \in Regs : reg[r].at = "new" /\ reg[r].gen = Absent
  BY DEF Init
<1>2. files \in Kubeconfig \X Kubeconfig
  BY FilesAssumption DEF Init
<1>3. TypeOK
  BY <1>2 DEF Init, TypeOK, Reg, Steps
<1>4. TransactionInv /\ FetchedInv /\ CommitInv /\ EffectInv
  BY <1>1 DEF Init, TransactionInv, FetchedInv, CommitInv, EffectInv, Inside
<1> QED BY <1>3, <1>4 DEF SafetyInv

\* A step that moves one registration, when no transaction is inside.
LEMMA OutsideSafety ==
    ASSUME SafetyInv, NEW r \in Regs,
           \/ Start(r) \/ FetchFails(r) \/ BeginMerge(r) \/ MergeThrows(r) \/ Answer(r)
           \/ \E g \in Generated : Fetched(r, g)
    PROVE  SafetyInv'
<1> USE DEF SafetyInv, TypeOK
<1>0. \A s \in Regs : reg[s] \in Reg /\ reg[s].at \in Steps /\ reg[s].gen \in Generated \cup {Absent}
  BY DEF Reg
<1>b. \A s \in Regs : reg[s].at \notin Inside
  BY DEF Start, FetchFails, BeginMerge, MergeThrows, Answer, Fetched, Busy, Inside
<1>c. UNCHANGED <<files, tmp, committed>>
  BY DEF Start, FetchFails, BeginMerge, MergeThrows, Answer, Fetched
<1>1. CASE Start(r)
  <2>1. reg' = [reg EXCEPT ![r].at = "fetch"] /\ reg[r].at = "new"
    BY <1>1 DEF Start
  <2>2. TypeOK'
    BY <1>0, <1>1, <2>1 DEF Start, Reg, Steps
  <2> QED BY <1>b, <1>c, <1>1, <2>1, <2>2
      DEF Start, TransactionInv, FetchedInv, CommitInv, Answered, Inside
<1>2. CASE FetchFails(r)
  <2>1. reg' = [reg EXCEPT ![r].at = "failing"] /\ reg[r].at = "fetch"
    BY <1>2 DEF FetchFails
  <2>2. TypeOK'
    BY <1>0, <1>2, <2>1 DEF FetchFails, Reg, Steps
  <2> QED BY <1>b, <1>c, <1>2, <2>1, <2>2
      DEF FetchFails, TransactionInv, FetchedInv, CommitInv, Answered, Inside
<1>3. CASE BeginMerge(r)
  <2>1. reg' = [reg EXCEPT ![r].at = "write"] /\ reg[r].at = "queued" /\ MayMerge(reg[r].gen)
    BY <1>3 DEF BeginMerge
  <2>2. TypeOK'
    BY <1>0, <1>3, <2>1 DEF BeginMerge, Reg, Steps
  <2>3. TransactionInv'
    BY <1>b, <1>c, <1>3, <2>1 DEF BeginMerge, HasLock, TransactionInv, Inside, MayMerge
  <2> QED BY <1>b, <1>c, <1>3, <2>1, <2>2, <2>3
      DEF BeginMerge, FetchedInv, CommitInv, Answered, Inside
<1>4. CASE MergeThrows(r)
  <2>1. reg' = [reg EXCEPT ![r].at = "failing"] /\ reg[r].at = "queued"
    BY <1>4 DEF MergeThrows
  <2>2. queue' \in Seq(Regs)
    BY <1>4 DEF MergeThrows, Release, HasLock
  <2>3. TypeOK'
    BY <1>0, <1>4, <2>1, <2>2 DEF MergeThrows, Reg, Steps
  <2> QED BY <1>b, <1>c, <1>4, <2>1, <2>3
      DEF MergeThrows, TransactionInv, FetchedInv, CommitInv, Answered, Inside
<1>5. CASE Answer(r)
  <2> DEFINE done == IF reg[r].at = "succeeding" THEN "ok" ELSE "failed"
  <2>1. reg' = [reg EXCEPT ![r].at = done] /\ reg[r].at \in {"succeeding", "failing"}
    BY <1>5 DEF Answer
  <2>2. tempDirs' \subseteq Regs
    BY <1>5 DEF Answer
  <2>3. TypeOK'
    BY <1>0, <1>5, <2>1, <2>2 DEF Answer, Reg, Steps
  <2>4. TransactionInv' /\ FetchedInv' /\ CommitInv'
    BY <1>b, <1>c, <2>1 DEF TransactionInv, FetchedInv, CommitInv, Answered, Inside
  <2> QED BY <2>3, <2>4
<1>6. ASSUME NEW g \in Generated, Fetched(r, g) PROVE SafetyInv'
  <2>1. reg' = [reg EXCEPT ![r] = [at |-> "queued", gen |-> g]] /\ reg[r].at = "fetch"
    BY <1>6 DEF Fetched
  <2>2. TypeOK'
    BY <1>0, <1>6, <2>1 DEF Fetched, Reg, Steps
  <2> QED BY <1>b, <1>c, <1>6, <2>1, <2>2
      DEF Fetched, TransactionInv, FetchedInv, CommitInv, Answered, Inside
<1> QED BY <1>1, <1>2, <1>3, <1>4, <1>5, <1>6

\* The steps of the one transaction that is inside, and the end of the process.
LEMMA InsideSafety ==
    ASSUME SafetyInv,
           Crash \/ \E r \in Regs : WriteTmp(r) \/ Replace(r) \/ WriteReturns(r) \/ WriteThrows(r)
    PROVE  SafetyInv'
<1> USE DEF SafetyInv, TypeOK
<1>0. \A s \in Regs : reg[s] \in Reg /\ reg[s].at \in Steps /\ reg[s].gen \in Generated \cup {Absent}
  BY DEF Reg
<1>1. ASSUME NEW r \in Regs, WriteTmp(r) PROVE SafetyInv'
  <2>1. reg' = [reg EXCEPT ![r].at = "replace"] /\ reg[r].at = "write"
    BY <1>1 DEF WriteTmp
  <2>2. reg[r].gen \in Generated /\ files[1] \in Kubeconfig
    BY <2>1 DEF FetchedInv, Inside
  <2>3. tmp' = Merge(files[1], reg[r].gen) /\ tmp' \in Kubeconfig
    BY <1>1, <2>2, MergeType DEF WriteTmp
  <2>4. TypeOK'
    BY <1>0, <1>1, <2>1, <2>3 DEF WriteTmp, Reg, Steps
  <2>5. \A s \in Regs : s # r => reg[s].at \notin Inside
    BY <2>1 DEF TransactionInv, Inside
  <2>6. UNCHANGED <<files, queue, tempDirs, committed>>
    BY <1>1 DEF WriteTmp
  <2>7. \A s \in Regs : reg'[s].gen = reg[s].gen /\ (s # r => reg'[s] = reg[s]) /\ reg'[r].at = "replace"
    BY <2>1
  <2>8. TransactionInv'
    <3>1. MayMerge(reg[r].gen)'
      BY <2>1, <2>6, <2>7 DEF TransactionInv, Inside, MayMerge
    <3>2. queue # <<>>
      BY <2>1 DEF TransactionInv, Inside
    <3> QED BY <2>3, <2>5, <2>6, <2>7, <3>1, <3>2 DEF TransactionInv, Inside
  <2> QED BY <2>1, <2>4, <2>6, <2>7, <2>8 DEF FetchedInv, CommitInv, Answered, Inside
<1>2. ASSUME NEW r \in Regs, Replace(r) PROVE SafetyInv'
  <2>1. reg' = [reg EXCEPT ![r].at = "replaced"] /\ reg[r].at = "replace"
    BY <1>2 DEF Replace
  <2>2. files' \in Kubeconfig \X Kubeconfig /\ tmp' = Absent
    <3>1. tmp = Merge(files[1], reg[r].gen) /\ reg[r].gen \in Generated
      BY <2>1 DEF TransactionInv, FetchedInv, Inside
    <3>2. tmp \in Kubeconfig
      BY <3>1, MergeType
    <3> QED BY <1>2, <3>2 DEF Replace
  <2>3. UNCHANGED <<queue, tempDirs>> /\ committed' = committed \cup {r}
    BY <1>2 DEF Replace
  <2>4. TypeOK'
    BY <1>0, <2>1, <2>2, <2>3 DEF Reg, Steps
  <2>5. \A s \in Regs : reg'[s].gen = reg[s].gen /\ (s # r => reg'[s] = reg[s]) /\ reg'[r].at = "replaced"
    BY <2>1
  <2>6. \A s \in Regs : s # r => reg[s].at \notin Inside
    BY <2>1 DEF TransactionInv, Inside
  <2>7. queue # <<>>
    BY <2>1 DEF TransactionInv, Inside
  <2>8. TransactionInv'
    BY <2>3, <2>5, <2>6, <2>7 DEF TransactionInv, Inside
  <2>9. FetchedInv'
    BY <2>1, <2>5 DEF FetchedInv, Inside
  <2>10. CommitInv'
    BY <2>1, <2>3, <2>5 DEF CommitInv, FetchedInv, Inside
  <2> QED BY <2>4, <2>8, <2>9, <2>10
<1>3. ASSUME NEW r \in Regs, WriteReturns(r) \/ WriteThrows(r) PROVE SafetyInv'
  <2>1. PICK at \in {"succeeding", "failing"} :
            /\ reg' = [reg EXCEPT ![r].at = at] /\ reg[r].at \in Inside
            /\ at = "succeeding" => reg[r].at = "replaced"
    BY <1>3 DEF WriteReturns, WriteThrows, Inside
  <2>2. UNCHANGED <<files, tempDirs, committed>> /\ tmp' \in Kubeconfig \cup {Absent}
    BY <1>3 DEF WriteReturns, WriteThrows
  <2>3. queue' \in Seq(Regs)
    <3>1. queue # <<>>
      BY <2>1 DEF TransactionInv
    <3>2. queue' = Tail(queue)
      BY <1>3 DEF WriteReturns, WriteThrows, Release
    <3>3. queue \in Seq(Regs)
      OBVIOUS
    <3> HIDE DEF SafetyInv, TypeOK
    <3> QED BY <3>1, <3>2, <3>3
  <2>4. TypeOK'
    BY <1>0, <2>1, <2>2, <2>3 DEF Reg, Steps
  <2>5. \A s \in Regs : reg'[s].gen = reg[s].gen /\ (s # r => reg'[s] = reg[s]) /\ reg'[r].at = at
    BY <2>1
  <2>6. \A s \in Regs : reg'[s].at \notin Inside
    BY <2>1, <2>5 DEF TransactionInv, Inside
  <2>7. TransactionInv'
    BY <2>6 DEF TransactionInv, Inside
  <2>8. FetchedInv'
    BY <2>1, <2>5 DEF FetchedInv
  <2>9. CommitInv'
    BY <2>1, <2>2, <2>5 DEF CommitInv, Inside
  <2> QED BY <2>4, <2>7, <2>8, <2>9
<1>4. CASE Crash
  <2>1. \A s \in Regs : /\ reg'[s].gen = reg[s].gen
                        /\ reg'[s].at = reg[s].at \/ reg'[s].at = "dead"
                        /\ reg'[s].at \in {"new", "dead"} \cup Answered
                        /\ reg'[s] \in Reg
    BY <1>0, <1>4 DEF Crash, Reg, Answered, Steps
  <2>2. UNCHANGED <<files, tmp, tempDirs, committed>> /\ queue' = <<>>
    BY <1>4 DEF Crash
  <2>3. reg' \in [Regs -> Reg]
    <3>1. reg' = [s \in Regs |-> reg'[s]]
      BY <1>4 DEF Crash
    <3> QED BY <2>1, <3>1
  <2>4. TypeOK'
    BY <2>2, <2>3
  <2>5. TransactionInv' /\ FetchedInv'
    BY <2>1 DEF TransactionInv, FetchedInv, Inside, Answered
  <2>6. CommitInv'
    BY <2>1, <2>2 DEF CommitInv, Answered
  <2> QED BY <2>4, <2>5, <2>6
<1> QED BY <1>1, <1>2, <1>3, <1>4

LEMMA NextSafety == SafetyInv /\ [Next]_vars => SafetyInv'
<1> SUFFICES ASSUME SafetyInv, [Next]_vars PROVE SafetyInv'
  OBVIOUS
<1>1. CASE Next
  BY <1>1, OutsideSafety, InsideSafety DEF Next
<1>2. CASE UNCHANGED vars
  BY <1>2 DEF vars, SafetyInv, TypeOK, TransactionInv, FetchedInv, CommitInv, MayMerge
<1> QED BY <1>1, <1>2

LEMMA SafetyHolds == Spec => []SafetyInv
BY InitSafety, NextSafety, PTL DEF Spec

(***************************************************************************)
(* Files, queue and registrations have their types.                        *)
(***************************************************************************)
THEOREM TypeCorrect == Spec => []TypeOK
BY SafetyHolds, PTL DEF SafetyInv

-----------------------------------------------------------------------------
(***************************************************************************)
(* What a replacement does to the effective configuration.                 *)
(***************************************************************************)
LEMMA ReplaceIsMerge ==
    ASSUME SafetyInv, NEW r \in Regs, Replace(r)
    PROVE  /\ files \in Kubeconfig \X Kubeconfig
           /\ reg[r].gen \in Generated
           /\ ~Conflict(Effective(files), reg[r].gen)
           /\ files' = <<Merge(files[1], reg[r].gen), files[2]>>
BY DEF SafetyInv, TypeOK, TransactionInv, FetchedInv, Replace, MayMerge, Inside

\* The step of OthersKeepTheirMeaning.
LEMMA StepKeepsMeaning ==
    ASSUME SafetyInv, NEW r \in Regs, Replace(r), NEW c \in Contexts
    PROVE  LET old == Effective(files)
               new == Effective(files')
           IN  /\ (c # reg[r].gen.context /\ ServerOf(old, c) # Absent)
                     => ServerOf(new, c) = ServerOf(old, c)
               /\ (c # reg[r].gen.context /\ UserOf(old, c) # Absent)
                     => UserOf(new, c) = UserOf(old, c)
               /\ ServerOf(old, c) # Absent
                     => ServerOf(new, c).server = ServerOf(old, c).server
<1>1. /\ files \in Kubeconfig \X Kubeconfig
      /\ reg[r].gen \in Generated
      /\ ~Conflict(Effective(files), reg[r].gen)
      /\ files' = <<Merge(files[1], reg[r].gen), files[2]>>
  BY ReplaceIsMerge
<1> QED BY <1>1, MergeKeeps

(***************************************************************************)
(* No registration changes what another context of the search path means,  *)
(* nor the API server of its own: proved from the collision rules and from *)
(* the fact that the files a transaction has checked are the ones it       *)
(* replaces.                                                               *)
(***************************************************************************)
THEOREM OthersAreSafe == Spec => OthersKeepTheirMeaning
<1>1. SafetyInv /\ [Next]_vars =>
        [\A r \in Regs : Replace(r) =>
          \A c \in Contexts :
             LET old == Effective(files)
                 new == Effective(files')
             IN  /\ (c # reg[r].gen.context /\ ServerOf(old, c) # Absent)
                       => ServerOf(new, c) = ServerOf(old, c)
                 /\ (c # reg[r].gen.context /\ UserOf(old, c) # Absent)
                       => UserOf(new, c) = UserOf(old, c)
                 /\ ServerOf(old, c) # Absent
                       => ServerOf(new, c).server = ServerOf(old, c).server]_vars
  BY StepKeepsMeaning
<1> QED BY <1>1, SafetyHolds, PTL DEF Spec, OthersKeepTheirMeaning

\* A registration that is in effect stays so when another one is merged.
LEMMA EffectSurvivesReplace ==
    ASSUME SafetyInv, NEW r \in Regs, Replace(r), NEW s \in Regs, s # r,
           reg[s].gen \in Generated, InEffect(s)
    PROVE  InEffect(s)'
<1> DEFINE old == Effective(files)
           new == Effective(files')
           g == reg[r].gen
           h == reg[s].gen
           c == h.context
<1>1. /\ files \in Kubeconfig \X Kubeconfig
      /\ g \in Generated
      /\ ~Conflict(old, g)
      /\ files' = <<Merge(files[1], g), files[2]>>
  BY ReplaceIsMerge
<1>2. h.context \in Contexts /\ h.cluster \in Clusters /\ h.user \in Users
  BY DEF Generated
<1>3. reg'[s].gen = h
  BY DEF Replace, SafetyInv, TypeOK
<1>4. /\ old.contexts[c] = [cluster |-> h.cluster, user |-> h.user]
      /\ ServerOf(old, c) # Absent /\ ServerOf(old, c).server = h.clusterBody.server
      /\ UserOf(old, c) # Absent
  BY DEF InEffect
<1>5. /\ c # g.context => new.contexts[c] = old.contexts[c]
      /\ c = g.context /\ old.contexts[c] # Absent =>
            old.contexts[c] = [cluster |-> g.cluster, user |-> g.user]
      /\ c # g.context /\ ServerOf(old, c) # Absent => ServerOf(new, c) = ServerOf(old, c)
      /\ c # g.context /\ UserOf(old, c) # Absent => UserOf(new, c) = UserOf(old, c)
      /\ ServerOf(old, c) # Absent => ServerOf(new, c).server = ServerOf(old, c).server
  BY <1>1, <1>2, MergeKeeps
<1>6. /\ new.contexts[g.context] = [cluster |-> g.cluster, user |-> g.user]
      /\ ServerOf(new, g.context) = g.clusterBody /\ g.clusterBody # Absent
      /\ UserOf(new, g.context) = g.userBody /\ g.userBody # Absent
  BY <1>1, MergeTakesEffect
<1>7. old.contexts[c] # Absent
  <2>1. [cluster |-> h.cluster, user |-> h.user] \in ContextBody
    BY <1>2 DEF ContextBody
  <2> QED BY <1>4, <2>1, FilesAssumption
<1> HIDE DEF old, new, g, h
<1>8. /\ new.contexts[c] = [cluster |-> h.cluster, user |-> h.user]
      /\ ServerOf(new, c) # Absent /\ ServerOf(new, c).server = h.clusterBody.server
      /\ UserOf(new, c) # Absent
  <2>1. CASE c # g.context
    BY <1>4, <1>5, <2>1
  <2>2. CASE c = g.context
    BY <1>4, <1>5, <1>6, <1>7, <2>2
  <2> QED BY <2>1, <2>2
<1> QED BY <1>3, <1>8 DEF InEffect, old, new, g, h

LEMMA NextEffect == SafetyInv /\ EffectInv /\ [Next]_vars => EffectInv'
<1> SUFFICES ASSUME SafetyInv, EffectInv, [Next]_vars, NEW s \in committed'
             PROVE  InEffect(s)'
  BY DEF EffectInv
<1>0. /\ committed \subseteq Regs /\ \A t \in Regs : reg[t] \in Reg
      /\ \A t \in committed : reg[t].gen \in Generated
  BY DEF SafetyInv, TypeOK, CommitInv
<1>1. ASSUME NEW r \in Regs, Replace(r) PROVE InEffect(s)'
  <2>1. CASE s = r
    <3>1. /\ files \in Kubeconfig \X Kubeconfig
          /\ reg[r].gen \in Generated
          /\ files' = <<Merge(files[1], reg[r].gen), files[2]>>
      BY <1>1, ReplaceIsMerge
    <3>2. reg'[s].gen = reg[r].gen
      BY <1>1, <2>1 DEF Replace, SafetyInv, TypeOK
    <3> QED BY <3>1, <3>2, MergeTakesEffect DEF InEffect
  <2>2. CASE s # r
    <3>1. s \in committed
      BY <1>1, <2>2 DEF Replace
    <3>2. s \in Regs /\ reg[s].gen \in Generated /\ InEffect(s)
      BY <1>0, <3>1 DEF EffectInv
    <3> QED BY <1>1, <2>2, <3>2, EffectSurvivesReplace
  <2> QED BY <2>1, <2>2
<1>2. CASE ~\E r \in Regs : Replace(r)
  <2>1. files' = files /\ committed' = committed
    BY <1>2 DEF Next, vars, Start, FetchFails, Fetched, BeginMerge, MergeThrows, WriteTmp,
                WriteReturns, WriteThrows, Answer, Crash
  <2>2. s \in Regs /\ s \in committed /\ InEffect(s)
    BY <1>0, <2>1 DEF EffectInv
  <2>3. reg'[s].gen = reg[s].gen
    <3>1. CASE UNCHANGED reg
      BY <3>1
    <3>2. ASSUME NEW r \in Regs, NEW at \in Steps, reg' = [reg EXCEPT ![r].at = at]
          PROVE  reg'[s].gen = reg[s].gen
      BY <2>2, <3>2 DEF SafetyInv, TypeOK
    <3>3. ASSUME NEW r \in Regs, NEW h \in Generated, Fetched(r, h)
          PROVE  reg'[s].gen = reg[s].gen
      <4>1. reg[r].at = "fetch" /\ reg' = [reg EXCEPT ![r] = [at |-> "queued", gen |-> h]]
        BY <3>3 DEF Fetched
      <4>2. s # r
        BY <2>2, <4>1 DEF SafetyInv, CommitInv, Answered
      <4> QED BY <2>2, <4>1, <4>2 DEF SafetyInv, TypeOK
    <3>4. CASE Crash
      BY <1>0, <2>2, <3>4 DEF Crash, Reg
    <3>5. ASSUME NEW r \in Regs,
                 Start(r) \/ FetchFails(r) \/ BeginMerge(r) \/ MergeThrows(r) \/ WriteTmp(r)
                    \/ WriteReturns(r) \/ WriteThrows(r) \/ Answer(r)
          PROVE  \E at \in Steps : reg' = [reg EXCEPT ![r].at = at]
      BY <3>5 DEF Start, FetchFails, BeginMerge, MergeThrows, WriteTmp, WriteReturns, WriteThrows,
                  Answer, Steps
    <3> QED BY <1>2, <3>1, <3>2, <3>3, <3>4, <3>5 DEF Next, vars
  <2> QED BY <2>1, <2>2, <2>3 DEF InEffect
<1> QED BY <1>1, <1>2

(***************************************************************************)
(* A registration reported as a success stays in effect, whatever later    *)
(* registrations with the same names do, and so does one that replaced the *)
(* destination and was answered otherwise.                                 *)
(***************************************************************************)
THEOREM SuccessIsLasting == Spec => []SuccessStays
<1>1. SafetyInv /\ EffectInv => SuccessStays
  BY DEF SafetyInv, CommitInv, EffectInv, InEffect, SuccessStays
<1> QED BY InitSafety, NextEffect, SafetyHolds, <1>1, PTL DEF Spec

-----------------------------------------------------------------------------
\* What was merged does not conflict with itself, and merging it again changes nothing.
LEMMA MergeAgain ==
    ASSUME NEW x \in Kubeconfig, NEW g \in Generated
    PROVE  Merge(Merge(x, g), g) = Merge(x, g) /\ ~Conflict(Merge(x, g), g)
<1>1. /\ g.context \in Contexts /\ g.cluster \in Clusters /\ g.user \in Users
  BY DEF Generated
<1>2. x.contexts \in [Contexts -> ContextBody \cup {Absent}]
      /\ x.clusters \in [Clusters -> ClusterBody \cup {Absent}]
      /\ x.users \in [Users -> UserBodies \cup {Absent}]
  BY DEF Kubeconfig
<1> DEFINE m == Merge(x, g)
<1>3. /\ m.contexts = [x.contexts EXCEPT ![g.context] = [cluster |-> g.cluster, user |-> g.user]]
      /\ m.clusters = [x.clusters EXCEPT ![g.cluster] = g.clusterBody]
      /\ m.users = [x.users EXCEPT ![g.user] = g.userBody]
      /\ m.current = g.context
  BY DEF Merge
<1>4. /\ m.contexts[g.context] = [cluster |-> g.cluster, user |-> g.user]
      /\ m.clusters[g.cluster] = g.clusterBody /\ m.users[g.user] = g.userBody
  BY <1>1, <1>2, <1>3
<1>5. /\ [m.contexts EXCEPT ![g.context] = [cluster |-> g.cluster, user |-> g.user]] = m.contexts
      /\ [m.clusters EXCEPT ![g.cluster] = g.clusterBody] = m.clusters
      /\ [m.users EXCEPT ![g.user] = g.userBody] = m.users
  BY <1>1, <1>2, <1>3
<1>6. Merge(m, g) = [clusters |-> m.clusters, contexts |-> m.contexts, users |-> m.users,
                     current |-> m.current]
  BY <1>3, <1>5 DEF Merge
<1>7. m = [clusters |-> m.clusters, contexts |-> m.contexts, users |-> m.users, current |-> m.current]
  BY DEF Merge
<1> HIDE DEF m
<1>8. ~Conflict(m, g)
  BY <1>4 DEF Conflict, ClusterConflict, ContextConflict, UserConflict
<1> QED BY <1>6, <1>7, <1>8 DEF m

\* Nor does it conflict with what the search path says then.
LEMMA EffectiveAgain ==
    ASSUME NEW f \in Kubeconfig \X Kubeconfig, NEW g \in Generated
    PROVE  ~Conflict(Effective(<<Merge(f[1], g), f[2]>>), g)
<1> DEFINE new == Effective(<<Merge(f[1], g), f[2]>>)
<1>1. /\ g.context \in Contexts /\ g.cluster \in Clusters /\ g.user \in Users
  BY DEF Generated
<1>2. /\ new.contexts[g.context] = [cluster |-> g.cluster, user |-> g.user]
      /\ new.clusters[g.cluster] = g.clusterBody
      /\ new.users[g.user] = g.userBody
  BY <1>1, EffectiveOfMerge
<1> HIDE DEF new
<1>3. ~Conflict(new, g)
  BY <1>2 DEF Conflict, ClusterConflict, ContextConflict, UserConflict
<1> QED BY <1>3 DEF new

(***************************************************************************)
(* A registration that replaced the destination can be repeated, whatever  *)
(* it was answered: the collision rules let it through, and nothing        *)
(* changes.                                                                *)
(***************************************************************************)
THEOREM RepeatingIsHarmless == Spec => RetryIsHarmless
<1>1. ASSUME SafetyInv, NEW r \in Regs, Replace(r)
      PROVE  MayMerge(reg[r].gen)' /\ Merge(files'[1], reg[r].gen) = files'[1]
  <2>1. /\ files \in Kubeconfig \X Kubeconfig
        /\ reg[r].gen \in Generated
        /\ files' = <<Merge(files[1], reg[r].gen), files[2]>>
    BY <1>1, ReplaceIsMerge
  <2>2. reg'[r].gen = reg[r].gen
    BY <1>1 DEF Replace, SafetyInv, TypeOK
  <2>3. files[1] \in Kubeconfig /\ files'[1] = Merge(files[1], reg[r].gen)
    BY <2>1
  <2>4. Merge(files'[1], reg[r].gen) = files'[1] /\ ~Conflict(files'[1], reg[r].gen)
    BY <2>1, <2>3, MergeAgain
  <2>5. ~Conflict(Effective(files'), reg[r].gen)
    BY <2>1, EffectiveAgain
  <2> QED BY <2>2, <2>4, <2>5 DEF MayMerge
<1>2. SafetyInv /\ [Next]_vars =>
        [\A r \in Regs : Replace(r) =>
          /\ MayMerge(reg[r].gen)'
          /\ Merge(files'[1], reg[r].gen) = files'[1]]_vars
  BY <1>1
<1> QED BY <1>2, SafetyHolds, PTL DEF Spec, RetryIsHarmless

=============================================================================
