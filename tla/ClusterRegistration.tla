------------------------ MODULE ClusterRegistration ------------------------
(***************************************************************************)
(* Registering a cluster from the desktop app                              *)
(* (app/electron/cluster-registration.ts): an Azure CLI command writes     *)
(* credentials into a temporary directory, and mergeKubeconfigTransaction  *)
(* merges them into the first file of the KUBECONFIG search path, under a  *)
(* queue per destination.                                                  *)
(*                                                                         *)
(* Registrations overlap while their commands run and while they wait in   *)
(* the queue.  From the read of the files to the removal of the temporary  *)
(* file a transaction is synchronous: nothing of this process runs in      *)
(* between, but each of its steps may throw, and the process may die.      *)
(*                                                                         *)
(* A kubeconfig is three maps.  A cluster body is a server and the rest    *)
(* (certificates); a user body is opaque.  The YAML conversions are left   *)
(* out; a file that does not parse makes the transaction throw.            *)
(***************************************************************************)
EXTENDS Naturals, Sequences

CONSTANTS
    Regs,           \* calls of registerAzureCluster
    Clusters, Users, Contexts,    \* names
    Servers, Certs,               \* the parts of a cluster body
    UserBodies,
    Absent,         \* a name that a file does not define
    InitialFiles    \* the files <<writable, other>> that may be there at the start

ClusterBody == [server : Servers, cert : Certs]

ContextBody == [cluster : Clusters, user : Users]

Kubeconfig ==
    [clusters : [Clusters -> ClusterBody \cup {Absent}],
     contexts : [Contexts -> ContextBody \cup {Absent}],
     users : [Users -> UserBodies \cup {Absent}],
     current : Contexts \cup {Absent}]

\* What validateGeneratedKubeconfig lets through: one context, which is the
\* current one, its cluster with a server, and its user.
Generated ==
    [context : Contexts, cluster : Clusters, user : Users,
     clusterBody : ClusterBody, userBody : UserBodies]

ASSUME FilesAssumption ==
    /\ InitialFiles \subseteq Kubeconfig \X Kubeconfig
    /\ Absent \notin ClusterBody \cup ContextBody \cup UserBodies \cup Contexts

VARIABLES
    files,      \* the two files of the search path
    tmp,        \* what the temporary file next to the destination holds, or Absent
    queue,      \* kubeconfigWriteQueues of the destination: first the one that runs
    reg,        \* registration -> where it is, and the credentials it got
    tempDirs,   \* registrations whose temporary credential directory exists
    committed   \* history: registrations that replaced the destination

vars == <<files, tmp, queue, reg, tempDirs, committed>>

-----------------------------------------------------------------------------
(***************************************************************************)
(* new: not called.  fetch: the command runs.  queued: waits for the lock, *)
(* or has it and has not read yet.  write, replace, replaced: inside the   *)
(* transaction, before the write of the temporary file, before the rename  *)
(* and after it.  succeeding, failing: the transaction is over, the        *)
(* finally block is next.  ok, failed: answered.  dead: lost with the      *)
(* process.                                                                *)
(***************************************************************************)
Steps == {"new", "fetch", "queued", "write", "replace", "replaced", "succeeding", "failing",
          "ok", "failed", "dead"}

Answered == {"ok", "failed", "dead"}

Reg == [at : Steps, gen : Generated \cup {Absent}]

TypeOK ==
    /\ files \in Kubeconfig \X Kubeconfig
    /\ tmp \in Kubeconfig \cup {Absent}
    /\ queue \in Seq(Regs)
    /\ reg \in [Regs -> Reg]
    /\ tempDirs \subseteq Regs
    /\ committed \subseteq Regs

Init ==
    /\ files \in InitialFiles
    /\ tmp = Absent
    /\ queue = <<>>
    /\ reg = [r \in Regs |-> [at |-> "new", gen |-> Absent]]
    /\ tempDirs = {}
    /\ committed = {}

-----------------------------------------------------------------------------
(***************************************************************************)
(* effectiveKubeconfig: the first file that defines a name wins.           *)
(***************************************************************************)
First(a, b) == [n \in DOMAIN a |-> IF a[n] # Absent THEN a[n] ELSE b[n]]

Effective(f) ==
    [clusters |-> First(f[1].clusters, f[2].clusters),
     contexts |-> First(f[1].contexts, f[2].contexts),
     users |-> First(f[1].users, f[2].users),
     current |-> IF f[1].current # Absent THEN f[1].current ELSE f[2].current]

(***************************************************************************)
(* The conflicts for which mergeKubeconfig throws.  A context that the     *)
(* generated one does not replace is preserved, and what it refers to      *)
(* must not change under it.                                               *)
(***************************************************************************)
PreservedUsesCluster(x, g) ==
    \E c \in Contexts \ {g.context} : x.contexts[c] # Absent /\ x.contexts[c].cluster = g.cluster

ClusterConflict(x, g) ==
    LET old == x.clusters[g.cluster]
    IN  /\ old # Absent
        /\ \/ old.server # g.clusterBody.server
           \/ PreservedUsesCluster(x, g) /\ old # g.clusterBody

\* Mutant: an existing context is replaced whatever it says.
ContextConflictIgnored(x, g) == FALSE

\* Mutant: an existing context is a conflict, even when it is the same.
ContextConflictAlways(x, g) == x.contexts[g.context] # Absent

ContextConflict(x, g) ==
    /\ x.contexts[g.context] # Absent
    /\ x.contexts[g.context] # [cluster |-> g.cluster, user |-> g.user]

UserConflict(x, g) ==
    /\ x.users[g.user] # Absent
    /\ x.users[g.user] # g.userBody
    /\ \E c \in Contexts \ {g.context} : x.contexts[c] # Absent /\ x.contexts[c].user = g.user

Conflict(x, g) == ClusterConflict(x, g) \/ ContextConflict(x, g) \/ UserConflict(x, g)

\* mergeKubeconfig, when it does not throw.
Merge(x, g) ==
    [clusters |-> [x.clusters EXCEPT ![g.cluster] = g.clusterBody],
     contexts |-> [x.contexts EXCEPT ![g.context] = [cluster |-> g.cluster, user |-> g.user]],
     users |-> [x.users EXCEPT ![g.user] = g.userBody],
     current |-> g.context]

\* Mutant: only the destination is looked at for collisions.
MayMergeDestinationOnly(g) == ~Conflict(files[1], g)

\* The two calls of mergeKubeconfig in the transaction.
MayMerge(g) == ~Conflict(Effective(files), g) /\ ~Conflict(files[1], g)

-----------------------------------------------------------------------------
\* A transaction is running: it is synchronous.
Busy == \E r \in Regs : reg[r].at \in {"write", "replace", "replaced"}

\* registerAzureCluster: the directory is made and the command started.
Start(r) ==
    /\ ~Busy
    /\ reg[r].at = "new"
    /\ reg' = [reg EXCEPT ![r].at = "fetch"]
    /\ tempDirs' = tempDirs \cup {r}
    /\ UNCHANGED <<files, tmp, queue, committed>>

\* The command fails, leaves no file, or its credentials do not validate.
FetchFails(r) ==
    /\ ~Busy
    /\ reg[r].at = "fetch"
    /\ reg' = [reg EXCEPT ![r].at = "failing"]
    /\ UNCHANGED <<files, tmp, queue, tempDirs, committed>>

\* The credentials are valid; withKubeconfigWriteLock queues the transaction.
Fetched(r, g) ==
    /\ ~Busy
    /\ reg[r].at = "fetch"
    /\ reg' = [reg EXCEPT ![r] = [at |-> "queued", gen |-> g]]
    /\ queue' = Append(queue, r)
    /\ UNCHANGED <<files, tmp, tempDirs, committed>>

\* Mutant: a transaction that throws keeps its place in the queue.
ReleaseNothing == queue

\* The finally block of withKubeconfigWriteLock: the next one may run.
Release == Tail(queue)

HasLock(r) == queue # <<>> /\ Head(queue) = r

\* The transaction reads the files; no conflict, and the temporary file is there.
BeginMerge(r) ==
    /\ ~Busy
    /\ reg[r].at = "queued"
    /\ HasLock(r)
    /\ MayMerge(reg[r].gen)
    /\ reg' = [reg EXCEPT ![r].at = "write"]
    /\ UNCHANGED <<files, tmp, queue, tempDirs, committed>>

\* A conflict, a file that cannot be read or parsed, a directory that cannot be made.
MergeThrows(r) ==
    /\ ~Busy
    /\ reg[r].at = "queued"
    /\ HasLock(r)
    /\ reg' = [reg EXCEPT ![r].at = "failing"]
    /\ queue' = Release
    /\ UNCHANGED <<files, tmp, tempDirs, committed>>

\* writeKubeconfigAtomically: the temporary file is written, flushed and closed.
WriteTmp(r) ==
    /\ reg[r].at = "write"
    /\ tmp' = Merge(files[1], reg[r].gen)
    /\ reg' = [reg EXCEPT ![r].at = "replace"]
    /\ UNCHANGED <<files, queue, tempDirs, committed>>

\* replaceFileAtomically: the rename.
Replace(r) ==
    /\ reg[r].at = "replace"
    /\ files' = <<tmp, files[2]>>
    /\ tmp' = Absent
    /\ committed' = committed \cup {r}
    /\ reg' = [reg EXCEPT ![r].at = "replaced"]
    /\ UNCHANGED <<queue, tempDirs>>

\* The sync of the directory, whose failure is only logged, and the removal of
\* what is no longer there.
WriteReturns(r) ==
    /\ reg[r].at = "replaced"
    /\ queue' = Release
    /\ reg' = [reg EXCEPT ![r].at = "succeeding"]
    /\ UNCHANGED <<files, tmp, tempDirs, committed>>

(***************************************************************************)
(* The write or the replacement throws, and the temporary file is removed, *)
(* unless that throws as well; what stays has a name of its own and is not *)
(* looked at again.  It may also throw after the rename: the removal in    *)
(* the finally block, or the utility that has moved the file (Windows).    *)
(***************************************************************************)
WriteThrows(r) ==
    /\ reg[r].at \in {"write", "replace", "replaced"}
    /\ tmp' \in {Absent, tmp}
    /\ queue' = Release
    /\ reg' = [reg EXCEPT ![r].at = "failing"]
    /\ UNCHANGED <<files, tempDirs, committed>>

\* The finally block of registerAzureCluster, where a failing removal of the
\* credentials is only logged, and the answer.
Answer(r) ==
    /\ ~Busy
    /\ reg[r].at \in {"succeeding", "failing"}
    /\ reg' = [reg EXCEPT ![r].at = IF reg[r].at = "succeeding" THEN "ok" ELSE "failed"]
    /\ tempDirs' \in {tempDirs \ {r}, tempDirs}
    /\ UNCHANGED <<files, tmp, queue, committed>>

\* The process dies: calls and queue are gone, the disk is as it is.
Crash ==
    /\ \E r \in Regs : reg[r].at \notin {"new"} \cup Answered
    /\ reg' = [r \in Regs |->
                 IF reg[r].at \in {"new"} \cup Answered THEN reg[r] ELSE [reg[r] EXCEPT !.at = "dead"]]
    /\ queue' = <<>>
    /\ UNCHANGED <<files, tmp, tempDirs, committed>>

Next ==
    \/ \E r \in Regs :
          \/ Start(r) \/ FetchFails(r) \/ BeginMerge(r) \/ MergeThrows(r) \/ WriteTmp(r)
          \/ Replace(r) \/ WriteReturns(r) \/ WriteThrows(r) \/ Answer(r)
          \/ \E g \in Generated : Fetched(r, g)
    \/ Crash

(***************************************************************************)
(* The command ends, and the process works off its promises.               *)
(***************************************************************************)
Fairness ==
    \A r \in Regs :
        /\ WF_vars(FetchFails(r) \/ \E g \in Generated : Fetched(r, g))
        /\ WF_vars(BeginMerge(r) \/ MergeThrows(r))
        /\ WF_vars(WriteTmp(r) \/ Replace(r) \/ WriteReturns(r) \/ WriteThrows(r))
        /\ WF_vars(Answer(r))

Spec == Init /\ [][Next]_vars

FairSpec == Spec /\ Fairness

-----------------------------------------------------------------------------
\* What a user of context c reaches, and as whom; Absent where a part is missing.
ServerOf(x, c) ==
    IF x.contexts[c] = Absent THEN Absent ELSE x.clusters[x.contexts[c].cluster]

UserOf(x, c) ==
    IF x.contexts[c] = Absent THEN Absent ELSE x.users[x.contexts[c].user]

(***************************************************************************)
(* A registration changes its own context only: in the effective           *)
(* configuration of the search path every other context keeps the cluster  *)
(* and the user it had, and its own context, if it was there, keeps its    *)
(* API server.  The collision rules of mergeKubeconfig are there for this. *)
(***************************************************************************)
OthersKeepTheirMeaning ==
    [][\A r \in Regs : Replace(r) =>
          \A c \in Contexts :
             LET old == Effective(files)
                 new == Effective(files')
             IN  /\ (c # reg[r].gen.context /\ ServerOf(old, c) # Absent)
                       => ServerOf(new, c) = ServerOf(old, c)
                 /\ (c # reg[r].gen.context /\ UserOf(old, c) # Absent)
                       => UserOf(new, c) = UserOf(old, c)
                 /\ ServerOf(old, c) # Absent
                       => ServerOf(new, c).server = ServerOf(old, c).server
      ]_vars

(***************************************************************************)
(* A registration that was reported as a success stays in effect: its      *)
(* context leads to the server the credentials were for, whatever other    *)
(* registrations of the same names do later.  So does one that replaced    *)
(* the destination and was not reported as a success: a step after the     *)
(* rename threw, or the process died before the answer.                    *)
(***************************************************************************)
SuccessStays ==
    \A r \in Regs : reg[r].at = "ok" \/ r \in committed =>
        LET x == Effective(files)
            g == reg[r].gen
        IN  /\ x.contexts[g.context] = [cluster |-> g.cluster, user |-> g.user]
            /\ ServerOf(x, g.context) # Absent
            /\ ServerOf(x, g.context).server = g.clusterBody.server
            /\ UserOf(x, g.context) # Absent

(***************************************************************************)
(* A failure after the rename is reported like one before it, so that the  *)
(* user registers again: the collision rules let the same credentials      *)
(* through, in the destination and over the whole search path, and the     *)
(* merge changes nothing.                                                  *)
(***************************************************************************)
RetryIsHarmless ==
    [][\A r \in Regs : Replace(r) =>
          /\ MayMerge(reg[r].gen)'
          /\ Merge(files'[1], reg[r].gen) = files'[1]
      ]_vars

(***************************************************************************)
(* The answer is the truth: success exactly when the destination was       *)
(* replaced.  A removal that throws after the rename makes the code break  *)
(* it.                                                                     *)
(***************************************************************************)
AnswerIsTrue ==
    \A r \in Regs : /\ reg[r].at = "ok" => r \in committed
                    /\ reg[r].at = "failed" => r \notin committed

(***************************************************************************)
(* Every registration is answered: no transaction, thrown or not, keeps    *)
(* the ones behind it in the queue waiting for ever.                       *)
(***************************************************************************)
EveryoneIsAnswered ==
    \A r \in Regs : (reg[r].at = "fetch") ~> (reg[r].at \in Answered)

=============================================================================
