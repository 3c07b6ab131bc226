----------------------------- MODULE MCPClient -----------------------------
(***************************************************************************)
(* The MCP client of the desktop app (app/electron/mcp/MCPClient.ts).      *)
(*                                                                         *)
(* The first use of a tool starts the configured servers.  Changes of the  *)
(* cluster, resets, updates of the settings and the cleanup are mutations: *)
(* they run one after the other through lifecycleMutationPromise.  A start *)
(* is not a mutation of its own: it may be in progress while mutations     *)
(* come and go.                                                            *)
(*                                                                         *)
(* Node runs one task at a time.  A continuation of a settled promise      *)
(* (Due) runs before the next task.  A "client" is one                     *)
(* MultiServerMCPClient with its server processes, external.               *)
(*                                                                         *)
(* Assumed of it: a start that fails, and a close that rejects, leave no   *)
(* servers.  The code relies on it: the catch block of doInitializeClient  *)
(* drops the client without closing it.                                    *)
(***************************************************************************)
EXTENDS Naturals, Sequences, FiniteSets

CONSTANTS
    Uses,          \* calls that need the client: mcp-execute-tool, mcp-get-tools-config
    Clusters,      \* clusters the window may show
    Settings,      \* contents of the settings file
    WithServers,   \* the settings that enable a server
    Dependent,     \* the settings of which an enabled server depends on the cluster
    NoCluster,     \* no cluster is shown
    MaxMutations   \* bound: mutations of a behaviour, and dialogs opened for them

ASSUME SettingsAssumption == Dependent \subseteq WithServers /\ WithServers \subseteq Settings

ASSUME BoundAssumption ==
    MaxMutations \in Nat /\ IsFiniteSet(Uses) /\ NoCluster \notin Clusters

VARIABLES
    initialized,            \* initialize() was called and no cleanup since; mainWindow is set
    client,                 \* this.client: a client, or 0
    isInitialized,
    initializationPromise,  \* the start that is in progress as far as the fields say, or 0
    clusters,               \* clusters and currentClusters
    settings,               \* the settings file
    queue,                  \* lifecycleMutationPromise: mutations, first the one that runs
    dialogs,                \* confirmation dialogs that are open
    instance,               \* the clients made so far
    use,                    \* use -> where it is: idle, waiting for the start `on', answered
    mutations,              \* counter for the bound
    raced                   \* history: a reset began while a start was in progress,
                            \* or after the cleanup

vars == <<initialized, client, isInitialized, initializationPromise, clusters, settings,
          queue, dialogs, instance, use, mutations, raced>>

-----------------------------------------------------------------------------
\* Every use and every mutation starts at most one client.
Ids == 1 .. (Cardinality(Uses) + MaxMutations)

Instance == [status : {"starting", "up", "failed", "closed", "broken"},
             settings : Settings, cluster : Clusters \cup {NoCluster}]

Dialogs == [kind : {"reset"}, arg : {NoCluster}] \cup [kind : {"update"}, arg : Settings]

Requests ==
    Dialogs \cup [kind : {"clusters"}, arg : Clusters \cup {NoCluster}]
            \cup [kind : {"cleanup"}, arg : {NoCluster}]

(***************************************************************************)
(* queued: not begun.  await: waits for the start `on' of another caller.  *)
(* closing: waits for close() of the client `on'.  restart: waits for the  *)
(* start `on' of its own.  old: the clusters to restore when it throws.    *)
(***************************************************************************)
Mutation == [req : Requests, at : {"queued", "await", "closing", "restart"},
             on : Ids \cup {0}, old : Clusters \cup {NoCluster}]

TypeOK ==
    /\ initialized \in BOOLEAN
    /\ client \in Ids \cup {0}
    /\ isInitialized \in BOOLEAN
    /\ initializationPromise \in Ids \cup {0}
    /\ clusters \in Clusters \cup {NoCluster}
    /\ settings \in Settings
    /\ queue \in Seq(Mutation)
    /\ dialogs \subseteq Dialogs
    /\ instance \in Seq(Instance) /\ DOMAIN instance \subseteq Ids
    /\ use \in [Uses -> [at : {"idle", "waiting", "answered"}, on : Ids \cup {0}]]
    /\ mutations \in 0 .. MaxMutations
    /\ raced \in BOOLEAN

Init ==
    /\ initialized = TRUE
    /\ client = 0
    /\ isInitialized = FALSE
    /\ initializationPromise = 0
    /\ clusters = NoCluster
    /\ settings \in Settings
    /\ queue = <<>>
    /\ dialogs = {}
    /\ instance = <<>>
    /\ use = [u \in Uses |-> [at |-> "idle", on |-> 0]]
    /\ mutations = 0
    /\ raced = FALSE

-----------------------------------------------------------------------------
Starting(i) == instance[i].status = "starting"

Running == queue[1]

\* A continuation is due: the next mutation begins, or what it waits for has settled.
Due ==
    /\ queue # <<>>
    /\ \/ Running.at = "queued"
       \/ Running.at \in {"await", "restart"} /\ ~Starting(Running.on)

Fresh == Len(instance) + 1

(***************************************************************************)
(* doInitializeClient up to its first await, with the settings s and the   *)
(* cluster c: either no server is enabled, or a new client starts.         *)
(***************************************************************************)
NothingToStart(s) == s \notin WithServers

Started(made, s, c) == Append(made, [status |-> "starting", settings |-> s, cluster |-> c])

\* mcpExecuteTool and mcpGetToolsConfig: initializeClient, and the answer.
UseReady(u) ==
    /\ isInitialized \/ (initializationPromise = 0 /\ NothingToStart(settings))
    /\ use' = [use EXCEPT ![u].at = "answered"]
    /\ isInitialized' = TRUE
    /\ UNCHANGED <<initializationPromise, instance>>

\* Mutant: a start in progress is not joined.
MayJoinNever == FALSE

MayJoin == initializationPromise # 0

UseJoins(u) ==
    /\ ~isInitialized
    /\ MayJoin
    /\ use' = [use EXCEPT ![u] = [at |-> "waiting", on |-> initializationPromise]]
    /\ UNCHANGED <<isInitialized, initializationPromise, instance>>

UseStarts(u) ==
    /\ ~isInitialized
    /\ ~MayJoin
    /\ ~NothingToStart(settings)
    /\ instance' = Started(instance, settings, clusters)
    /\ initializationPromise' = Fresh
    /\ use' = [use EXCEPT ![u] = [at |-> "waiting", on |-> Fresh]]
    /\ UNCHANGED isInitialized

\* assertTrustedIpcEvent: after the cleanup mainWindow is null.
Use(u) ==
    /\ ~Due
    /\ initialized
    /\ use[u].at = "idle"
    /\ UseReady(u) \/ UseJoins(u) \/ UseStarts(u)
    /\ UNCHANGED <<initialized, client, clusters, settings, queue, dialogs, mutations, raced>>

Answered(i) ==
    [u \in Uses |-> IF use[u] = [at |-> "waiting", on |-> i]
                    THEN [use[u] EXCEPT !.at = "answered"] ELSE use[u]]

\* doInitializeClient after getTools, and the finally block of initializeClient.
StartDone(i) ==
    /\ ~Due
    /\ Starting(i)
    /\ instance' = [instance EXCEPT ![i].status = "up"]
    /\ client' = i
    /\ isInitialized' = TRUE
    /\ initializationPromise' = IF initializationPromise = i THEN 0 ELSE initializationPromise
    /\ use' = Answered(i)
    /\ UNCHANGED <<initialized, clusters, settings, queue, dialogs, mutations, raced>>

\* Mutant: the uses that wait are not told of a failure.
StartFailsSilently(i) ==
    /\ ~Due
    /\ Starting(i)
    /\ instance' = [instance EXCEPT ![i].status = "failed"]
    /\ client' = 0
    /\ isInitialized' = FALSE
    /\ initializationPromise' = 0
    /\ UNCHANGED <<initialized, clusters, settings, queue, dialogs, use, mutations, raced>>

\* The catch block of doInitializeClient resets the fields whatever they hold.
StartFails(i) ==
    /\ ~Due
    /\ Starting(i)
    /\ instance' = [instance EXCEPT ![i].status = "failed"]
    /\ client' = 0
    /\ isInitialized' = FALSE
    /\ initializationPromise' = 0
    /\ use' = Answered(i)
    /\ UNCHANGED <<initialized, clusters, settings, queue, dialogs, mutations, raced>>

-----------------------------------------------------------------------------
(* Requests of mutations.                                                  *)

Enqueue(req) ==
    /\ mutations < MaxMutations
    /\ mutations' = mutations + 1
    /\ queue' = Append(queue, [req |-> req, at |-> "queued", on |-> 0, old |-> clusters])

\* mcpResetClient and mcpUpdateConfig ask the user first.
Ask(d) ==
    /\ ~Due
    /\ initialized
    /\ mutations + Cardinality(dialogs) < MaxMutations
    /\ dialogs' = dialogs \cup {d}
    /\ UNCHANGED <<initialized, client, isInitialized, initializationPromise, clusters, settings,
                   queue, instance, use, mutations, raced>>

\* The user allows it, or not; the window may be gone by then.
Confirm(d) ==
    /\ ~Due
    /\ d \in dialogs
    /\ dialogs' = dialogs \ {d}
    /\ Enqueue(d) \/ UNCHANGED <<mutations, queue>>
    /\ UNCHANGED <<initialized, client, isInitialized, initializationPromise, clusters, settings,
                   instance, use, raced>>

\* mcp-cluster-change, and before-quit.
Request(req) ==
    /\ ~Due
    /\ initialized
    /\ Enqueue(req)
    /\ UNCHANGED <<initialized, client, isInitialized, initializationPromise, clusters, settings,
                   dialogs, instance, use, raced>>

-----------------------------------------------------------------------------
(* Steps of the mutation that runs.                                        *)

Goes(at, on) ==
    queue' = [queue EXCEPT ![1] = [req |-> @.req, at |-> at, on |-> on,
                                   old |-> IF @.at = "queued" THEN clusters ELSE @.old]]

\* Mutant: a mutation that throws is not taken off the chain.
EndsOnlyWell(threw) == queue' = IF threw THEN queue ELSE Tail(queue)

\* lifecycleMutationPromise continues whether the mutation threw or not.
Ends(threw) == queue' = Tail(queue)

(***************************************************************************)
(* client = null, isInitialized = false, initializationPromise = null,     *)
(* and, if again, initializeClient; made are the clients by then.          *)
(***************************************************************************)
ClearedAnd(again, made) ==
    /\ client' = 0
    /\ isInitialized' = (again /\ NothingToStart(settings'))
    /\ IF again /\ ~NothingToStart(settings')
       THEN /\ instance' = Started(made, settings', clusters')
            /\ initializationPromise' = Fresh
            /\ Goes("restart", Fresh)
       ELSE /\ instance' = made
            /\ initializationPromise' = 0
            /\ Ends(FALSE)

Closing == Goes("closing", client) /\ UNCHANGED <<client, isInitialized, initializationPromise, instance>>

Returns(threw) == Ends(threw) /\ UNCHANGED <<client, isInitialized, initializationPromise, instance>>

\* Mutant: the cleanup does not wait for a start.
CleanupNeverWaits == FALSE

\* applyCleanup waits for a first start to publish its client.
CleanupWaits == initializationPromise # 0

BeginCleanup ==
    /\ Running.req.kind = "cleanup"
    /\ initialized' = FALSE
    /\ \/ ~initialized /\ Returns(FALSE)
       \/ /\ initialized
          /\ IF CleanupWaits
             THEN /\ Goes("await", initializationPromise)
                  /\ UNCHANGED <<client, isInitialized, initializationPromise, instance>>
             ELSE IF client # 0 THEN Closing ELSE ClearedAnd(FALSE, instance)
    /\ UNCHANGED <<clusters, settings, raced>>

\* applyClustersChange after the wait for a start.
ClustersRestart ==
    IF client # 0 /\ settings \in Dependent THEN Closing ELSE Returns(FALSE)

\* Mutant: a start with the earlier clusters is not waited for.
ClustersNeverWaits == FALSE

ClustersWaits == initializationPromise # 0

\* Mutant: the message of mcp-cluster-change is taken for the cluster.
NewClustersNotUnpacked == Running.req

NewClusters == Running.req.arg

BeginClusters ==
    /\ Running.req.kind = "clusters"
    /\ \/ ~initialized /\ Returns(TRUE) /\ UNCHANGED clusters
       \/ /\ initialized
          /\ clusters' = NewClusters
          /\ IF clusters' = clusters THEN Returns(FALSE)
             ELSE IF ClustersWaits
             THEN /\ Goes("await", initializationPromise)
                  /\ UNCHANGED <<client, isInitialized, initializationPromise, instance>>
             ELSE ClustersRestart
    /\ UNCHANGED <<initialized, settings, raced>>

BeginReset ==
    /\ Running.req.kind = "reset"
    /\ raced' = (raced \/ ~initialized \/ \E i \in DOMAIN instance : Starting(i))
    /\ UNCHANGED <<initialized, clusters, settings>>
    /\ IF client # 0 THEN Closing ELSE ClearedAnd(TRUE, instance)

\* mcpUpdateConfig after the wait for a start: save, then close.
UpdateRestart ==
    /\ settings' = Running.req.arg
    /\ IF client # 0 THEN Closing ELSE ClearedAnd(FALSE, instance)

BeginUpdate ==
    /\ Running.req.kind = "update"
    /\ IF initializationPromise # 0
       THEN /\ Goes("await", initializationPromise)
            /\ UNCHANGED <<settings, client, isInitialized, initializationPromise, instance>>
       ELSE UpdateRestart
    /\ UNCHANGED <<initialized, clusters, raced>>

Begin ==
    /\ queue # <<>>
    /\ Running.at = "queued"
    /\ BeginCleanup \/ BeginClusters \/ BeginReset \/ BeginUpdate
    /\ UNCHANGED <<dialogs, use, mutations>>

\* The start it waited for has settled.  Only the cleanup ignores a failure.
Continue ==
    /\ queue # <<>>
    /\ Running.at = "await"
    /\ ~Starting(Running.on)
    /\ LET failed == instance[Running.on].status = "failed"
       IN  CASE Running.req.kind = "cleanup" ->
                    (IF client # 0 THEN Closing ELSE ClearedAnd(FALSE, instance)) /\ UNCHANGED <<clusters, settings>>
             [] Running.req.kind = "clusters" ->
                    /\ clusters' = IF failed THEN Running.old ELSE clusters
                    /\ IF failed THEN Returns(TRUE) ELSE ClustersRestart
                    /\ UNCHANGED settings
             [] Running.req.kind = "update" ->
                    /\ IF failed THEN Returns(TRUE) /\ UNCHANGED settings ELSE UpdateRestart
                    /\ UNCHANGED clusters
    /\ UNCHANGED <<initialized, dialogs, use, mutations, raced>>

\* client.close() resolves.  An update restarts, as the client was active.
CloseDone ==
    /\ ~Due
    /\ queue # <<>>
    /\ Running.at = "closing"
    /\ UNCHANGED <<initialized, clusters, settings, dialogs, use, mutations, raced>>
    /\ ClearedAnd(Running.req.kind # "cleanup", [instance EXCEPT ![Running.on].status = "closed"])

\* client.close() rejects: the cleanup goes on, the others throw.
CloseFails ==
    /\ ~Due
    /\ queue # <<>>
    /\ Running.at = "closing"
    /\ instance' = [instance EXCEPT ![Running.on].status = "broken"]
    /\ IF Running.req.kind = "cleanup"
       THEN client' = 0 /\ isInitialized' = FALSE /\ initializationPromise' = 0
       ELSE UNCHANGED <<client, isInitialized, initializationPromise>>
    /\ clusters' = IF Running.req.kind = "clusters" THEN Running.old ELSE clusters
    /\ Ends(Running.req.kind # "cleanup")
    /\ UNCHANGED <<initialized, settings, dialogs, use, mutations, raced>>

\* The start of its own has settled.
Restarted ==
    /\ queue # <<>>
    /\ Running.at = "restart"
    /\ ~Starting(Running.on)
    /\ LET failed == instance[Running.on].status = "failed"
       IN  /\ clusters' = IF failed /\ Running.req.kind = "clusters" THEN Running.old ELSE clusters
           /\ Ends(failed)
    /\ UNCHANGED <<initialized, client, isInitialized, initializationPromise, settings,
                   dialogs, instance, use, mutations, raced>>

-----------------------------------------------------------------------------
Next ==
    \/ \E u \in Uses : Use(u)
    \/ \E i \in DOMAIN instance : StartDone(i) \/ StartFails(i)
    \/ \E d \in Dialogs : Ask(d) \/ Confirm(d)
    \/ \E r \in Requests \ Dialogs : Request(r)
    \/ Begin \/ Continue \/ CloseDone \/ CloseFails \/ Restarted

(***************************************************************************)
(* Continuations run; a start and a close end, well or not: the requests   *)
(* to the servers have timeouts.                                           *)
(***************************************************************************)
Fairness ==
    /\ WF_vars(Begin \/ Continue \/ Restarted)
    /\ WF_vars(CloseDone \/ CloseFails)
    /\ \A i \in Ids : WF_vars(i \in DOMAIN instance /\ (StartDone(i) \/ StartFails(i)))

Spec == Init /\ [][Next]_vars

FairSpec == Spec /\ Fairness

-----------------------------------------------------------------------------
(***************************************************************************)
(* No client is lost: one whose servers run is the one the fields refer    *)
(* to, so a later mutation can close it.                                   *)
(***************************************************************************)
NoOrphan == \A i \in DOMAIN instance : instance[i].status = "up" => client = i

NoOrphanUnlessRaced == ~raced => NoOrphan

(***************************************************************************)
(* When nothing is under way, the client that runs was started with the    *)
(* settings of the file and, if a server depends on it, with the cluster   *)
(* of the window, although starts and changes overlap.                     *)
(***************************************************************************)
Quiet == queue = <<>> /\ \A i \in DOMAIN instance : ~Starting(i)

ClientIsCurrent ==
    (Quiet /\ ~raced /\ client # 0 /\ instance[client].status = "up") =>
        /\ instance[client].settings = settings
        /\ settings \in Dependent => instance[client].cluster = clusters

(***************************************************************************)
(* After the cleanup no server runs or starts, also when a start was in    *)
(* progress at the time.  A client whose start failed, or whose close      *)
(* rejected, counts as not running.                                        *)
(***************************************************************************)
CleanedUp == ~initialized /\ queue = <<>>

CleanupIsComplete ==
    (CleanedUp /\ ~raced) =>
        \A i \in DOMAIN instance : instance[i].status \notin {"starting", "up"}

(***************************************************************************)
(* "cleanup cannot leave an orphaned server": after the cleanup no client  *)
(* runs that the fields do not refer to.                                   *)
(***************************************************************************)
CleanupLeavesNoOrphan == CleanedUp => NoOrphan

(***************************************************************************)
(* A mutation that throws does not stop the ones after it, and every use   *)
(* is answered.                                                            *)
(***************************************************************************)
MutationsEnd == queue # <<>> ~> queue = <<>>

UsesAreAnswered == \A u \in Uses : use[u].at = "waiting" ~> use[u].at = "answered"

=============================================================================
