# Headlamp: a TLA+ verification project

Headlamp is a web UI for Kubernetes.  A Go backend (`src/backend`) serves the
web application, keeps the list of clusters, proxies the browser's requests to
the clusters' API servers, and does on the browser's behalf what a browser
cannot: multiplexing of watches over one websocket, port forwarding, caching
of responses, Helm operations.  The TypeScript frontend (`src/frontend`) and the
Electron app (`src/app`) use that backend.

This directory holds TLA+ modules that model the parts of that system whose
correctness depends on the order in which concurrent steps happen, the TLC
configurations that check them on small instances, and proofs, checked by
TLAPS, of the properties that hold for every instance.  `PROJECT.json` lists
components, runs, mutants, the source lines of every definition, findings,
hazards and theorems.

## 1. Inventory

| Part | State it keeps | Operations | Interaction |
|---|---|---|---|
| Websocket multiplexer, `backend/cmd/multiplexer.go` | `connections` (key -> `*Connection`), per connection `Status`, `closed`, `Done`, `Client`, `WSConn` | `REQUEST`, `CLOSE`, client disconnect, cluster messages, heartbeat, reconnect | three goroutines per connection: the client's handler, `monitorConnection`, `handleClusterMessages` |
| Service-account token cache, same file | `saTokenCache` | `readServiceAccountToken` | called by every handler and by every reconnecting monitor; the kubelet rotates the file |
| Clientset cache, `backend/pkg/k8cache/authorization.go` | `clientsetCache`, `inFlight`, `blockedClientsetPrefixes` | `GetClientSet`, `EvictClientsetsForCluster`, janitor, unblocking | every cached request; `SyncWatchers` evicts on kubeconfig change |
| Port forwarding, `backend/pkg/portforward` | `cache` of `portForward` snapshots, `inFlightPortForwards`, channels | start, stop, delete, readiness, pod check, reconnect | HTTP handlers, a monitor goroutine per forward |
| Response cache and its watchers, `k8cache/cacheStore.go`, `cacheInvalidation.go`, `context_cleanup.go` | cached responses, `watcherRegistry`, `contextCancel` | GET through the cache, non-GET, `CheckForChanges`, `runWatcher`, `SyncWatchers` | HTTP middleware, informers, kubeconfig watcher |
| TTL cache and context store, `backend/pkg/cache`, `backend/pkg/kubeconfig` | entries with expiry, listeners | set, get, delete, TTL update, sync of the kubeconfig files | kubeconfig watcher, cluster inventory, stateless clusters |
| Cluster inventory, authentication, Helm, plugins | reconciled contexts, refreshed tokens, action status, a change flag | reconcile, refresh, run an action, watch a directory | write to the context store or to the TTL cache |
| Frontend websocket manager, `frontend/src/lib/k8s/api/v2/multiplexer.ts` | `socketMultiplexer`, `connecting`, `isReconnecting`, `listeners`, `activeSubscriptions`, `pendingUnsubscribes` | `connect`, `subscribe`, `unsubscribe`, `resubscribeAll`, socket events, debounce timers | peer of the multiplexer; one object for every hook of the page |
| Frontend lists, `useKubeObjectList.ts`, `KubeList.ts` | the React Query cache of a list, `listsToWatch`, `loadMorePromiseRef` | list request, `loadMore`, watch effect, `handleUpdate`, `applyUpdate` | subscribes at the websocket manager; asks the API server through the backend |
| Desktop app: secure storage, `app/electron/secureStorage.ts` | the encrypted file, `namespaceByCapability`, `registrationAllowed` | register, save, load, delete, navigation events | IPC from the page's plugins |
| Desktop app: cluster registration, `app/electron/cluster-registration.ts` | kubeconfig files, `kubeconfigWriteQueues`, temporary directories | `registerAzureCluster` | IPC; writes what the backend's file watcher and kubectl read |
| Desktop app: MCP client, `app/electron/mcp/MCPClient.ts` | `client`, `isInitialized`, `initializationPromise`, `lifecycleMutationPromise`, settings file | tool use, cluster change, reset, update, cleanup | IPC, dialogs; starts server processes |
| Desktop app: the rest, `main.ts`, `plugin-management.ts`, `runCmd.ts` | windows, the backend process, installed plugins, consents | start and stop of the backend, install, run a command | |

What is hard in each part, and what makes it correct:

* **Multiplexer.**  Three goroutines share a `Connection`, which two locks
  guard for short sections only; a connection may be closed by the browser's
  `CLOSE`, by its departure, by the end of the watch or by a failed write, and
  replaced by a reconnect, all at the same time.  Correct: closing happens
  once, completely, for good and is announced last; what is connected is read;
  nothing outlives its browser.
* **Token cache.**  The lock covers the map, not the sequence stat - look up -
  read - store.  Correct: nobody is given a token older than the file he saw.
* **Clientset cache.**  Callers of one key share one creation, a removal may
  fall into it.  Correct: one creation per key, users are never mixed up,
  evicted clientsets do not come back, waiters are woken.
* **Port forwarding.**  The cache and the stop requests hold copies; only a
  channel, which reconnects replace, ties them to what runs.  Correct: starts
  exclude each other, no forwarder runs that nobody can stop, a stop takes
  effect, a reconnect ends.
* **Response cache.**  A response may be stored after the change that outdates
  it was announced; deferred deletes of an old watcher may hit a new one.
* **Websocket manager.**  Effects mount and unmount while `connect` is in
  progress; a socket may be lost between any two events; the runs of one
  effect share a callback, and the backend has one connection for a path,
  whatever the query.  Correct: one socket; who is mounted is heard, who is not
  is withdrawn; every promise settles.
* **Lists.**  The answer of a list request, pages and watch events change one
  cached list in any order.  Correct: the list is what the server held at the
  version it names, and catches up with it.
* **Secure storage.**  A crash between the steps of a replacement; navigation.
  Correct: a durable map; capabilities die with their page.
* **Cluster registration.**  Concurrent registrations, name collisions with
  what the user has, failures after the point of no return.  Correct: the
  answer is true and lasting, nobody else's context changes its meaning.
* **MCP client.**  A start that is in progress while mutations come and go.
  Correct: no server is left behind, the client is of the current settings.

## 2. Plan

Done:

1. `SATokenCache`, `Multiplexer`, `ClientsetCache`, `PortForward`.
2. The TypeScript core: `WebSocketManager`, `KubeObjectList`, and of the desktop
   app `SecureStorage` (with `DurableMap`, which it implements),
   `ClusterRegistration`, `MCPClient`.
3. Proofs: `SATokenCache`, `ClientsetCache`, `Multiplexer`, `PortForward`,
   `ClusterRegistration`, `MCPClient`, `KubeObjectList`, `WebSocketManager`,
   and, with its refinement, `SecureStorage`.

Next, in this order:

4. `ResponseCache`: GETs through the cache, `HandleNonGETCacheInvalidation`
   and the informers' invalidation.  `WatcherRegistry`: `CheckForChanges`,
   `runWatcher` with its deferred deletes, `SyncWatchers` with lists of
   different age.  Both composed with `ClientsetCache`, which takes its
   evictions from `SyncWatchers`.
5. `ContextStore`: TTL cache, kubeconfig watcher, removal and re-adding.
6. The composition of `WebSocketManager` and `Multiplexer`: the first takes
   from the second that it has one connection for a path, which a REQUEST finds
   or makes, a CLOSE ends, and the loss of a socket ends some time later.
7. A variant of `Multiplexer` with blocking writes and both locks, for the
   lock-order hazard at `multiplexer.go:717` and the unguarded writes to the
   cluster at line 861.
8. The life cycle of the backend process and the consent for commands in the
   desktop app.

## 3. Modules and code

A critical section of a mutex, or a call that is atomic by itself
(`sync.Map.LoadOrStore`), is one step.  Whatever lies between two of them is
not protected by the code and may interleave in the model.  Definitions named
*mutant* in a comment are plausible mistakes: no specification uses them, they
serve to show that the property next to them can fail.

**`SATokenCache`** - `readServiceAccountToken`: `Stat`, `Lookup`, `ReadFile`,
`Store` are its four steps.  `Rotate` is the kubelet (external): it replaces,
empties or removes the file; the modification time may stand still between two
rotations, as the file system's clock has a resolution.

**`Multiplexer`** - `connections` is `m.connections`, `conn` the `Connection`
objects (`done` = `Done` closed, `once` = `closeOnce`, `told` = last STATUS
written to the client), `frame` the position and local variables of each
goroutine, `sock` the browsers' websockets.  Handler: `Request`, `CheckState`,
`WriteToCluster`, `CloseMessage`, `CloseStatus`, `Leave`, `CollectConnections`,
`DetachConnection`, `HandlerReturns`.  Establishing (handler and monitor):
`DialSucceeds`, `DialFails`, `Insert`, `StartReader`.  Monitor: `Heartbeat`,
`PingSucceeds`, `PingFails`, `ReconnectCheck`, `HangUp`, `Reinsert`,
`MonitorStops`.  Reader: `Receive`, `SendData`, `ReaderStops`, `DeleteEntry`.
`SafeClose*` are the sections of `safeClose`; a second caller waits in
`closeOnce.Do` until the first is done.  Payloads, tokens and the COMPLETE and
ERROR messages are abstracted.  A dial
that fails leaves no trace: its STATUS error is not kept, as the connection it
is about is dropped.  `PingMayFail` says whether a heartbeat may find a broken
websocket before the reader has, which leads to reconnects.

**`ClientsetCache`** - the three maps of `authorization.go` keep their names.
`GetClientSet`, `Recheck`, `Create`, `Store`, `Finish`, `Wake` are the sections
of `GetClientSet`, `createAndCacheClientSet`, `finishInFlightClientset` and
`waitForInFlightClientset`;
`EvictClientsetsForCluster`, `ClearBlocked`, `Janitor` those of the removal,
`SyncWatchers` and the janitor.  Time is reduced to whether the TTL of an entry
or a block has elapsed (`EntryExpires`, `BlockAges`).  `Extends` says which
context keys are prefixes of others, as a stateless cluster's key extends a
cluster's name.  `removals` is history.

**`PortForward`** - one cluster and one ID; a *controller* is the line of
goroutines that work on one `portForward` object.  `CheckExisting` to
`FailClose` are `StartPortForward` and the readiness wait, `MonitorStops`
to `HangUp` the pod monitor, `Backoff` to `Refresh` the reconnect, `GiveUp` and
`End` its end, `User*` the three steps of `stopOrDeletePortForward`.
`Forwarder*` is client-go (external).  A channel nobody refers to may be
made anew, which keeps the state space finite without a bound on reconnects.
`tryReconnectOnce` gives up at once without a rest config; the config of a
forward that was started is never nil, so that no action stands for it.
`stopped` is history.

**`WebSocketManager`** - the manager's fields keep their names; a *sub* is one
run of a subscribing effect, of the hook `useWebSocket` or of the list hook,
with the position of its promise.  `CallbackOf` says which runs share a
callback: `useWebSocket` passes one memoised `stableOnMessage` in consecutive
runs, the list hook makes one in every run.  `Mount` is the effect with
`subscribe` and `connect` up to the first `await`, also during the closing
handshake of a socket; `UseOpenSocket`, `PollAttempt`, `OpenNewSocket` and
`ConstructorThrows` are the ways through `connect`; `Poll` is the interval timer
of a second caller.  `Continue` and `Rejected` are the continuations of the
promise, `Unmount` the cleanup, `Timeout` the debounce timer, `OnOpen` (with
`resubscribeAll`), `OnError`, `OnClose` the handlers of the socket.  JavaScript
runs one task at a time and continuations before the next task
(`TaskMayStart`).  The backend is what `multiplexer.go` makes of the messages:
`served` are the keys it has a connection for, at most one for a path (`Busy`),
since its key has no query; `Request` may find the path busy, also by the
connection of a socket that is gone, `Withdrawn` ends whatever key of the path
is served, `Departs` is `closeClientConnections`, `WatchEnds` the end of a watch.

**`KubeObjectList`** - one list: `cache` is its entry of the React Query cache,
`fetch` and `more` the requests in flight, `stream` the subscription of the
watch effect.  A subscription is named by the version it watches from, as its
key differs from the others of the list in that alone.  `leaked` are the keys
whose callback stays for ever, because the effect ran again before `subscribe`
resolved, or after it was rejected; `timers` those with a debounced CLOSE to
come.  `conn` is the one connection the backend has for the path: a REQUEST
with another version is not served while there is one (`RequestFor`), a CLOSE
ends it whatever key it is for (`Timeout`), and so does the server at its
timeout (`WatchEnds`).  The API server (external) is a history of snapshots
with a horizon; a watch or a token from before it is answered with 410.  What a
page of a snapshot holds is specified, not computed (`IsPage`, `Pages`).
`Applied` is `KubeList.applyUpdate`.  `damaged` is history.

**`SecureStorage`** - `file`, `durable` (what the disk holds) and `tmp`; `op`
is the call that is writing.  Node runs a call to its end, only a crash comes
in between.  The rename is atomic, as on POSIX systems; the code's own comment
(`secureStorage.ts:56`) does not promise it for every platform.  A temporary
file that a failed write leaves behind is not kept: nothing reads it.
`Register`, `StartNavigation`, `FrameNavigate`, `Recreate` are the IPC handler
and the window's events.  Encryption and JSON are abstracted: a file that was
not flushed may be `Torn` after a crash.

**`DurableMap`** - a map and its durable copy: assignment, persistence, crash.

**`ClusterRegistration`** - `files` is the search path, the destination first;
`First` and `Effective` merge it as kubectl does.  `Start`, `Fetched`,
`FetchFails`, `BeginMerge`, `MergeThrows`, `WriteTmp`, `Replace`,
`WriteReturns`, `WriteThrows`, `Answer` are the steps of `registerAzureCluster`
between the points where it may wait or fail; `Replace` is the rename alone, and
`WriteThrows` may follow it (the removal of the temporary file throws, or the
PowerShell utility fails after the move; a failing sync of the directory is only
logged).  `queue` is the write lock.  `Conflict` has the three collision rules of
`mergeKubeconfig`.  `committed` is history.

**`MCPClient`** - the fields keep their names (`clusters` stands for `clusters`
and `currentClusters`, which change together), `instance` are the clients made
so far, `queue` the chain of mutations.  `Use*` and `Start*` are
`initializeClient` and `doInitializeClient`, `Begin*`, `Continue`, `CloseDone`,
`CloseFails`, `Restarted` the mutations between their awaits.  Two assumptions
about the adapter library (external): a start that fails leaves no servers
running, although the catch of `doInitializeClient` drops the client without
closing it, and a `close` that rejects has ended its servers.  `raced` is
history.

## 4. Runs

| Run | Instance | Result |
|---|---|---|
| `sa_token_cache` | 2 callers, 1 file, 4 rotations, times 0..3 | passes |
| `mux_tabs` | 2 tabs, 1 key, 2 connections, symmetric tabs | passes, 2.1 million states |
| `mux_reconnect` | 1 tab, 1 key, 2 connections, heartbeats fail | passes, 109 000 states, with liveness |
| `clientset_cache` | 2 callers, 2 contexts (one extends the other), 3 credentials | passes, 383 000 states, with liveness |
| `pf_service` | 1 start, 1 stopping user, service-backed | passes, 294 000 states, with liveness |
| `pf_starts` | 2 starts, 1 stopping user, pod-backed | passes, 19 000 states |
| `ws_manager` | 2 runs of one `useWebSocket` effect, 1 list of another query of the path, 3 sockets | passes, 142 000 states, with liveness |
| `secure_storage` | 3 namespaces of which 2 fit, 2 keys of which 1 fits, 2 values, 3 page loads | passes, 70 000 states, with refinement |
| `cluster_registration` | 2 registrations of one cluster name, 2 contexts, 2 users, 2 servers, 2 files with 4 starting contents, a crash | passes, 375 000 states, with liveness |
| `kube_list` | 3 objects, pages of 2, 3 versions, 2 list requests, 1 lost socket | passes, 5.1 million states |
| `mcp_client` | 2 uses, 3 mutations of any kind, 2 settings, 1 cluster or none | passes, 460 000 states, with liveness |
| `mcp_orphan` | the same | violation, see section 5 |

`TypeOK` is an invariant of the runs `kube_list` and `mcp_client`, and a theorem
(`TypeCorrect`, `TokenTypeCorrect` of `SATokenCache`) for every module.

Bounds, and why they are enough.
*Multiplexer*: two connections let one be closed while its successor under the
same key is set up, which is what races are made of; two tabs let two handlers
dial for one key.  Connection objects are not reused, so that after two the
multiplexer only winds down.  *Token cache*: an entry goes wrong by one old
call, one newer call and a rotation in between; four rotations with repeated
times cover each gap of a call.  *Clientset cache*: a creator and a competitor,
one removal of each context; a third credential makes two keys of one context.  *Port
forwarding*: four channels are the controller's, the cached one, a request's
and a new one; more cannot be told apart by one controller.  With two starters,
pod-backed, no controller holds more than one.
*Websocket manager*: an attempt, its loss and its replacement are three
sockets; two runs of one effect share key, callback and timer, and the third
effect is of the kind that learns of its cleanup late, with another key of the
same path, so that one's CLOSE ends the other's connection.  *Secure storage*:
one namespace and one key too many reach both limits.  *Cluster registration*:
two registrations collide in cluster, context or user with each other and with
either file.
*List*: three objects need two pages, one deletion makes them fit into one;
the second list request may overtake a page or a watch; three versions make
three keys, so that an old timer meets the connection of a newer key.  *MCP
client*: a start, a mutation that meets it, and one that must clean up after
both.

What the passing runs show:

* `NeverStale`: the order stat-then-read is what makes the unlocked cache
  sound.  It compares modification times, as the code does: two tokens written
  within one tick of the file system's clock cannot be told apart.
* `LastWordIsClosed`, `ClosedIsFinal`: no interleaving of `updateStatus`,
  `safeClose` and `closeClientConnections` lets a tab believe that a closed
  connection is alive.
* `SafeCloseIsComplete`: whoever returns from `safeClose` may rely on `Done`
  and the websocket being closed, because `closeOnce` makes him wait.
* `OpenIsMonitored`: however often monitors reconnect and readers delete map
  entries, an open websocket to a cluster has a monitor, or a handler about to
  start it.  (It may have no reader, section 5.)
* `GoroutinesEnd`, `DepartureCompletes`, `ClosedLeavesMap`: no reader or monitor
  outlives its connection; whatever the handler of a departing tab has taken
  out of the map gets closed, also when another goroutine is in `safeClose`; a
  closed connection that is still read does not stay in the map.  These need
  nothing from the cluster: no fairness of the end of a watch is assumed.
* `SingleFlight`, `OwnClientset`, `BlockedNotCached`, `CallsReturn`.
* `StartsAreExclusive`, `ForwardersAreHeld`, `StartingIsPrivate`,
  `ReconnectingEnds`.  `StartingIsPrivate` also shows that the `closeChan` case
  of `handlePortForwardReadiness` is dead code.
* `HeardIsResumed`, `NothingLingers`, `SubscribeSettles`, `UnheardIsWithdrawn`:
  whatever socket is lost, replaced or forgotten and whatever effect is
  unmounted at whatever point, what has a listener is on the list of what is
  requested again, what nobody hears is withdrawn after the debounce, and every
  `subscribe` settles.  `NothingLingers` and `UnheardIsWithdrawn` except the keys
  whose effect was run again with the same callback (`Rerun`, section 5).  None
  of them says that a key is *served*: the backend may have the path busy.
* `ListIsASnapshot`, `EventsGoForward`: the version check
  of `applyUpdate` makes repeated events and second subscriptions harmless.
  The history variable `damaged` marks the races the code does not defend
  against: an answer older than what a watch has brought or starts from, a page
  of an older token, an event for a list that has further pages, a subscription
  that joins a connection which has run ahead, an ERROR event.
* `ImplementsDurableMap`, `LimitsHold`, `CapabilitiesOfThisPage`: fsync before
  rename is what makes a crash harmless; a capability ends with its page.
* `SuccessStays`, `RetryIsHarmless`, `OthersKeepTheirMeaning`,
  `EveryoneIsAnswered`: what was renamed into place is in effect and stays,
  whatever was answered, and registering it again passes the collision rules
  and changes nothing, which matters as a failure after the rename is reported
  like one before it (section 5). The collision rules must be checked against
  the effective configuration *and* the destination; neither alone is enough
  (the mutant of `MayMerge` shows one half).
* `NoOrphanUnlessRaced`, `ClientIsCurrent`, `CleanupIsComplete`, `MutationsEnd`,
  `UsesAreAnswered`: waiting for `initializationPromise` before a mutation is
  what keeps clients current and servers owned, except for a reset.

Fairness.  Weak fairness of a goroutine's own steps: the Go scheduler runs what
can run, and dials, creations and readiness waits end by their timeouts.  Strong
fairness of a monitor's stop case: between two ticks the closed channel is the
only ready case of its `select`.  A forwarder obeys its stop channel.  In the
browser and in Node, weak fairness of continuations and timers, which the event
loop runs; of the end of a connection attempt, of the Azure CLI, and of the
start and close of MCP servers, which have timeouts.  (The fairness of
`KubeObjectList`, for the promise in section 5: the watch effect, which React
runs after a change, the debounce timers, and the delivery on an open
connection.)  No fairness for browsers, clusters, requests, heartbeats,
rotations, pod checks, users, or a socket that is closed.

`CHECK_DEADLOCK` is on in the runs of the backend and of the secure storage:
`Terminated` marks the states in which all goroutines have returned.  It is off
where the system may really come to rest: a page whose hooks are all unmounted,
a list whose socket nobody reopens, registrations that are all answered, an MCP
client that has been cleaned up.

## 5. Where code and comments disagree

* `mcp_orphan` - a reset during the first start sets `initializationPromise` to
  null without waiting for it.  That start publishes its client later, next to
  the one of the reset; cleanup closes only one, although its comment says it
  waits "so cleanup cannot leave an orphaned server".

Further promises are stated in the modules that the code does not keep.  No
run lists them; adding one to the named configuration makes TLC show a
counterexample.

| Property | Configuration | What happens |
|---|---|---|
| `Multiplexer.HandlerLeavesNothingOpen` | `MultiplexerReconnect` | `cleanupConnection` deletes by key: after `CLOSE` and a new `REQUEST` the old reader removes the new connection from the map, and the departing handler does not find it |
| `Multiplexer.ConnectedIsRead` | `MultiplexerReconnect` | after `reconnect` nobody reads the new websocket: the tab is told `connected` and receives nothing |
| `ClientsetCache.RemovedNotRecached` | `ClientsetCache` | a context removed and re-added during a creation gets the clientset of its former life, as `SyncWatchers` lifts the block |
| `PortForward.StopTakesEffect` | `PortForwardService` | a stop closes the channel of a stale copy when the monitor has replaced it for a reconnect |
| `PortForward.OneForwardPerID` | `PortForwardStarts` | a start that looked into the cache before another one had finished claims the ID after it; both forwards run |
| `WebSocketManager.UnmountedIsForgotten` | `WebSocketManager` | the list hook learns of its cleanup when `subscribe` resolves; unmounted before, its subscription stays |
| `WebSocketManager.OneSocket` | `WebSocketManager` | an effect that runs during a closing handshake opens a second socket; the close event of the old one resets the state that belongs to the new one |
| `WebSocketManager.LiveIsHeard` | `WebSocketManager` | a run of a `useWebSocket` effect that was cancelled while it waited removes the callback that the next run has registered: that one receives nothing |
| `WebSocketManager.UnheardIsTimed` | `WebSocketManager` | after the same, the cleanup of the next run clears the timer and sets none, as no listener is left: the key stays active and is requested again for ever |
| `ClusterRegistration.AnswerIsTrue` | `ClusterRegistration` | a failure after the rename (the removal of the temporary file, the end of the PowerShell utility) is answered as if nothing had been written |
| `KubeObjectList.WatchedListCatchesUp` | `KubeObjectList` with `SPECIFICATION FairSpec` | the first event gives the list a new version, and the effect subscribes with a new key; the backend has a connection for the path (`createConnectionKey` leaves the query out) and does not serve it; the debounced CLOSE of the old key ends that connection, and nothing watches any more |
| `KubeObjectList.WatchHasAVersion` | `KubeObjectList` | an ERROR event leaves the list without a version, and the next watch asks for version `undefined` |

## 6. Proofs

The theorems hold for every value of the constants that meets the modules' named
assumptions: `Nil`, `None`, `Error` and the like are not among the values they
are distinguished from, bounds are natural numbers, flags are Boolean.  No
assumption limits the number of clients, keys, callers or rotations.

* `ClientsetCacheProofs`: `TypeCorrect`, `CreationIsSingleFlight`,
  `UsersAreSeparate`, `EvictionSticks`.  The separation of users needs the same
  of the entries of the cache (`CacheIsOwn`), and of waiters through
  `SingleFlight`: the creator a waiter is woken by works on the waiter's key.
* `MultiplexerProofs`: `TypeCorrect`, `ClientHearsClosed`, `CloseIsComplete`,
  `ClosedForGood`, `WebsocketsAreMonitored`.  `IInv` has a part about each
  `Connection` (`RecordOK`: a finished `safeClose` is complete, an attached client of a closed connection
  has been told so), a part about the map, and a part about each goroutine
  (`FrameOK`: what it knows at each position of `safeClose`).  Every action lets
  every `Connection` only *grow* (`Grow`); `FrameStable` says that growing keeps
  the knowledge of all goroutines that do not move, so that each action is left
  with the goroutine it moves.  `Grow` also gives the action property.

  `WebsocketsAreMonitored`, with reconnects.  Its invariant `WatchInv`, on top
  of `IInv`: a monitor that dials anew has closed the websocket it leaves
  (`HungUpInv`), so that turning to another connection abandons none; the
  monitor of a connection that is free, or not inserted yet, has not run, and
  one goroutine only inserts it (`FreshInv`), so that the monitor that `Insert`
  starts is really started.

  The same module has the theorems of `SATokenCache`, the other component of
  `multiplexer.go`: `TokenTypeCorrect`, `EntriesOrdered`, `TokensFresh`.  The
  two specifications share no variable.  The invariant (`TokenInv`) adds that
  no call saw a time later than the file's present one (`StatNotInTheFuture`)
  and that what a call has read is not older than its stat (`ReadAfterStat`);
  only with the first does a read yield the second, and only with the second
  is the stored entry ordered.

* `SecureStorageProofs`: `TypeCorrect`, `CapabilitiesAreOfThisPage`,
  `FileWithinLimits`, `StoreIsADurableMap`.  The refinement needs that what is
  on its way to the disk is the snapshot of the call (`TmpIsSnapshot`) and that
  a file that was put in place was flushed before (`FilesComplete`); the limits
  need their own part about the snapshot that is being written (`Bounded`),
  proved with the cardinality of a set with one element more.
* `ClusterRegistrationProofs`: `TypeCorrect`, `OthersAreSafe`,
  `SuccessIsLasting`, `RepeatingIsHarmless`.  `MergeKeeps` and
  `MergeTakesEffect` say what `Merge` does to other contexts and to its own when
  no conflict was found; the invariant carries that check from the read to the
  replacement (`TransactionInv`: the lock holder's files have not changed
  since), and `EffectInv` that what was committed is in effect.  That a retry is
  harmless rests on `MergeAgain` and `EffectiveAgain`: what `Merge` has put in
  conflicts with itself neither in the destination nor over the search path.

* `PortForwardProofs`: `TypeCorrect`, `StartsExclude`, `NoForwarderIsLost`,
  `PrivateUntilReady`.  `inFlight` is exactly the mark of the one start in
  progress (`FlightInv`); two controllers never hold one channel
  (`DistinctInv`), because a new channel is one that nobody holds
  (`FreshChannel`); and the channel of a failed attempt is closed before it is
  replaced (`RefreshInv`), without which a swap would lose a forwarder.
* `WebSocketManagerProofs`: `TypeCorrect`, `NothingIsLeftBehind`,
  `HeardWillBeResumed`, without a condition on when effects run, how callbacks
  are shared or which keys share a path.  `KeyInv` adds that whoever waits or is
  live has its callback registered unless its effect was run again
  (`ListenInv`), that what has a listener is active (`ActiveInv`), and that a
  socket that has not opened serves nothing and is not the current one
  (`FreshInv`).  `SocketInv`: a resolved promise is continued while its socket
  is open (`SendInv`), a live subscription was not cancelled (`LiveInv`), and
  one that is registered is on a socket that is not closed yet or will be
  resumed (`ResumeInv`); the last needs `ActiveInv`, as `OnClose` decides by
  `activeSubscriptions` whether the next socket resubscribes.

* `MCPClientProofs`: `TypeCorrect`, `NoClientIsLost`, `ClientStaysCurrent`,
  `CleanupLeavesNothing`.  A part of the invariant (`Sound`) always holds: the
  fields refer to a client that has started and to one that is starting, only
  the first mutation of the queue has begun, and the clients are counted
  (`CountInv`: a mutation in the queue has not yet started its own, unless it
  waits for that start), which is what `TypeOK` needs for the numbers of the
  clients.  The other part (`Calm`) holds until a reset races with a start:
  who starts is who `initializationPromise` stands for (`OneStart`), while a
  mutation waits nobody else is in the fields (`WaitInv`), what is in the
  fields is current unless the mutation that runs is about to replace it
  (`CurrentInv`), and once the cleanup has begun the fields are empty or it
  will empty them (`CleanInv`).  `WaitInv` rests on `Due`: a continuation runs
  before any other task, so that no use can start a client between the end of
  a start and the mutation that waited for it.  A step of the mutation that
  runs has one of four outcomes (it returns, waits, closes, or clears the
  fields), each with its lemma.  The theorems are about any settings,
  clusters and numbers of uses and mutations; the run has one cluster and no
  settings with servers that are independent of it.  The invariant was
  checked by TLC on the instance of `MCPClient.cfg` before it was proved.

* `KubeObjectListProofs`: `TypeCorrect`, `CachedListIsASnapshot`,
  `ListGoesForward`, for any number of objects, page size, number of versions,
  requests and lost sockets.  That the list is a snapshot of the server rests
  on what each message in flight carries: a page is the part of one snapshot
  that its token asks for (`PageOK`), whatever the server does meanwhile, and
  the token of the list is of the list's version (`CacheOK`), so that a page
  put behind the list completes the same snapshot.  Each version of the server
  changes one object (`HistoryOK`), so that one event takes a snapshot to the
  next; and neither the connection, if its key has a callback, nor a key with a
  callback, leaked ones included, is ahead of the list (`NotAhead`), so that the
  next event is one the list has, which `applyUpdate` drops, or the very next
  one.  `NotAhead` needs that a connection is never before the version of its
  key (`ConnOK`): a key that gets a callback again finds a connection that is
  where the list is, or `JoinsLate` marks the list.
  The lemmas say what `Applied` does to the positions, the range and the
  uniqueness of the items (`IndexOfFacts`, `UpdatedFacts`, `RemovedFacts`,
  `AppliedFacts`).  As in the run, the two properties are about a list that no
  race has damaged: `damaged` is history and marks the places where the code
  has no defence (section 4).  The invariant was checked by TLC before it was
  proved.

Every invariant and every action property of a passing run is stated by a
theorem, and so is the refinement.  Only model-checked: liveness, with the
fairness it needs (outside the prover's reach).

## 7. Not modelled

* `cleanupConnections` of the multiplexer: only a test calls it.
* The list and get handlers of port forwarding: they read only.
* What a blocked write to a slow browser holds up, and overlapping writes to a
  cluster's websocket: planned (section 2, item 7).
* A deleted port forward may reappear in the list as `Stopped` when a pod check
  fails during the delete; the model has the interleaving, no property forbids
  it.
* Request paths, access reviews, certificates, cookies, claims, kubeconfig
  parsing: conversions without shared state.
* Of the frontend: the watch without the multiplexer (`webSocket.ts`, whose
  `useWebSockets` opens a socket per list and does not reopen one that closed),
  the single-object hook, polling, the user interface.
* Of the desktop app: the tool states of the MCP client, windows and menus, the
  backend process, the plugin manager, the consent for commands.
* Other processes that write a kubeconfig between the read and the rename of a
  registration: the code has no lock against them.
* Charts, end-to-end tests, examples.
* The parts under 4 to 8 of the plan, for now.

The modules follow the parts of the code that keep state several actors change.
Most of the repository's TypeScript is rendering: components, forms, tables,
stories and translations, for which there is nothing to check in this way.
