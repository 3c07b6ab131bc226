-------------------------- MODULE WebSocketManager --------------------------
(***************************************************************************)
(* The websocket manager of the frontend and the two hooks that use it     *)
(* (frontend/src/lib/k8s/api/v2/multiplexer.ts; the effect of              *)
(* useWatchKubeObjectListsMultiplexed in useKubeObjectList.ts).            *)
(*                                                                         *)
(* The browser runs one task at a time.  A task is the run of React's      *)
(* effects (Mount, Unmount), an event of a socket, a tick of a poller or   *)
(* the debounce timer of a key; the continuations of settled promises      *)
(* (Continue, Rejected) run before the next task.  What another task may   *)
(* change between a subscribe and its continuation is the manager's        *)
(* state: that is where the interleavings are.                             *)
(*                                                                         *)
(* A key stands for clusterId:path:query and its path for clusterId:path,  *)
(* which is all the backend goes by (createConnectionKey of                *)
(* multiplexer.go, for one user).  The runs of one useWebSocket effect     *)
(* pass the same memoised stableOnMessage for as long as onMessage and     *)
(* onError stay the same; the list hook makes a callback in every run.     *)
(* errorListeners follows listeners step by step and completedPaths is     *)
(* never read: neither is modelled.                                        *)
(***************************************************************************)
EXTENDS Naturals

CONSTANTS
    Keys,          \* subscription keys
    Paths,         \* what the backend tells apart
    PathOf,        \* Keys -> Paths
    Subs,          \* runs of a subscribing effect
    KeyOf,         \* Subs -> Keys
    KindOf,        \* Subs -> {"hook", "list"}: which hook the effect is of
    Callbacks,     \* message handlers
    CallbackOf,    \* Subs -> Callbacks
    MaxSockets     \* bound: sockets opened in a behaviour

Kinds == {"hook", "list"}

ASSUME KeysAssumption == PathOf \in [Keys -> Paths]

ASSUME SubsAssumption ==
    KeyOf \in [Subs -> Keys] /\ KindOf \in [Subs -> Kinds] /\ CallbackOf \in [Subs -> Callbacks]

ASSUME CallbackAssumption ==
    \A s, t \in Subs : KindOf[s] = "list" /\ CallbackOf[t] = CallbackOf[s] => t = s

ASSUME BoundsAssumption == MaxSockets \in Nat

VARIABLES
    socketMultiplexer,   \* the current socket, or 0
    connecting,          \* a connection attempt is in progress
    isReconnecting,      \* the next open resubscribes everything
    listeners,           \* key -> the callbacks registered for it
    activeSubscriptions, \* keys to resubscribe
    pendingUnsubscribes, \* keys with a debounce timer
    sub,                 \* subscription -> where its promise stands
    readyState,          \* socket -> its state
    served               \* socket -> keys the backend has a connection for, and
                         \* whose messages it sends over the socket

manager == <<socketMultiplexer, connecting, isReconnecting,
             listeners, activeSubscriptions, pendingUnsubscribes>>

vars == <<manager, sub, readyState, served>>

-----------------------------------------------------------------------------
Sockets == 1 .. MaxSockets

(***************************************************************************)
(* unused before new WebSocket; failed between the error and the close     *)
(* event of an attempt that did not open.                                  *)
(***************************************************************************)
States == {"unused", "connecting", "open", "failed", "closing", "closed"}

(***************************************************************************)
(* new: not run yet.  gone: cleaned up.  opening: its connect() opened the *)
(* socket `on' and waits for it.  polling: its connect() polls another     *)
(* one's attempt.  sending, rejected: the promise has settled and its      *)
(* continuation is due.  live: settled, cleanup known to the effect.       *)
(* failed: mounted after a rejection.  lost: unmounted while no cleanup    *)
(* was known, with its callback registered.                                *)
(***************************************************************************)
Phases == {"new", "opening", "polling", "sending", "rejected", "live", "failed", "gone", "lost"}

Waiting == {"opening", "polling", "sending", "rejected"}

Sub == [phase : Phases, on : Sockets \cup {0}, cancelled : BOOLEAN]

IsOpen(n) == n # 0 /\ readyState[n] = "open"

TypeOK ==
    /\ socketMultiplexer \in Sockets \cup {0}
    /\ connecting \in BOOLEAN
    /\ isReconnecting \in BOOLEAN
    /\ listeners \in [Keys -> SUBSET Callbacks]
    /\ activeSubscriptions \subseteq Keys
    /\ pendingUnsubscribes \subseteq Keys
    /\ sub \in [Subs -> Sub]
    /\ readyState \in [Sockets -> States]
    /\ served \in [Sockets -> SUBSET Keys]

Init ==
    /\ socketMultiplexer = 0
    /\ connecting = FALSE
    /\ isReconnecting = FALSE
    /\ listeners = [k \in Keys |-> {}]
    /\ activeSubscriptions = {}
    /\ pendingUnsubscribes = {}
    /\ sub = [s \in Subs |-> [phase |-> "new", on |-> 0, cancelled |-> FALSE]]
    /\ readyState = [n \in Sockets |-> "unused"]
    /\ served = [n \in Sockets |-> {}]

-----------------------------------------------------------------------------
\* No continuation is due, and no attempt is between its error and close event.
TaskMayStart ==
    /\ \A s \in Subs : sub[s].phase \notin {"sending", "rejected"}
    /\ \A n \in Sockets : readyState[n] # "failed"

\* A cleanup may also run in the task of its own effect, before the continuation.
CleanupMayRun == \A n \in Sockets : readyState[n] # "failed"

(***************************************************************************)
(* The backend, as the manager meets it.  It has one connection for a      *)
(* path, whatever the query and the socket: a REQUEST for a path that has  *)
(* one is not served, and a CLOSE ends the one there is.  A REQUEST may    *)
(* also fail, or meet the connection of another tab of the user.           *)
(***************************************************************************)
Busy(p) == \E n \in Sockets : \E k \in served[n] : PathOf[k] = p

Request(n, keys) ==
    \E new \in SUBSET {k \in keys : ~Busy(PathOf[k])} :
        /\ \A j, k \in new : PathOf[j] = PathOf[k] => j = k
        /\ served' = [served EXCEPT ![n] = @ \cup new]

Withdrawn(k) == [n \in Sockets |-> {j \in served[n] : PathOf[j] # PathOf[k]}]

(***************************************************************************)
(* connect(), as subscribe calls it.                                       *)
(***************************************************************************)

UseOpenSocket(s) ==
    /\ IsOpen(socketMultiplexer)
    /\ sub' = [sub EXCEPT ![s] = [phase |-> "sending", on |-> socketMultiplexer, cancelled |-> FALSE]]
    /\ UNCHANGED <<connecting, readyState, served>>

PollAttempt(s) ==
    /\ ~IsOpen(socketMultiplexer)
    /\ connecting
    /\ sub' = [sub EXCEPT ![s] = [phase |-> "polling", on |-> 0, cancelled |-> FALSE]]
    /\ UNCHANGED <<connecting, readyState, served>>

OpenNewSocket(s) ==
    /\ ~IsOpen(socketMultiplexer)
    /\ ~connecting
    /\ \E n \in Sockets :
          /\ readyState[n] = "unused"
          /\ \A m \in Sockets : m < n => readyState[m] # "unused"
          /\ readyState' = [readyState EXCEPT ![n] = "connecting"]
          /\ sub' = [sub EXCEPT ![s] = [phase |-> "opening", on |-> n, cancelled |-> FALSE]]
    /\ connecting' = TRUE
    /\ UNCHANGED served

\* new WebSocket throws: connecting is reset and the promise rejected at once.
ConstructorThrows(s) ==
    /\ ~IsOpen(socketMultiplexer)
    /\ ~connecting
    /\ sub' = [sub EXCEPT ![s] = [phase |-> "rejected", on |-> 0, cancelled |-> FALSE]]
    /\ UNCHANGED <<connecting, readyState, served>>

Mounted(s) == sub[s].phase \in Waiting \cup {"live", "failed"} /\ ~sub[s].cancelled

\* The effect runs, after the cleanup of its last run: subscribe registers the
\* key and the callback, then connects.
Mount(s) ==
    /\ TaskMayStart
    /\ sub[s].phase = "new"
    /\ \A t \in Subs : CallbackOf[t] = CallbackOf[s] => ~Mounted(t)
    /\ activeSubscriptions' = activeSubscriptions \cup {KeyOf[s]}
    /\ listeners' = [listeners EXCEPT ![KeyOf[s]] = @ \cup {CallbackOf[s]}]
    /\ \/ UseOpenSocket(s)
       \/ PollAttempt(s)
       \/ OpenNewSocket(s)
       \/ ConstructorThrows(s)
    /\ UNCHANGED <<socketMultiplexer, isReconnecting, pendingUnsubscribes>>

\* Mutant: clearing the timer of the key is all that happens to the timers.
TimersClearedOnly(k, rest) == pendingUnsubscribes \ {k}

TimersAfter(k, rest) ==
    IF listeners[k] # {} /\ rest = {}
    THEN pendingUnsubscribes \cup {k}
    ELSE pendingUnsubscribes \ {k}

(***************************************************************************)
(* unsubscribe: the timer of the key is cleared, the callback removed, and *)
(* a new timer set when it was the last one.  Without callbacks there is   *)
(* nothing in the map for the key, and the timer is only cleared.          *)
(***************************************************************************)
Unsubscribe(s) ==
    LET k == KeyOf[s]
        rest == listeners[k] \ {CallbackOf[s]}
    IN  /\ listeners' = [listeners EXCEPT ![k] = rest]
        /\ pendingUnsubscribes' = TimersAfter(k, rest)

\* The promise of a subscribe resolved: REQUEST, then what the hook does with
\* the cleanup.  send() on a socket that is not open does nothing.
Continue(s) ==
    /\ sub[s].phase = "sending"
    /\ \/ IsOpen(sub[s].on) /\ Request(sub[s].on, {KeyOf[s]})
       \/ ~IsOpen(sub[s].on) /\ UNCHANGED served
    /\ \/ /\ ~sub[s].cancelled
          /\ sub' = [sub EXCEPT ![s].phase = "live"]
          /\ UNCHANGED <<listeners, pendingUnsubscribes>>
       \/ /\ sub[s].cancelled /\ KindOf[s] = "hook"
          /\ Unsubscribe(s)
          /\ sub' = [sub EXCEPT ![s].phase = "gone"]
       \/ /\ sub[s].cancelled /\ KindOf[s] = "list"
          /\ sub' = [sub EXCEPT ![s].phase = "lost"]
          /\ UNCHANGED <<listeners, pendingUnsubscribes>>
    /\ UNCHANGED <<socketMultiplexer, connecting, isReconnecting, activeSubscriptions, readyState>>

\* The promise of a subscribe rejected: useWebSocket unsubscribes in its catch,
\* the list hook only logs.
Rejected(s) ==
    /\ sub[s].phase = "rejected"
    /\ \/ /\ KindOf[s] = "hook"
          /\ Unsubscribe(s)
          /\ sub' = [sub EXCEPT ![s].phase = IF sub[s].cancelled THEN "gone" ELSE "failed"]
       \/ /\ KindOf[s] = "list"
          /\ sub' = [sub EXCEPT ![s].phase = IF sub[s].cancelled THEN "lost" ELSE "failed"]
          /\ UNCHANGED <<listeners, pendingUnsubscribes>>
    /\ UNCHANGED <<socketMultiplexer, connecting, isReconnecting, activeSubscriptions,
                   readyState, served>>

\* The cleanup of the effect.
Unmount(s) ==
    /\ CleanupMayRun
    /\ \/ /\ sub[s].phase \in Waiting
          /\ ~sub[s].cancelled
          /\ sub' = [sub EXCEPT ![s].cancelled = TRUE]
          /\ UNCHANGED <<listeners, pendingUnsubscribes>>
       \/ /\ sub[s].phase = "live"
          /\ Unsubscribe(s)
          /\ sub' = [sub EXCEPT ![s].phase = "gone"]
       \/ /\ sub[s].phase = "failed"
          /\ sub' = [sub EXCEPT ![s].phase = IF KindOf[s] = "hook" THEN "gone" ELSE "lost"]
          /\ UNCHANGED <<listeners, pendingUnsubscribes>>
    /\ UNCHANGED <<socketMultiplexer, connecting, isReconnecting, activeSubscriptions,
                   readyState, served>>

-----------------------------------------------------------------------------
\* Mutant: the poller waits for an open socket only.
AttemptNeverOver == FALSE

AttemptOver == ~connecting

\* A tick of the 100 ms poller of connect().
Poll(s) ==
    /\ TaskMayStart
    /\ sub[s].phase = "polling"
    /\ \/ /\ IsOpen(socketMultiplexer)
          /\ sub' = [sub EXCEPT ![s].phase = "sending", ![s].on = socketMultiplexer]
       \/ /\ ~IsOpen(socketMultiplexer)
          /\ AttemptOver
          /\ sub' = [sub EXCEPT ![s].phase = "rejected"]
    /\ UNCHANGED <<manager, readyState, served>>

\* The promises that wait for the socket n move to phase p.
Settle(n, p) ==
    sub' = [s \in Subs |-> IF sub[s].phase = "opening" /\ sub[s].on = n
                           THEN [sub[s] EXCEPT !.phase = p] ELSE sub[s]]

\* onopen: the socket becomes the current one; after a loss every active key is
\* requested over it (resubscribeAll).
OnOpen(n) ==
    /\ TaskMayStart
    /\ readyState[n] = "connecting"
    /\ readyState' = [readyState EXCEPT ![n] = "open"]
    /\ socketMultiplexer' = n
    /\ connecting' = FALSE
    /\ \/ isReconnecting /\ Request(n, activeSubscriptions)
       \/ ~isReconnecting /\ UNCHANGED served
    /\ isReconnecting' = FALSE
    /\ Settle(n, "sending")
    /\ UNCHANGED <<listeners, activeSubscriptions, pendingUnsubscribes>>

\* onerror of an attempt; the close event follows in the same task.
OnError(n) ==
    /\ TaskMayStart
    /\ readyState[n] = "connecting"
    /\ readyState' = [readyState EXCEPT ![n] = "failed"]
    /\ connecting' = FALSE
    /\ Settle(n, "rejected")
    /\ UNCHANGED <<socketMultiplexer, isReconnecting, listeners, activeSubscriptions,
                   pendingUnsubscribes, served>>

\* The peer's close frame: CLOSING, and the close event is still to come.
StartClosing(n) ==
    /\ TaskMayStart
    /\ readyState[n] = "open"
    /\ readyState' = [readyState EXCEPT ![n] = "closing"]
    /\ UNCHANGED <<manager, sub, served>>

\* onclose: handleWebSocketClose, whichever socket it is.  The backend may be
\* slower (Departs).
OnClose(n) ==
    /\ \/ readyState[n] = "failed"
       \/ readyState[n] \in {"open", "closing"} /\ TaskMayStart
    /\ \A s \in Subs : sub[s].phase \notin {"sending", "rejected"}
    /\ readyState' = [readyState EXCEPT ![n] = "closed"]
    /\ socketMultiplexer' = 0
    /\ connecting' = FALSE
    /\ isReconnecting' = (activeSubscriptions # {})
    /\ UNCHANGED <<listeners, activeSubscriptions, pendingUnsubscribes, sub, served>>

\* The backend closes the connections of a socket that is gone.
Departs(n) ==
    /\ readyState[n] \in {"closing", "closed"}
    /\ served[n] # {}
    /\ served' = [served EXCEPT ![n] = {}]
    /\ UNCHANGED <<manager, sub, readyState>>

\* The watch of a key ends: the cluster's timeout, or a CLOSE of another tab.
WatchEnds(n, k) ==
    /\ k \in served[n]
    /\ served' = [served EXCEPT ![n] = @ \ {k}]
    /\ UNCHANGED <<manager, sub, readyState>>

\* Mutant: the timer does not look whether somebody listens again.
NeverHeardAgain(k) == FALSE

HeardAgain(k) == listeners[k] # {}

\* Mutant: the timer is set again for as long as the key is active.
TimeoutRearms(k) ==
    /\ TaskMayStart
    /\ k \in pendingUnsubscribes
    /\ HeardAgain(k) \/ k \notin activeSubscriptions
    /\ pendingUnsubscribes' = pendingUnsubscribes \ {k}
    /\ UNCHANGED <<socketMultiplexer, connecting, isReconnecting, listeners,
                   activeSubscriptions, sub, readyState, served>>

\* The debounce timer of a key: CLOSE, unless somebody listens again.
Timeout(k) ==
    /\ TaskMayStart
    /\ k \in pendingUnsubscribes
    /\ pendingUnsubscribes' = pendingUnsubscribes \ {k}
    /\ \/ /\ ~HeardAgain(k)
          /\ activeSubscriptions' = activeSubscriptions \ {k}
          /\ served' = IF IsOpen(socketMultiplexer) THEN Withdrawn(k) ELSE served
       \/ /\ HeardAgain(k)
          /\ UNCHANGED <<activeSubscriptions, served>>
    /\ UNCHANGED <<socketMultiplexer, connecting, isReconnecting, listeners, sub, readyState>>

Next ==
    \/ \E s \in Subs : Mount(s) \/ Unmount(s) \/ Continue(s) \/ Rejected(s) \/ Poll(s)
    \/ \E n \in Sockets : OnOpen(n) \/ OnError(n) \/ StartClosing(n) \/ OnClose(n)
    \/ \E n \in Sockets : Departs(n) \/ \E k \in Keys : WatchEnds(n, k)
    \/ \E k \in Keys : Timeout(k)

(***************************************************************************)
(* Continuations and timers run, an attempt ends some day, as the comment  *)
(* on connect() assumes, and a socket that is going away closes.           *)
(***************************************************************************)
Fairness ==
    /\ \A s \in Subs : WF_vars(Continue(s)) /\ WF_vars(Rejected(s)) /\ WF_vars(Poll(s))
    /\ \A n \in Sockets : /\ WF_vars(OnOpen(n) \/ OnError(n))
                          /\ WF_vars(readyState[n] \in {"failed", "closing"} /\ OnClose(n))
    /\ \A k \in Keys : WF_vars(Timeout(k))

Spec == Init /\ [][Next]_vars

FairSpec == Spec /\ Fairness

-----------------------------------------------------------------------------
\* The current socket can carry messages.
Up == IsOpen(socketMultiplexer)

(***************************************************************************)
(* An effect has run twice for the key with one callback.  The cleanup of  *)
(* a run that was cancelled while it waited comes after the next run, and  *)
(* takes the callback of that one.                                         *)
(***************************************************************************)
Rerun(k) ==
    \E s, t \in Subs :
        /\ s # t /\ CallbackOf[s] = CallbackOf[t]
        /\ KeyOf[s] = k /\ KeyOf[t] = k
        /\ sub[s].phase # "new" /\ sub[t].phase # "new"

(***************************************************************************)
(* Nothing lingers, unless an effect was run again: a key the backend      *)
(* serves over the current socket is an active subscription, and an active *)
(* subscription has a listener or a timer that will remove it, although    *)
(* unsubscribe clears timers, too, and sockets come and go.                *)
(***************************************************************************)
NothingLingers ==
    \A k \in Keys :
        \/ Rerun(k)
        \/ /\ Up /\ k \in served[socketMultiplexer] => k \in activeSubscriptions
           /\ k \in activeSubscriptions => listeners[k] # {} \/ k \in pendingUnsubscribes

(***************************************************************************)
(* What is heard will be resumed: the debounce timer of an earlier         *)
(* component never takes a key with listeners off the list of what is      *)
(* requested again, and while a live subscription is registered, a socket  *)
(* it may be on is still there or the next one resubscribes.               *)
(***************************************************************************)
Heard(s) == sub[s].phase = "live" /\ CallbackOf[s] \in listeners[KeyOf[s]]

HeardIsResumed ==
    /\ \A k \in Keys : listeners[k] # {} => k \in activeSubscriptions
    /\ (\E s \in Subs : Heard(s)) =>
          isReconnecting \/ \E n \in Sockets : readyState[n] \in {"open", "closing"}

(***************************************************************************)
(* subscribe comes to an end: connect() resolves or rejects for everybody, *)
(* the pollers of somebody else's attempt included.                        *)
(***************************************************************************)
SubscribeSettles ==
    \A s \in Subs : (sub[s].phase \in Waiting) ~> (sub[s].phase \notin Waiting)

(***************************************************************************)
(* A key nobody listens to any more is withdrawn from the backend: the     *)
(* debounced CLOSE is sent, or the socket is gone, or somebody is back.    *)
(* Keys whose effect was run again are left out, as in NothingLingers.     *)
(***************************************************************************)
UnheardIsWithdrawn ==
    \A k \in Keys :
        (Up /\ listeners[k] = {}) ~>
        (listeners[k] # {} \/ ~Up \/ k \notin served[socketMultiplexer] \/ Rerun(k))

-----------------------------------------------------------------------------
(***************************************************************************)
(* What comments of the code say and the code does not keep.               *)
(*                                                                         *)
(* "If no listeners remain, sets a timeout before actually unsubscribing"  *)
(* (unsubscribe): an active key that nobody listens to has a timer.  A run *)
(* of an effect that is cancelled while it waits removes the callback of   *)
(* the next run and sets the timer; the cleanup of the next run clears it  *)
(* and sets none, as it finds no listeners.                                *)
(***************************************************************************)
UnheardIsTimed ==
    \A k \in Keys : k \in activeSubscriptions /\ listeners[k] = {} => k \in pendingUnsubscribes

(***************************************************************************)
(* "Provides a singleton-like interface for managing WebSocket             *)
(* connections": no second socket is opened beside the one in use.  An     *)
(* effect that runs during a closing handshake opens one, and the close    *)
(* event of the old socket then makes the manager forget the new one.      *)
(***************************************************************************)
OneSocket ==
    \A m, n \in Sockets :
        /\ readyState[n] = "open" => socketMultiplexer = n
        /\ readyState[m] \in {"connecting", "open"} /\ readyState[n] \in {"connecting", "open"}
              => m = n

(***************************************************************************)
(* "Cleanup subscriptions when effect re-runs or unmounts"                 *)
(* (useKubeObjectList.ts, useWatchKubeObjectListsMultiplexed): no callback *)
(* of an unmounted effect stays registered once its promise has settled.   *)
(***************************************************************************)
UnmountedIsForgotten ==
    \A s \in Subs : sub[s].phase = "lost" => CallbackOf[s] \notin listeners[KeyOf[s]]

(***************************************************************************)
(* A live subscription hears what the backend sends for its key            *)
(* (handleWebSocketMessage): its callback is registered.                   *)
(***************************************************************************)
LiveIsHeard == \A s \in Subs : sub[s].phase = "live" => Heard(s)

=============================================================================
