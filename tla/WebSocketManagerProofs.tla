----------------------- MODULE WebSocketManagerProofs -----------------------
(***************************************************************************)
(* Proofs about WebSocketManager, for any number of keys, subscriptions    *)
(* and sockets: its types, that nothing lingers, and that what is heard    *)
(* will be resumed.                                                        *)
(***************************************************************************)
EXTENDS WebSocketManager, TLAPS

\* A subscription that waits or is live has its callback registered, unless its
\* effect was run again.
ListenInv ==
    \A s \in Subs : sub[s].phase \in Waiting \cup {"live"} =>
        CallbackOf[s] \in listeners[KeyOf[s]] \/ Rerun(KeyOf[s])

\* What has a listener is active.
ActiveInv == \A k \in Keys : listeners[k] # {} => k \in activeSubscriptions

\* A socket that has not opened serves nothing and is not the current one.
FreshInv ==
    \A n \in Sockets : readyState[n] \in {"unused", "connecting"} =>
        served[n] = {} /\ socketMultiplexer # n

KeyInv ==
    /\ TypeOK
    /\ ListenInv
    /\ ActiveInv
    /\ FreshInv
    /\ NothingLingers

\* A promise that resolved is continued while its socket is open.
SendInv == \A s \in Subs : sub[s].phase = "sending" => IsOpen(sub[s].on)

\* The cleanup of a live subscription ends it.
LiveInv == \A s \in Subs : sub[s].phase = "live" => ~sub[s].cancelled

\* A registered live subscription is on a socket that is not closed yet, or will
\* be resumed.
ResumeInv ==
    (\E s \in Subs : Heard(s)) =>
        isReconnecting \/ \E n \in Sockets : readyState[n] \in {"open", "closing"}

SocketInv ==
    /\ SendInv
    /\ LiveInv
    /\ ResumeInv

-----------------------------------------------------------------------------
(***************************************************************************)
(* The types.                                                              *)
(***************************************************************************)
LEMMA SocketType == Sockets \subseteq Nat \ {0}
BY BoundsAssumption DEF Sockets

LEMMA InitKeys == Init => KeyInv
<1> SUFFICES ASSUME Init PROVE KeyInv
  OBVIOUS
<1> USE DEF Init
<1>1. TypeOK
  BY DEF TypeOK, Sub, Phases, States
<1>2. ListenInv
  BY DEF ListenInv, Waiting
<1>3. ActiveInv
  BY SubsAssumption DEF ActiveInv
<1>4. FreshInv
  BY SocketType DEF FreshInv
<1>5. NothingLingers
  BY DEF NothingLingers, Up, IsOpen
<1> QED BY <1>1, <1>2, <1>3, <1>4, <1>5 DEF KeyInv

\* unsubscribe takes the callback of s away and leaves the other keys alone.
LEMMA UnsubscribeEffect ==
    ASSUME TypeOK, NEW s \in Subs, Unsubscribe(s)
    PROVE  /\ listeners' \in [Keys -> SUBSET Callbacks]
           /\ pendingUnsubscribes' \subseteq Keys
           /\ \A k \in Keys : k # KeyOf[s] =>
                /\ listeners'[k] = listeners[k]
                /\ k \in pendingUnsubscribes' <=> k \in pendingUnsubscribes
           /\ listeners'[KeyOf[s]] = listeners[KeyOf[s]] \ {CallbackOf[s]}
           /\ listeners[KeyOf[s]] # {} /\ listeners'[KeyOf[s]] = {} => KeyOf[s] \in pendingUnsubscribes'
<1>1. KeyOf[s] \in Keys
  BY SubsAssumption
<1>2. listeners' = [listeners EXCEPT ![KeyOf[s]] = listeners[KeyOf[s]] \ {CallbackOf[s]}]
  BY DEF Unsubscribe
<1>3. pendingUnsubscribes' = TimersAfter(KeyOf[s], listeners[KeyOf[s]] \ {CallbackOf[s]})
  BY DEF Unsubscribe
<1>4. listeners' \in [Keys -> SUBSET Callbacks]
  BY <1>1, <1>2 DEF TypeOK
<1>5. listeners'[KeyOf[s]] = listeners[KeyOf[s]] \ {CallbackOf[s]}
  BY <1>1, <1>2 DEF TypeOK
<1>6. \A k \in Keys : k # KeyOf[s] => listeners'[k] = listeners[k]
  BY <1>2 DEF TypeOK
<1>7. pendingUnsubscribes' \subseteq Keys
  BY <1>1, <1>3 DEF TypeOK, TimersAfter
<1>8. \A k \in Keys : k # KeyOf[s] => (k \in pendingUnsubscribes' <=> k \in pendingUnsubscribes)
  BY <1>3 DEF TimersAfter
<1>9. listeners[KeyOf[s]] # {} /\ listeners'[KeyOf[s]] = {} => KeyOf[s] \in pendingUnsubscribes'
  BY <1>3, <1>5 DEF TimersAfter
<1> QED BY <1>4, <1>5, <1>6, <1>7, <1>8, <1>9

\* A REQUEST adds keys to one socket, of those that were asked for.
LEMMA RequestEffect ==
    ASSUME TypeOK, NEW n \in Sockets, NEW keys \in SUBSET Keys, Request(n, keys)
    PROVE  /\ served' \in [Sockets -> SUBSET Keys]
           /\ \A m \in Sockets : m # n => served'[m] = served[m]
           /\ served'[n] \subseteq served[n] \cup keys
<1>1. PICK new \in SUBSET {k \in keys : ~Busy(PathOf[k])} :
         served' = [served EXCEPT ![n] = served[n] \cup new]
  BY DEF Request
<1>2. new \subseteq keys
  BY <1>1
<1> QED BY <1>1, <1>2 DEF TypeOK

\* Neither a CLOSE nor the end of a socket or of a watch adds anything.
LEMMA WithdrawnEffect ==
    ASSUME TypeOK, NEW k \in Keys
    PROVE  /\ Withdrawn(k) \in [Sockets -> SUBSET Keys]
           /\ \A n \in Sockets : Withdrawn(k)[n] \subseteq served[n] \ {k}
BY DEF Withdrawn, TypeOK

LEMMA NextType == TypeOK /\ [Next]_vars => TypeOK'
<1> SUFFICES ASSUME TypeOK, [Next]_vars PROVE TypeOK'
  OBVIOUS
<1>1. ASSUME NEW s \in Subs, Mount(s) PROVE TypeOK'
  <2>1. KeyOf[s] \in Keys /\ CallbackOf[s] \in Callbacks
    BY SubsAssumption
  <2>2. listeners' \in [Keys -> SUBSET Callbacks] /\ activeSubscriptions' \subseteq Keys
    BY <1>1, <2>1 DEF Mount, TypeOK
  <2>3. sub' \in [Subs -> Sub]
    <3>1. CASE UseOpenSocket(s)
      BY <3>1 DEF UseOpenSocket, IsOpen, TypeOK, Sub, Phases
    <3>2. CASE PollAttempt(s)
      BY <3>2 DEF PollAttempt, TypeOK, Sub, Phases
    <3>3. CASE OpenNewSocket(s)
      BY <3>3 DEF OpenNewSocket, TypeOK, Sub, Phases
    <3>4. CASE ConstructorThrows(s)
      BY <3>4 DEF ConstructorThrows, TypeOK, Sub, Phases
    <3> QED BY <1>1, <3>1, <3>2, <3>3, <3>4 DEF Mount
  <2>4. readyState' \in [Sockets -> States] /\ served' = served
    BY <1>1 DEF Mount, UseOpenSocket, PollAttempt, OpenNewSocket, ConstructorThrows, TypeOK, States
  <2>5. connecting' \in BOOLEAN
    BY <1>1, Zenon DEF Mount, UseOpenSocket, PollAttempt, OpenNewSocket, ConstructorThrows, TypeOK
  <2>6. UNCHANGED <<socketMultiplexer, isReconnecting, pendingUnsubscribes>>
    BY <1>1 DEF Mount
  <2> QED BY <2>2, <2>3, <2>4, <2>5, <2>6, Zenon DEF TypeOK
<1>2. ASSUME NEW s \in Subs, Unmount(s) \/ Continue(s) \/ Rejected(s) PROVE TypeOK'
  <2>1. sub' \in [Subs -> Sub]
    <3>1. CASE Unmount(s)
      <4>1. \/ sub' = [sub EXCEPT ![s].cancelled = TRUE]
            \/ \E p \in {"gone", "lost"} : sub' = [sub EXCEPT ![s].phase = p]
        BY <3>1 DEF Unmount
      <4>2. CASE sub' = [sub EXCEPT ![s].cancelled = TRUE]
        BY <4>2 DEF TypeOK, Sub
      <4>3. ASSUME NEW p \in {"gone", "lost"}, sub' = [sub EXCEPT ![s].phase = p]
            PROVE  sub' \in [Subs -> Sub]
        BY <4>3 DEF TypeOK, Sub, Phases
      <4> QED BY <4>1, <4>2, <4>3
    <3>2. CASE Continue(s)
      BY <3>2 DEF Continue, TypeOK, Sub, Phases
    <3>3. CASE Rejected(s)
      BY <3>3 DEF Rejected, TypeOK, Sub, Phases
    <3> QED BY <1>2, <3>1, <3>2, <3>3
  <2>2. Unsubscribe(s) \/ UNCHANGED <<listeners, pendingUnsubscribes>>
    BY <1>2 DEF Unmount, Continue, Rejected
  <2>3. listeners' \in [Keys -> SUBSET Callbacks] /\ pendingUnsubscribes' \subseteq Keys
    BY <2>2, UnsubscribeEffect DEF TypeOK
  <2>4. served' \in [Sockets -> SUBSET Keys]
    <3>1. CASE Continue(s) /\ IsOpen(sub[s].on)
      <4>1. sub[s].on \in Sockets /\ {KeyOf[s]} \in SUBSET Keys
        BY <3>1, SubsAssumption DEF IsOpen, TypeOK, Sub
      <4>2. Request(sub[s].on, {KeyOf[s]})
        BY <3>1 DEF Continue
      <4> QED BY <4>1, <4>2, RequestEffect
    <3>2. CASE ~(Continue(s) /\ IsOpen(sub[s].on))
      BY <1>2, <3>2 DEF Unmount, Continue, Rejected, TypeOK
    <3> QED BY <3>1, <3>2
  <2>5. UNCHANGED <<socketMultiplexer, connecting, isReconnecting, activeSubscriptions, readyState>>
    BY <1>2 DEF Unmount, Continue, Rejected
  <2> QED BY <2>1, <2>3, <2>4, <2>5, Zenon DEF TypeOK
<1>3. ASSUME NEW s \in Subs, Poll(s) PROVE TypeOK'
  <2>1. sub' \in [Subs -> Sub]
    BY <1>3 DEF Poll, TypeOK, Sub, Phases
  <2>2. UNCHANGED <<manager, readyState, served>>
    BY <1>3 DEF Poll
  <2> QED BY <2>1, <2>2, Zenon DEF TypeOK, manager
<1>4. ASSUME NEW n \in Sockets, OnOpen(n) \/ OnError(n) PROVE TypeOK'
  <2>1. sub' \in [Subs -> Sub]
    BY <1>4 DEF OnOpen, OnError, Settle, TypeOK, Sub, Phases
  <2>2. readyState' \in [Sockets -> States] /\ socketMultiplexer' \in Sockets \cup {0}
    BY <1>4 DEF OnOpen, OnError, TypeOK, States
  <2>3. served' \in [Sockets -> SUBSET Keys]
    <3>1. CASE Request(n, activeSubscriptions)
      BY <3>1, RequestEffect DEF TypeOK
    <3>2. CASE served' = served
      BY <3>2 DEF TypeOK
    <3> QED BY <1>4, <3>1, <3>2 DEF OnOpen, OnError
  <2>4. connecting' \in BOOLEAN /\ isReconnecting' \in BOOLEAN
    BY <1>4, Zenon DEF OnOpen, OnError, TypeOK
  <2>5. UNCHANGED <<listeners, activeSubscriptions, pendingUnsubscribes>>
    BY <1>4 DEF OnOpen, OnError
  <2> QED BY <2>1, <2>2, <2>3, <2>4, <2>5, Zenon DEF TypeOK
<1>5. ASSUME NEW n \in Sockets, StartClosing(n) PROVE TypeOK'
  <2>1. readyState' \in [Sockets -> States]
    BY <1>5 DEF StartClosing, TypeOK, States
  <2>2. UNCHANGED <<manager, sub, served>>
    BY <1>5 DEF StartClosing
  <2> QED BY <2>1, <2>2, Zenon DEF TypeOK, manager
<1>6. ASSUME NEW n \in Sockets, OnClose(n) PROVE TypeOK'
  <2>1. readyState' \in [Sockets -> States]
    BY <1>6 DEF OnClose, TypeOK, States
  <2>2. connecting' \in BOOLEAN /\ isReconnecting' \in BOOLEAN /\ socketMultiplexer' \in Sockets \cup {0}
    BY <1>6, Zenon DEF OnClose
  <2>3. UNCHANGED <<listeners, activeSubscriptions, pendingUnsubscribes, sub, served>>
    BY <1>6 DEF OnClose
  <2> QED BY <2>1, <2>2, <2>3, Zenon DEF TypeOK
<1>7. ASSUME NEW k \in Keys, Timeout(k) PROVE TypeOK'
  <2>1. activeSubscriptions' \subseteq Keys /\ pendingUnsubscribes' \subseteq Keys
    BY <1>7 DEF Timeout, TypeOK
  <2>2. served' \in [Sockets -> SUBSET Keys]
    BY <1>7, WithdrawnEffect DEF Timeout, TypeOK
  <2>3. UNCHANGED <<socketMultiplexer, connecting, isReconnecting, listeners, sub, readyState>>
    BY <1>7 DEF Timeout
  <2> QED BY <2>1, <2>2, <2>3, Zenon DEF TypeOK
<1>8. ASSUME NEW n \in Sockets, Departs(n) \/ \E k \in Keys : WatchEnds(n, k) PROVE TypeOK'
  <2>1. served' \in [Sockets -> SUBSET Keys]
    BY <1>8 DEF Departs, WatchEnds, TypeOK
  <2>2. UNCHANGED <<manager, sub, readyState>>
    BY <1>8 DEF Departs, WatchEnds
  <2> QED BY <2>1, <2>2, Zenon DEF TypeOK, manager
<1>9. CASE UNCHANGED vars
  BY <1>9, Zenon DEF vars, manager, TypeOK
<1> QED BY <1>1, <1>2, <1>3, <1>4, <1>5, <1>6, <1>7, <1>8, <1>9 DEF Next

(***************************************************************************)
(* Every variable of the manager keeps its type.                           *)
(***************************************************************************)
THEOREM TypeCorrect == Spec => []TypeOK
<1>1. Init => TypeOK
  BY InitKeys DEF KeyInv
<1> QED BY <1>1, NextType, PTL DEF Spec

-----------------------------------------------------------------------------
(***************************************************************************)
(* Keys, callbacks and timers.                                             *)
(***************************************************************************)
\* The effects of the steps on where the promises stand.
LEMMA MountEffect ==
    ASSUME TypeOK, NEW s \in Subs, Mount(s)
    PROVE  /\ sub'[s].phase \in Waiting
           /\ \A t \in Subs : t # s => sub'[t] = sub[t]
           /\ sub'[s].phase = "sending" => IsOpen(sub'[s].on)
           /\ served' = served
           /\ \A n \in Sockets : \/ readyState'[n] = readyState[n]
                                 \/ readyState[n] = "unused" /\ readyState'[n] = "connecting"
<1>1. CASE UseOpenSocket(s)
  BY <1>1 DEF UseOpenSocket, TypeOK, Waiting
<1>2. CASE PollAttempt(s)
  BY <1>2 DEF PollAttempt, TypeOK, Waiting
<1>3. CASE OpenNewSocket(s)
  <2>1. PICK n \in Sockets :
           /\ readyState[n] = "unused"
           /\ readyState' = [readyState EXCEPT ![n] = "connecting"]
           /\ sub' = [sub EXCEPT ![s] = [phase |-> "opening", on |-> n, cancelled |-> FALSE]]
    BY <1>3 DEF OpenNewSocket
  <2>2. served' = served
    BY <1>3 DEF OpenNewSocket
  <2>3. \A m \in Sockets : \/ readyState'[m] = readyState[m]
                           \/ readyState[m] = "unused" /\ readyState'[m] = "connecting"
    BY <2>1 DEF TypeOK
  <2>4. sub'[s].phase = "opening" /\ \A t \in Subs : t # s => sub'[t] = sub[t]
    BY <2>1 DEF TypeOK
  <2> QED BY <2>2, <2>3, <2>4 DEF Waiting
<1>4. CASE ConstructorThrows(s)
  BY <1>4 DEF ConstructorThrows, TypeOK, Waiting
<1> QED BY <1>1, <1>2, <1>3, <1>4 DEF Mount

LEMMA CleanupEffect ==
    ASSUME TypeOK, NEW s \in Subs, Unmount(s) \/ Continue(s) \/ Rejected(s)
    PROVE  /\ \A t \in Subs : t # s => sub'[t] = sub[t]
           /\ sub[s].phase \in Waiting \cup {"live", "failed"}
           /\ \/ /\ Unsubscribe(s)
                 /\ sub'[s].phase \in {"gone", "failed"}
                 /\ sub[s].phase \in Waiting \cup {"live"}
              \/ /\ UNCHANGED <<listeners, pendingUnsubscribes>>
                 /\ \/ sub'[s].phase \in {"live", "failed", "lost", "gone"}
                    \/ sub'[s].phase = sub[s].phase /\ sub'[s].on = sub[s].on
<1> USE DEF TypeOK, Waiting, Sub
<1>1. CASE Unmount(s)
  <2>1. CASE sub[s].phase \in Waiting
    BY <1>1, <2>1 DEF Unmount
  <2>2. CASE sub[s].phase = "live"
    BY <1>1, <2>2 DEF Unmount
  <2>3. CASE sub[s].phase = "failed"
    BY <1>1, <2>3 DEF Unmount
  <2> QED BY <1>1, <2>1, <2>2, <2>3 DEF Unmount
<1>2. CASE Continue(s)
  <2>1. CASE ~sub[s].cancelled
    BY <1>2, <2>1 DEF Continue
  <2>2. CASE sub[s].cancelled /\ KindOf[s] = "hook"
    BY <1>2, <2>2 DEF Continue
  <2>3. CASE sub[s].cancelled /\ KindOf[s] = "list"
    BY <1>2, <2>3 DEF Continue
  <2> QED BY <1>2, <2>1, <2>2, <2>3 DEF Continue
<1>3. CASE Rejected(s)
  <2>1. CASE KindOf[s] = "hook"
    BY <1>3, <2>1 DEF Rejected
  <2>2. CASE KindOf[s] = "list"
    BY <1>3, <2>2 DEF Rejected
  <2> QED BY <1>3, <2>1, <2>2 DEF Rejected
<1> QED BY <1>1, <1>2, <1>3

LEMMA SettleEffect ==
    ASSUME TypeOK, NEW n \in Sockets, NEW p \in {"sending", "rejected"}, Settle(n, p)
    PROVE  \A s \in Subs :
              \/ sub[s].phase = "opening" /\ sub[s].on = n /\ sub'[s].phase = p /\ sub'[s].on = n
              \/ sub'[s] = sub[s]
BY DEF Settle, TypeOK, Sub

\* No effect is new again, so that what was run again stays so.
LEMMA RerunStays ==
    ASSUME \A s \in Subs : sub[s].phase # "new" => sub'[s].phase # "new", NEW k \in Keys, Rerun(k)
    PROVE  Rerun(k)'
BY DEF Rerun

\* The part of the invariant beside the types.
KeyRelations == ListenInv /\ ActiveInv /\ FreshInv /\ NothingLingers

LEMMA MountKeys ==
    ASSUME KeyInv, NEW s \in Subs, Mount(s)
    PROVE  KeyRelations'
<1>1. TypeOK /\ ListenInv /\ ActiveInv /\ FreshInv /\ NothingLingers
  BY DEF KeyInv
<1>2. KeyOf \in [Subs -> Keys] /\ KeyOf[s] \in Keys
  BY SubsAssumption
<1>3. listeners'[KeyOf[s]] = listeners[KeyOf[s]] \cup {CallbackOf[s]}
  BY <1>1, <1>2 DEF Mount, TypeOK
<1>4. \A k \in Keys : k # KeyOf[s] => listeners'[k] = listeners[k]
  BY <1>1 DEF Mount, TypeOK
<1>5. /\ activeSubscriptions' = activeSubscriptions \cup {KeyOf[s]}
      /\ UNCHANGED <<socketMultiplexer, isReconnecting, pendingUnsubscribes>>
  BY DEF Mount
<1>6. \A k \in Keys : Rerun(k) => Rerun(k)'
  <2>1. \A t \in Subs : sub[t].phase # "new" => sub'[t].phase # "new"
    BY <1>1, MountEffect DEF Waiting
  <2> QED BY <2>1, RerunStays
<1>7. ListenInv'
  <2> SUFFICES ASSUME NEW t \in Subs, sub'[t].phase \in Waiting \cup {"live"}
               PROVE  CallbackOf[t] \in listeners'[KeyOf[t]] \/ Rerun(KeyOf[t])'
    BY DEF ListenInv
  <2>1. CASE t = s
    BY <1>3, <2>1
  <2>2. CASE t # s
    <3>1. CallbackOf[t] \in listeners[KeyOf[t]] \/ Rerun(KeyOf[t])
      BY <1>1, <2>2, MountEffect DEF ListenInv
    <3> QED BY <1>2, <1>3, <1>4, <1>6, <3>1
  <2> QED BY <2>1, <2>2
<1>8. ActiveInv'
  BY <1>1, <1>4, <1>5 DEF ActiveInv
<1>9. FreshInv'
  BY <1>1, <1>5, MountEffect DEF FreshInv
<1>10. NothingLingers'
  <2>1. Up' => Up
    <3>1. \A n \in Sockets : readyState'[n] = "open" => readyState[n] = "open"
      BY <1>1, MountEffect
    <3> QED BY <1>1, <1>5, <3>1 DEF Up, IsOpen, TypeOK
  <2>2. ASSUME NEW k \in Keys, ~Rerun(k)
        PROVE  /\ Up' /\ k \in served'[socketMultiplexer'] => k \in activeSubscriptions'
               /\ k \in activeSubscriptions' => listeners'[k] # {} \/ k \in pendingUnsubscribes'
    BY <1>1, <1>3, <1>4, <1>5, <2>1, <2>2, MountEffect DEF NothingLingers
  <2> QED BY <1>6, <2>2 DEF NothingLingers
<1> QED BY <1>7, <1>8, <1>9, <1>10 DEF KeyRelations

\* What a continuation asks the backend for.
LEMMA CleanupServes ==
    ASSUME TypeOK, NEW s \in Subs, Unmount(s) \/ Continue(s) \/ Rejected(s)
    PROVE  \A n \in Sockets :
              \/ served'[n] = served[n]
              \/ /\ readyState[n] = "open"
                 /\ served'[n] \subseteq served[n] \cup {KeyOf[s]}
                 /\ sub[s].phase = "sending"
<1>1. CASE Continue(s) /\ IsOpen(sub[s].on)
  <2>1. sub[s].on \in Sockets /\ {KeyOf[s]} \in SUBSET Keys /\ readyState[sub[s].on] = "open"
    BY <1>1, SubsAssumption DEF IsOpen, TypeOK, Sub
  <2>2. Request(sub[s].on, {KeyOf[s]}) /\ sub[s].phase = "sending"
    BY <1>1 DEF Continue
  <2> QED BY <2>1, <2>2, RequestEffect
<1>2. CASE ~(Continue(s) /\ IsOpen(sub[s].on))
  BY <1>2 DEF Unmount, Continue, Rejected
<1> QED BY <1>1, <1>2

\* What a cleanup or a continuation does to the callbacks.
LEMMA CleanupKeys ==
    ASSUME KeyInv, NEW s \in Subs, Unmount(s) \/ Continue(s) \/ Rejected(s)
    PROVE  KeyRelations'
<1>1. TypeOK /\ ListenInv /\ ActiveInv /\ FreshInv /\ NothingLingers
  BY DEF KeyInv
<1>2. KeyOf \in [Subs -> Keys] /\ KeyOf[s] \in Keys
  BY SubsAssumption
<1>3. UNCHANGED <<socketMultiplexer, activeSubscriptions, readyState>>
  BY DEF Unmount, Continue, Rejected
<1>4. \/ /\ Unsubscribe(s)
         /\ sub'[s].phase \in {"gone", "failed"}
         /\ sub[s].phase \in Waiting \cup {"live"}
      \/ UNCHANGED <<listeners, pendingUnsubscribes>>
  BY <1>1, CleanupEffect
<1>5. \A k \in Keys : listeners'[k] \subseteq listeners[k]
  BY <1>1, <1>2, <1>4, UnsubscribeEffect
<1>6. \A k \in Keys : Rerun(k) => Rerun(k)'
  <2>1. \A t \in Subs : sub[t].phase # "new" => sub'[t].phase # "new"
    BY <1>1, CleanupEffect DEF Waiting
  <2> QED BY <2>1, RerunStays
<1>7. ListenInv'
  <2> SUFFICES ASSUME NEW t \in Subs, sub'[t].phase \in Waiting \cup {"live"}, ~Rerun(KeyOf[t])'
               PROVE  CallbackOf[t] \in listeners'[KeyOf[t]]
    BY DEF ListenInv
  <2>1. KeyOf[t] \in Keys /\ ~Rerun(KeyOf[t])
    BY <1>2, <1>6
  <2>2. CASE t # s
    <3>1. CallbackOf[t] \in listeners[KeyOf[t]]
      BY <1>1, <2>1, <2>2, CleanupEffect DEF ListenInv
    <3>2. CASE Unsubscribe(s)
      <4>1. sub[s].phase # "new" /\ sub[t].phase # "new"
        BY <1>1, <2>2, CleanupEffect DEF Waiting
      <4>2. KeyOf[t] # KeyOf[s] \/ CallbackOf[t] # CallbackOf[s]
        BY <2>1, <2>2, <4>1 DEF Rerun
      <4> QED BY <1>1, <2>1, <3>1, <3>2, <4>2, UnsubscribeEffect
    <3>3. CASE UNCHANGED <<listeners, pendingUnsubscribes>>
      BY <3>1, <3>3
    <3> QED BY <1>4, <3>2, <3>3
  <2>3. CASE t = s
    <3>1. UNCHANGED <<listeners, pendingUnsubscribes>>
      BY <1>4, <2>3 DEF Waiting
    <3>2. sub[s].phase \in Waiting \cup {"live"}
      <4>1. sub[s].phase = "failed" => sub'[s].phase \in {"gone", "lost"}
        BY <1>1 DEF Unmount, Continue, Rejected, TypeOK, Waiting, Sub
      <4> QED BY <1>1, <2>3, <4>1, CleanupEffect DEF Waiting
    <3> QED BY <1>1, <2>1, <2>3, <3>1, <3>2 DEF ListenInv
  <2> QED BY <2>2, <2>3
<1>8. ActiveInv'
  BY <1>1, <1>3, <1>5 DEF ActiveInv
<1>9. FreshInv'
  BY <1>1, <1>3, CleanupServes DEF FreshInv
<1>10. NothingLingers'
  <2> SUFFICES ASSUME NEW k \in Keys, ~Rerun(k)
               PROVE  /\ Up' /\ k \in served'[socketMultiplexer'] => k \in activeSubscriptions'
                      /\ k \in activeSubscriptions' => listeners'[k] # {} \/ k \in pendingUnsubscribes'
    BY <1>6 DEF NothingLingers
  <2>1. ASSUME Up', k \in served'[socketMultiplexer'] PROVE k \in activeSubscriptions'
    <3>1. Up /\ socketMultiplexer \in Sockets
      BY <1>1, <1>3, <2>1 DEF Up, IsOpen, TypeOK
    <3>2. k \in served[socketMultiplexer] => k \in activeSubscriptions
      BY <1>1, <3>1 DEF NothingLingers
    <3>3. sub[s].phase = "sending" /\ k = KeyOf[s] => k \in activeSubscriptions
      BY <1>1, <1>2 DEF ListenInv, ActiveInv, Waiting
    <3> QED BY <1>1, <1>3, <2>1, <3>1, <3>2, <3>3, CleanupServes
  <2>2. ASSUME k \in activeSubscriptions'
        PROVE  listeners'[k] # {} \/ k \in pendingUnsubscribes'
    <3>1. listeners[k] # {} \/ k \in pendingUnsubscribes
      BY <1>1, <1>3, <2>2 DEF NothingLingers
    <3>2. CASE Unsubscribe(s) /\ sub[s].phase \in Waiting \cup {"live"} /\ k = KeyOf[s]
      <4>1. CallbackOf[s] \in listeners[KeyOf[s]]
        BY <1>1, <3>2 DEF ListenInv
      <4> QED BY <1>1, <3>2, <4>1, UnsubscribeEffect
    <3>3. CASE Unsubscribe(s) /\ k # KeyOf[s]
      BY <1>1, <3>1, <3>3, UnsubscribeEffect
    <3>4. CASE UNCHANGED <<listeners, pendingUnsubscribes>>
      BY <3>1, <3>4
    <3> QED BY <1>4, <3>2, <3>3, <3>4
  <2> QED BY <2>1, <2>2
<1> QED BY <1>7, <1>8, <1>9, <1>10 DEF KeyRelations

\* A step that leaves keys, callbacks and timers alone.
LEMMA QuietKeys ==
    ASSUME KeyInv,
           UNCHANGED <<listeners, activeSubscriptions, pendingUnsubscribes>>,
           \A s \in Subs : sub[s].phase # "new" => sub'[s].phase # "new",
           \A s \in Subs : sub'[s].phase \in Waiting \cup {"live"} => sub[s].phase \in Waiting \cup {"live"},
           Up' => \A k \in Keys : k \in served'[socketMultiplexer'] =>
                     k \in activeSubscriptions \/ (Up /\ k \in served[socketMultiplexer]),
           FreshInv'
    PROVE  KeyRelations'
<1>1. ListenInv /\ ActiveInv /\ NothingLingers
  BY DEF KeyInv
<1>2. \A k \in Keys : Rerun(k) => Rerun(k)'
  BY RerunStays
<1>3. ListenInv'
  BY <1>1, <1>2, SubsAssumption DEF ListenInv
<1>4. ActiveInv'
  BY <1>1 DEF ActiveInv
<1>5. NothingLingers'
  <2>1. ASSUME NEW k \in Keys, ~Rerun(k)
        PROVE  /\ Up' /\ k \in served'[socketMultiplexer'] => k \in activeSubscriptions'
               /\ k \in activeSubscriptions' => listeners'[k] # {} \/ k \in pendingUnsubscribes'
    BY <1>1, <2>1 DEF NothingLingers
  <2> QED BY <1>2, <2>1 DEF NothingLingers
<1> QED BY <1>3, <1>4, <1>5 DEF KeyRelations

LEMMA PollKeys ==
    ASSUME KeyInv, NEW s \in Subs, Poll(s)
    PROVE  KeyRelations'
<1>1. TypeOK /\ FreshInv
  BY DEF KeyInv
<1>2. /\ sub[s].phase = "polling"
      /\ \A t \in Subs : t # s => sub'[t] = sub[t]
      /\ sub'[s].phase # "new"
  BY <1>1 DEF Poll, TypeOK, Sub
<1>3. /\ UNCHANGED <<socketMultiplexer, listeners, activeSubscriptions, pendingUnsubscribes>>
      /\ UNCHANGED <<readyState, served>>
  BY DEF Poll, manager
<1>4. FreshInv' /\ (Up' <=> Up)
  BY <1>1, <1>3 DEF FreshInv, Up, IsOpen
<1>5. sub[s].phase \in Waiting
  BY <1>2 DEF Waiting
<1> QED BY <1>2, <1>3, <1>4, <1>5, QuietKeys

LEMMA AttemptKeys ==
    ASSUME KeyInv, NEW n \in Sockets, OnOpen(n) \/ OnError(n)
    PROVE  KeyRelations'
<1>1. TypeOK /\ FreshInv
  BY DEF KeyInv
<1>2. UNCHANGED <<listeners, activeSubscriptions, pendingUnsubscribes>>
  BY DEF OnOpen, OnError
<1>3. /\ \A s \in Subs : sub[s].phase # "new" => sub'[s].phase # "new"
      /\ \A s \in Subs : sub'[s].phase \in Waiting \cup {"live"} => sub[s].phase \in Waiting \cup {"live"}
  <2>1. \E p \in {"sending", "rejected"} : Settle(n, p)
    BY DEF OnOpen, OnError
  <2> QED BY <1>1, <2>1, SettleEffect DEF Waiting
<1>4. readyState[n] = "connecting" /\ served[n] = {} /\ socketMultiplexer # n
  BY <1>1 DEF OnOpen, OnError, FreshInv
<1>5. CASE OnOpen(n)
  <2>1. /\ readyState' = [readyState EXCEPT ![n] = "open"]
        /\ socketMultiplexer' = n
        /\ Request(n, activeSubscriptions) \/ served' = served
    BY <1>5 DEF OnOpen
  <2>2. /\ \A m \in Sockets : m # n => served'[m] = served[m] /\ readyState'[m] = readyState[m]
        /\ served'[n] \subseteq activeSubscriptions
        /\ readyState'[n] = "open"
    <3>1. CASE Request(n, activeSubscriptions)
      BY <1>1, <1>4, <2>1, <3>1, RequestEffect DEF TypeOK
    <3>2. CASE served' = served
      BY <1>1, <1>4, <2>1, <3>2 DEF TypeOK
    <3> QED BY <2>1, <3>1, <3>2
  <2>3. FreshInv'
    BY <1>1, <2>1, <2>2 DEF FreshInv
  <2>4. \A k \in Keys : k \in served'[socketMultiplexer'] => k \in activeSubscriptions
    BY <2>1, <2>2
  <2> QED BY <1>2, <1>3, <2>3, <2>4, QuietKeys
<1>6. CASE OnError(n)
  <2>1. /\ readyState' = [readyState EXCEPT ![n] = "failed"]
        /\ UNCHANGED <<socketMultiplexer, served>>
    BY <1>6 DEF OnError
  <2>2. FreshInv'
    BY <1>1, <2>1 DEF FreshInv, TypeOK
  <2>3. Up' => Up
    BY <1>1, <2>1 DEF Up, IsOpen, TypeOK
  <2>4. Up' => \A k \in Keys : k \in served'[socketMultiplexer'] => Up /\ k \in served[socketMultiplexer]
    BY <2>1, <2>3
  <2> QED BY <1>2, <1>3, <2>2, <2>4, QuietKeys
<1> QED BY <1>5, <1>6

LEMMA ClosingKeys ==
    ASSUME KeyInv, NEW n \in Sockets, StartClosing(n) \/ OnClose(n)
    PROVE  KeyRelations'
<1>1. TypeOK /\ FreshInv
  BY DEF KeyInv
<1>2. UNCHANGED <<listeners, activeSubscriptions, pendingUnsubscribes, sub, served>>
  BY DEF StartClosing, OnClose, manager
<1>3. /\ socketMultiplexer' \in {socketMultiplexer, 0}
      /\ \A m \in Sockets : m # n => readyState'[m] = readyState[m]
      /\ readyState'[n] \in {"closing", "closed"}
  BY <1>1 DEF StartClosing, OnClose, manager, TypeOK
<1>4. FreshInv'
  BY <1>1, <1>2, <1>3, SocketType DEF FreshInv
<1>5. Up' => Up /\ socketMultiplexer' = socketMultiplexer
  BY <1>1, <1>3 DEF Up, IsOpen, TypeOK
<1> QED BY <1>2, <1>4, <1>5, QuietKeys

LEMMA BackendKeys ==
    ASSUME KeyInv, NEW n \in Sockets, Departs(n) \/ \E k \in Keys : WatchEnds(n, k)
    PROVE  KeyRelations'
<1>1. TypeOK /\ FreshInv
  BY DEF KeyInv
<1>2. UNCHANGED <<manager, sub, readyState>>
  BY DEF Departs, WatchEnds
<1>3. \A m \in Sockets : served'[m] \subseteq served[m]
  BY <1>1 DEF Departs, WatchEnds, TypeOK
<1>4. /\ UNCHANGED <<socketMultiplexer, listeners, activeSubscriptions, pendingUnsubscribes>>
      /\ Up' <=> Up
  BY <1>2 DEF manager, Up, IsOpen
<1>5. FreshInv'
  BY <1>1, <1>2, <1>3, <1>4 DEF FreshInv
<1>6. Up => socketMultiplexer \in Sockets
  BY <1>1 DEF Up, IsOpen, TypeOK
<1> QED BY <1>2, <1>3, <1>4, <1>5, <1>6, QuietKeys

LEMMA TimeoutKeys ==
    ASSUME KeyInv, NEW k \in Keys, Timeout(k)
    PROVE  KeyRelations'
<1>1. TypeOK /\ ListenInv /\ ActiveInv /\ FreshInv /\ NothingLingers
  BY DEF KeyInv
<1>2. /\ UNCHANGED <<socketMultiplexer, listeners, sub, readyState>>
      /\ pendingUnsubscribes' = pendingUnsubscribes \ {k}
  BY DEF Timeout
<1>3. \A j \in Keys : Rerun(j)' <=> Rerun(j)
  BY <1>2 DEF Rerun
<1>4. ListenInv'
  BY <1>1, <1>2, <1>3, SubsAssumption DEF ListenInv
<1>5. \/ listeners[k] # {} /\ UNCHANGED <<activeSubscriptions, served>>
      \/ /\ listeners[k] = {}
         /\ activeSubscriptions' = activeSubscriptions \ {k}
         /\ \A n \in Sockets : served'[n] \subseteq served[n]
         /\ Up => \A n \in Sockets : k \notin served'[n]
  BY <1>1, WithdrawnEffect DEF Timeout, HeardAgain, Up
<1>6. Up => socketMultiplexer \in Sockets
  BY <1>1 DEF Up, IsOpen, TypeOK
<1>7. ActiveInv'
  BY <1>1, <1>2, <1>5 DEF ActiveInv
<1>8. FreshInv'
  BY <1>1, <1>2, <1>5 DEF FreshInv
<1>9. NothingLingers'
  <2>1. Up' <=> Up
    BY <1>2 DEF Up, IsOpen
  <2>2. ASSUME NEW j \in Keys, ~Rerun(j)
        PROVE  /\ Up' /\ j \in served'[socketMultiplexer'] => j \in activeSubscriptions'
               /\ j \in activeSubscriptions' => listeners'[j] # {} \/ j \in pendingUnsubscribes'
    <3>1. /\ Up /\ j \in served[socketMultiplexer] => j \in activeSubscriptions
          /\ j \in activeSubscriptions => listeners[j] # {} \/ j \in pendingUnsubscribes
      BY <1>1, <2>2 DEF NothingLingers
    <3>2. CASE listeners[k] # {}
      BY <1>2, <1>5, <2>1, <3>1, <3>2
    <3>3. CASE listeners[k] = {}
      BY <1>2, <1>5, <1>6, <2>1, <3>1, <3>3
    <3> QED BY <3>2, <3>3
  <2> QED BY <1>3, <2>2 DEF NothingLingers
<1> QED BY <1>4, <1>7, <1>8, <1>9 DEF KeyRelations

LEMMA NextKeys == KeyInv /\ [Next]_vars => KeyInv'
<1> SUFFICES ASSUME KeyInv, [Next]_vars PROVE KeyInv'
  OBVIOUS
<1>1. TypeOK'
  BY NextType DEF KeyInv
<1>2. CASE UNCHANGED vars
  BY <1>1, <1>2 DEF vars, manager, KeyInv, ListenInv, ActiveInv, FreshInv, NothingLingers, Rerun, Up, IsOpen
<1>3. CASE Next
  <2>1. KeyRelations'
    BY <1>3, MountKeys, CleanupKeys, PollKeys, AttemptKeys, ClosingKeys, BackendKeys, TimeoutKeys DEF Next
  <2> QED BY <1>1, <2>1 DEF KeyInv, KeyRelations
<1> QED BY <1>2, <1>3

LEMMA KeysHold == Spec => []KeyInv
BY InitKeys, NextKeys, PTL DEF Spec

(***************************************************************************)
(* Whatever the order of mounts, cleanups, promises, socket events and     *)
(* debounce timers: what the backend serves is an active subscription, and *)
(* an active subscription has a listener or a timer that will remove it,   *)
(* except for a key whose effect was run again.                            *)
(***************************************************************************)
THEOREM NothingIsLeftBehind == Spec => []NothingLingers
BY KeysHold, PTL DEF KeyInv

-----------------------------------------------------------------------------
(***************************************************************************)
(* Sockets and live subscriptions.                                         *)
(***************************************************************************)
LEMMA InitSockets == Init => SocketInv
BY DEF Init, SocketInv, SendInv, LiveInv, ResumeInv, Heard

LEMMA MountSockets ==
    ASSUME KeyInv, SocketInv, NEW s \in Subs, Mount(s)
    PROVE  SocketInv'
<1>1. TypeOK /\ SendInv /\ LiveInv /\ ResumeInv
  BY DEF KeyInv, SocketInv
<1>2. KeyOf \in [Subs -> Keys] /\ isReconnecting' = isReconnecting
  BY SubsAssumption DEF Mount
<1>3. \A n \in Sockets : readyState[n] # "unused" => readyState'[n] = readyState[n]
  BY <1>1, MountEffect
<1>4. SendInv'
  <2>1. \A t \in Subs : sub'[t].phase = "sending" => t = s /\ IsOpen(sub'[s].on)
    BY <1>1, MountEffect DEF Mount, TaskMayStart
  <2>2. \A t \in Subs : sub'[t].phase = "sending" =>
                            sub'[t].on # 0 /\ readyState'[sub'[t].on] = "open"
    <3> SUFFICES ASSUME sub'[s].phase = "sending"
                 PROVE  sub'[s].on # 0 /\ readyState'[sub'[s].on] = "open"
      BY <2>1
    <3>1. IsOpen(sub'[s].on) /\ sub'[s].on \in Sockets \cup {0}
      <4>1. TypeOK'
        BY NextType, <1>1 DEF Next
      <4> QED BY <2>1, <4>1 DEF TypeOK, Sub
    <3> QED BY <1>3, <3>1 DEF IsOpen
  <2> QED BY <2>2 DEF SendInv, IsOpen
<1>5. \A t \in Subs : sub'[t].phase = "live" => t # s /\ sub'[t] = sub[t]
  BY <1>1, MountEffect DEF Waiting
<1>6. LiveInv'
  BY <1>1, <1>5 DEF LiveInv
<1>7. ASSUME NEW t \in Subs, Heard(t)' PROVE Heard(t)
  <2>1. sub'[t].phase = "live" /\ CallbackOf[t] \in listeners'[KeyOf[t]]
    BY <1>7 DEF Heard
  <2>2. sub[t].phase = "live" /\ ~sub[t].cancelled
    BY <1>1, <1>5, <2>1 DEF LiveInv
  <2>3. CallbackOf[t] # CallbackOf[s]
    BY <2>2 DEF Mount, Mounted
  <2>4. listeners' = [listeners EXCEPT ![KeyOf[s]] = listeners[KeyOf[s]] \cup {CallbackOf[s]}]
    BY DEF Mount
  <2>5. CallbackOf[t] \in listeners[KeyOf[t]]
    BY <1>1, <1>2, <2>1, <2>3, <2>4 DEF TypeOK
  <2> QED BY <2>2, <2>5 DEF Heard
<1>8. ResumeInv'
  BY <1>1, <1>2, <1>3, <1>7, Zenon DEF ResumeInv
<1> QED BY <1>4, <1>6, <1>8 DEF SocketInv

LEMMA CleanupSockets ==
    ASSUME KeyInv, SocketInv, NEW s \in Subs, Unmount(s) \/ Continue(s) \/ Rejected(s)
    PROVE  SocketInv'
<1>1. TypeOK /\ SendInv /\ LiveInv /\ ResumeInv
  BY DEF KeyInv, SocketInv
<1>2. UNCHANGED <<isReconnecting, readyState>>
  BY DEF Unmount, Continue, Rejected
<1>3. SendInv'
  <2>1. \A t \in Subs : sub'[t].phase = "sending" => sub[t].phase = "sending" /\ sub'[t].on = sub[t].on
    BY <1>1, CleanupEffect
  <2> QED BY <1>1, <1>2, <2>1 DEF SendInv, IsOpen
<1>4. sub'[s].phase = "live" => Continue(s) /\ ~sub'[s].cancelled
  BY <1>1 DEF Unmount, Continue, Rejected, TypeOK, Sub, Waiting
<1>5. LiveInv'
  BY <1>1, <1>4, CleanupEffect DEF LiveInv
<1>6. ResumeInv'
  <2>1. CASE Continue(s)
    <3>1. IsOpen(sub[s].on) /\ sub[s].on \in Sockets \cup {0}
      BY <1>1, <2>1 DEF Continue, SendInv, TypeOK, Sub
    <3>2. \E n \in Sockets : readyState'[n] = "open"
      BY <1>2, <3>1 DEF IsOpen
    <3> QED BY <3>2 DEF ResumeInv
  <2>2. CASE ~Continue(s)
    <3>1. ASSUME NEW t \in Subs, Heard(t)' PROVE Heard(t)
      <4>1. sub'[t].phase = "live" /\ CallbackOf[t] \in listeners'[KeyOf[t]]
        BY <3>1 DEF Heard
      <4>2. sub[t].phase = "live"
        BY <1>1, <1>4, <2>2, <4>1, CleanupEffect
      <4>3. KeyOf[t] \in Keys
        BY SubsAssumption
      <4>4. listeners'[KeyOf[t]] \subseteq listeners[KeyOf[t]]
        BY <1>1, <4>3, CleanupEffect, UnsubscribeEffect
      <4> QED BY <4>1, <4>2, <4>4 DEF Heard
    <3> QED BY <1>1, <1>2, <3>1, Zenon DEF ResumeInv
  <2> QED BY <2>1, <2>2
<1> QED BY <1>3, <1>5, <1>6 DEF SocketInv

LEMMA PollSockets ==
    ASSUME KeyInv, SocketInv, NEW s \in Subs, Poll(s)
    PROVE  SocketInv'
<1>1. TypeOK /\ SendInv /\ LiveInv /\ ResumeInv
  BY DEF KeyInv, SocketInv
<1>2. UNCHANGED <<socketMultiplexer, isReconnecting, listeners, readyState>>
  BY DEF Poll, manager
<1>3. /\ \A t \in Subs : t # s => sub'[t] = sub[t]
      /\ \/ /\ IsOpen(socketMultiplexer)
            /\ sub'[s].phase = "sending" /\ sub'[s].on = socketMultiplexer
         \/ sub'[s].phase = "rejected"
  BY <1>1 DEF Poll, TypeOK, Sub
<1>4. SendInv'
  BY <1>1, <1>2, <1>3 DEF SendInv, IsOpen
<1>5. LiveInv'
  BY <1>1, <1>3 DEF LiveInv
<1>6. ResumeInv'
  <2>1. \A t \in Subs : Heard(t)' => Heard(t)
    BY <1>2, <1>3 DEF Heard
  <2> QED BY <1>1, <1>2, <2>1, Zenon DEF ResumeInv
<1> QED BY <1>4, <1>5, <1>6 DEF SocketInv

LEMMA AttemptSockets ==
    ASSUME KeyInv, SocketInv, NEW n \in Sockets, OnOpen(n) \/ OnError(n)
    PROVE  SocketInv'
<1>1. TypeOK /\ SendInv /\ LiveInv /\ ResumeInv
  BY DEF KeyInv, SocketInv
<1>2. readyState[n] = "connecting" /\ TaskMayStart /\ listeners' = listeners
  BY DEF OnOpen, OnError
<1>3. LiveInv' /\ \A s \in Subs : Heard(s)' => Heard(s)
  <2>1. \E p \in {"sending", "rejected"} : Settle(n, p)
    BY DEF OnOpen, OnError
  <2>2. \A s \in Subs : sub'[s].phase = "live" => sub'[s] = sub[s]
    BY <1>1, <2>1, SettleEffect
  <2> QED BY <1>1, <1>2, <2>2 DEF LiveInv, Heard
<1>4. CASE OnOpen(n)
  <2>1. Settle(n, "sending") /\ readyState'[n] = "open" /\ n # 0
    BY <1>1, <1>4, SocketType DEF OnOpen, TypeOK
  <2>2. \A s \in Subs : sub'[s].phase = "sending" => sub'[s].on = n
    BY <1>1, <1>2, <2>1, SettleEffect DEF TaskMayStart
  <2>3. SendInv'
    BY <2>1, <2>2 DEF SendInv, IsOpen
  <2>4. ResumeInv'
    BY <2>1 DEF ResumeInv
  <2> QED BY <1>3, <2>3, <2>4 DEF SocketInv
<1>5. CASE OnError(n)
  <2>1. \A s \in Subs : sub'[s].phase # "sending"
    BY <1>1, <1>2, <1>5, SettleEffect DEF OnError, TaskMayStart
  <2>2. SendInv'
    BY <2>1 DEF SendInv
  <2>3. isReconnecting' = isReconnecting
    BY <1>5 DEF OnError
  <2>4. \A m \in Sockets : readyState[m] \in {"open", "closing"} => readyState'[m] \in {"open", "closing"}
    BY <1>1, <1>2, <1>5 DEF OnError, TypeOK
  <2>5. ResumeInv'
    BY <1>1, <1>3, <2>3, <2>4, Zenon DEF ResumeInv
  <2> QED BY <1>3, <2>2, <2>5 DEF SocketInv
<1> QED BY <1>4, <1>5

LEMMA ClosingSockets ==
    ASSUME KeyInv, SocketInv, NEW n \in Sockets, StartClosing(n) \/ OnClose(n)
    PROVE  SocketInv'
<1>1. TypeOK /\ ActiveInv /\ SendInv /\ LiveInv /\ ResumeInv
  BY DEF KeyInv, SocketInv
<1>2. /\ \A s \in Subs : sub[s].phase # "sending"
      /\ UNCHANGED <<sub, listeners>>
  BY DEF StartClosing, OnClose, TaskMayStart, manager
<1>3. SendInv' /\ LiveInv' /\ \A s \in Subs : Heard(s)' => Heard(s)
  BY <1>1, <1>2 DEF SendInv, LiveInv, Heard
<1>4. ResumeInv'
  <2>1. CASE StartClosing(n)
    <3>1. isReconnecting' = isReconnecting
      BY <2>1 DEF StartClosing, manager
    <3>2. \A m \in Sockets : readyState[m] \in {"open", "closing"} => readyState'[m] \in {"open", "closing"}
      BY <1>1, <2>1 DEF StartClosing, TypeOK
    <3> QED BY <1>1, <1>3, <3>1, <3>2, Zenon DEF ResumeInv
  <2>2. CASE OnClose(n)
    <3>1. ASSUME NEW s \in Subs, Heard(s) PROVE activeSubscriptions # {}
      <4>1. KeyOf[s] \in Keys
        BY SubsAssumption
      <4>2. listeners[KeyOf[s]] # {}
        BY <3>1 DEF Heard
      <4> QED BY <1>1, <4>1, <4>2 DEF ActiveInv
    <3>2. isReconnecting' = (activeSubscriptions # {})
      BY <2>2 DEF OnClose
    <3> QED BY <1>3, <3>1, <3>2, Zenon DEF ResumeInv
  <2> QED BY <2>1, <2>2
<1> QED BY <1>3, <1>4 DEF SocketInv

LEMMA NextSockets == KeyInv /\ SocketInv /\ [Next]_vars => SocketInv'
<1> SUFFICES ASSUME KeyInv, SocketInv, [Next]_vars PROVE SocketInv'
  OBVIOUS
<1> DEFINE Backend == \E n \in Sockets : Departs(n) \/ \E k \in Keys : WatchEnds(n, k)
<1>1. CASE UNCHANGED vars \/ Backend \/ \E k \in Keys : Timeout(k)
  <2>1. UNCHANGED <<isReconnecting, listeners, sub, readyState>>
    BY <1>1 DEF vars, manager, Timeout, Departs, WatchEnds
  <2>2. SendInv' /\ LiveInv'
    BY <2>1 DEF SocketInv, SendInv, LiveInv, IsOpen
  <2>3. ResumeInv'
    BY <2>1, Zenon DEF SocketInv, ResumeInv, Heard
  <2> QED BY <2>2, <2>3 DEF SocketInv
<1>2. CASE Next /\ ~Backend /\ ~\E k \in Keys : Timeout(k)
  BY <1>2, MountSockets, CleanupSockets, PollSockets, AttemptSockets, ClosingSockets DEF Next
<1> QED BY <1>1, <1>2

(***************************************************************************)
(* What is heard will be resumed, for any number of mounts, reconnects,    *)
(* pollers and timers, also when an effect runs during the closing         *)
(* handshake of a socket or after a cancelled run of its own.              *)
(***************************************************************************)
THEOREM HeardWillBeResumed == Spec => []HeardIsResumed
<1>1. KeyInv /\ SocketInv => HeardIsResumed
  BY Zenon DEF KeyInv, SocketInv, ActiveInv, ResumeInv, HeardIsResumed
<1>2. Spec => [](KeyInv /\ SocketInv)
  BY InitSockets, NextSockets, KeysHold, PTL DEF Spec
<1> QED BY <1>1, <1>2, PTL

=============================================================================
