----------------------------- MODULE PortForward -----------------------------
(***************************************************************************)
(* Port forwards (backend/pkg/portforward/handler.go, store.go), for one   *)
(* cluster and one port-forward ID: IDs do not interact.                   *)
(*                                                                         *)
(* A start request creates a portForward object, which one goroutine at a  *)
(* time works on: first the handler of the request, then the pod monitor,  *)
(* which also reconnects.  That line of goroutines is a controller here.   *)
(* The cache holds COPIES of the object, and so does a stop or delete      *)
(* request: what ties a copy to the running forward is only the channel in *)
(* it, closeChan, which the monitor replaces when it reconnects.           *)
(*                                                                         *)
(* A channel is also the identity of the client-go forwarder that listens  *)
(* to it as its stop channel; a channel made by make(chan) for the backoff *)
(* alone has no forwarder.                                                 *)
(***************************************************************************)
EXTENDS Naturals, FiniteSets

CONSTANTS
    Starters,       \* start requests, and the port forwards they create
    Users,          \* goroutines that handle stop and delete requests
    Chans,          \* channels; bounds how many are in use at one time
    Nil,            \* nothing
    ServiceBacked   \* is the target a Service, so that the monitor reconnects?

ASSUME NilAssumption == Nil \notin Chans \cup Starters
ASSUME ServiceAssumption == ServiceBacked \in BOOLEAN

VARIABLES
    cache,        \* the cached copy for the ID, or Nil
    inFlight,     \* is the ID in inFlightPortForwards?
    ctl,          \* starter -> its controller
    user,         \* user -> its request in progress
    closed,       \* the channels that are closed
    forwarder,    \* channel -> the state of the forwarder it stops
    stopped       \* history: the forwards a finished request stopped or deleted

vars == <<cache, inFlight, ctl, user, closed, forwarder, stopped>>

-----------------------------------------------------------------------------
MaxAttempts == 3   \* len(backoffs)

Status == {"Running", "Stopped", "Reconnecting"}

Copy == [status : Status, chan : Chans, owner : Starters]

ASSUME CopyAssumption == Nil \notin Copy

Controller ==
    [pc : {"idle", "claim", "init", "ready", "fail", "refresh", "monitor",
           "checking", "hangup", "backoff", "try", "giveup", "end", "off"},
     chan : Chans \cup {Nil},
     attempt : 0..MaxAttempts]

Request == [pc : {"idle", "close", "finish"}, delete : BOOLEAN,
            copy : Copy \cup {Nil}]

At(s, pc) == ctl[s].pc = pc

\* portforwardstore of a snapshot of the object of s
Snapshot(s, status) == [status |-> status, chan |-> ctl[s].chan, owner |-> s]

(***************************************************************************)
(* make(chan struct{}): a channel nobody refers to any more, and to which  *)
(* no forwarder listens, can be made again.                                *)
(***************************************************************************)
Copies == ({cache} \cup {user[u].copy : u \in Users}) \ {Nil}

Held == {ctl[s].chan : s \in Starters} \cup {copy.chan : copy \in Copies}

Garbage(ch) == ch \notin Held /\ forwarder[ch] = "none"

NewChan == CHOOSE ch \in Chans : Garbage(ch)

CanMakeChan == \E ch \in Chans : Garbage(ch)

-----------------------------------------------------------------------------
Init ==
    /\ cache = Nil
    /\ inFlight = FALSE
    /\ ctl = [s \in Starters |-> [pc |-> "idle", chan |-> Nil, attempt |-> 0]]
    /\ user = [u \in Users |-> [pc |-> "idle", delete |-> FALSE, copy |-> Nil]]
    /\ closed = {}
    /\ forwarder = [ch \in Chans |-> "none"]
    /\ stopped = {}

(***************************************************************************)
(* The start request: StartPortForward.                                    *)
(***************************************************************************)

ExistsActive == cache /= Nil /\ cache.status \in {"Running", "Reconnecting"}

\* A forward with this ID in the cache that is active: conflict.
CheckExisting(s) ==
    /\ At(s, "idle") /\ ~ExistsActive
    /\ ctl' = [ctl EXCEPT ![s].pc = "claim"]
    /\ UNCHANGED <<cache, inFlight, user, closed, forwarder, stopped>>

\* Mutant of Claim: the result of LoadOrStore is ignored.
ClaimWithoutLoaded(s) ==
    /\ At(s, "claim")
    /\ inFlight' = TRUE
    /\ ctl' = [ctl EXCEPT ![s].pc = "init"]
    /\ UNCHANGED <<cache, user, closed, forwarder, stopped>>

\* inFlightPortForwards.LoadOrStore
Claim(s) ==
    /\ At(s, "claim")
    /\ inFlight' = TRUE
    /\ ctl' = [ctl EXCEPT ![s].pc = IF inFlight THEN "idle" ELSE "init"]
    /\ UNCHANGED <<cache, user, closed, forwarder, stopped>>

\* Validation, port, context, permission or the forwarder itself fails.
InitFails(s) ==
    /\ At(s, "init")
    /\ inFlight' = FALSE
    /\ ctl' = [ctl EXCEPT ![s].pc = "idle"]
    /\ UNCHANGED <<cache, user, closed, forwarder, stopped>>

\* initPortForwarder and forwardPortsAsync: a forwarder runs on a new channel.
RunForwarder(s, ch) ==
    /\ ctl' = [ctl EXCEPT ![s].pc = "ready", ![s].chan = ch]
    /\ forwarder' = [forwarder EXCEPT ![ch] = "dialing"]

\* Mutant of InitSucceeds: the object is stored as running before it is ready.
InitStoresEarly(s) ==
    /\ At(s, "init") /\ CanMakeChan
    /\ RunForwarder(s, NewChan)
    /\ closed' = closed \ {NewChan}
    /\ cache' = [status |-> "Running", chan |-> NewChan, owner |-> s]
    /\ UNCHANGED <<inFlight, user, stopped>>

InitSucceeds(s) ==
    /\ At(s, "init") /\ CanMakeChan
    /\ RunForwarder(s, NewChan)
    /\ closed' = closed \ {NewChan}
    /\ UNCHANGED <<cache, inFlight, user, stopped>>

(***************************************************************************)
(* handlePortForwardReadiness.  The case of closeChan is never taken: see  *)
(* StartingIsPrivate.  attempt = 0 is the first start, under inFlight.     *)
(***************************************************************************)
BecomesReady(s) ==
    /\ At(s, "ready") /\ forwarder[ctl[s].chan] = "listening"
    /\ cache' = Snapshot(s, "Running")
    /\ inFlight' = (inFlight /\ ctl[s].attempt > 0)
    /\ ctl' = [ctl EXCEPT ![s].pc = "monitor", ![s].attempt = 0]
    /\ UNCHANGED <<user, closed, forwarder, stopped>>

\* ForwardPorts failed, stderr is not empty, or the timeout: handlePortForwardError
NotReady(s) ==
    /\ At(s, "ready")
    /\ cache' = Snapshot(s, "Stopped")
    /\ ctl' = [ctl EXCEPT ![s].pc = "fail"]
    /\ UNCHANGED <<inFlight, user, closed, forwarder, stopped>>

\* handlePortForwardError closes the channel; a first start is over.
FailClose(s) ==
    LET first == ctl[s].attempt = 0 IN
    /\ At(s, "fail")
    /\ closed' = closed \cup {ctl[s].chan}
    /\ inFlight' = (inFlight /\ ~first)
    /\ ctl' = [ctl EXCEPT ![s].pc = IF first THEN "off" ELSE "refresh",
                          ![s].chan = IF first THEN Nil ELSE @]
    /\ UNCHANGED <<cache, user, forwarder, stopped>>

-----------------------------------------------------------------------------
(***************************************************************************)
(* The pod monitor: monitorPodAndManagePortForward, handlePodCheck.        *)
(***************************************************************************)
MonitorStops(s) ==
    /\ At(s, "monitor") /\ ctl[s].chan \in closed
    /\ ctl' = [ctl EXCEPT ![s].pc = "off", ![s].chan = Nil]
    /\ UNCHANGED <<cache, inFlight, user, closed, forwarder, stopped>>

Tick(s) ==
    /\ At(s, "monitor")
    /\ ctl' = [ctl EXCEPT ![s].pc = "checking"]
    /\ UNCHANGED <<cache, inFlight, user, closed, forwarder, stopped>>

\* The pod is running, or the API server refused the connection.
CheckOK(s) ==
    /\ At(s, "checking")
    /\ ctl' = [ctl EXCEPT ![s].pc = "monitor"]
    /\ UNCHANGED <<cache, inFlight, user, closed, forwarder, stopped>>

CheckFails(s) ==
    /\ At(s, "checking")
    /\ \/ /\ ServiceBacked
          /\ cache' = Snapshot(s, "Reconnecting")
          /\ ctl' = [ctl EXCEPT ![s].pc = "hangup"]
       \/ /\ ~ServiceBacked
          /\ ctl' = [ctl EXCEPT ![s].pc = "giveup"]
          /\ UNCHANGED cache
    /\ UNCHANGED <<inFlight, user, closed, forwarder, stopped>>

\* Mutant of HangUp: the old forwarder is not told to stop.
HangUpWithoutClose(s) ==
    /\ At(s, "hangup") /\ CanMakeChan
    /\ closed' = closed \ {NewChan}
    /\ ctl' = [ctl EXCEPT ![s].pc = "backoff", ![s].chan = NewChan, ![s].attempt = 1]
    /\ UNCHANGED <<cache, inFlight, user, forwarder, stopped>>

\* The old channel is closed; a new one, which no copy knows, replaces it.
HangUp(s) ==
    /\ At(s, "hangup") /\ CanMakeChan
    /\ closed' = (closed \cup {ctl[s].chan}) \ {NewChan}
    /\ ctl' = [ctl EXCEPT ![s].pc = "backoff", ![s].chan = NewChan, ![s].attempt = 1]
    /\ UNCHANGED <<cache, inFlight, user, forwarder, stopped>>

(***************************************************************************)
(* attemptReconnect and tryReconnectOnce.                                  *)
(***************************************************************************)
Backoff(s) ==
    /\ At(s, "backoff")
    /\ \/ ctl' = [ctl EXCEPT ![s].pc = "try"]
       \/ /\ ctl[s].chan \in closed
          /\ ctl' = [ctl EXCEPT ![s].pc = "giveup"]
    /\ UNCHANGED <<cache, inFlight, user, closed, forwarder, stopped>>

\* Mutant of NextAttempt: the attempts are not counted.
NextAttemptForever(c) == [c EXCEPT !.pc = "backoff"]

\* The loop over the backoffs goes on or is exhausted.
NextAttempt(c) ==
    IF c.attempt < MaxAttempts
    THEN [c EXCEPT !.pc = "backoff", !.attempt = @ + 1]
    ELSE [c EXCEPT !.pc = "giveup"]

\* No ready endpoint, or no forwarder: storeReconnecting.  The abort for a
\* missing REST config is not reached: startPortForward has set it, and its
\* initPortForwarder has used it, before there is a forward to reconnect.
TryFails(s) ==
    /\ At(s, "try")
    /\ cache' = Snapshot(s, "Reconnecting")
    /\ ctl' = [ctl EXCEPT ![s] = NextAttempt(@)]
    /\ UNCHANGED <<inFlight, user, closed, forwarder, stopped>>

\* The channel is swapped for the stop channel of the new forwarder.
TrySwaps(s) ==
    /\ At(s, "try") /\ CanMakeChan
    /\ closed' = (closed \cup {ctl[s].chan}) \ {NewChan}
    /\ RunForwarder(s, NewChan)
    /\ UNCHANGED <<cache, inFlight, user, stopped>>

\* After a failed readiness: a fresh channel for the next backoff.
Refresh(s) ==
    LET c == [ctl[s] EXCEPT !.chan = NewChan] IN
    /\ At(s, "refresh") /\ CanMakeChan
    /\ closed' = closed \ {NewChan}
    /\ cache' = [status |-> "Reconnecting", chan |-> NewChan, owner |-> s]
    /\ ctl' = [ctl EXCEPT ![s] = NextAttempt(c)]
    /\ UNCHANGED <<inFlight, user, forwarder, stopped>>

\* handlePodCheck ends: the forward is stopped, and its channel is closed.
GiveUp(s) ==
    /\ At(s, "giveup")
    /\ cache' = Snapshot(s, "Stopped")
    /\ ctl' = [ctl EXCEPT ![s].pc = "end"]
    /\ UNCHANGED <<inFlight, user, closed, forwarder, stopped>>

End(s) ==
    /\ At(s, "end")
    /\ closed' = closed \cup {ctl[s].chan}
    /\ ctl' = [ctl EXCEPT ![s].pc = "off", ![s].chan = Nil]
    /\ UNCHANGED <<cache, inFlight, user, forwarder, stopped>>

-----------------------------------------------------------------------------
(***************************************************************************)
(* stopOrDeletePortForward: read the copy, close its channel, store the    *)
(* copy as Stopped or delete the entry.                                    *)
(***************************************************************************)
UserGet(u) ==
    /\ user[u].pc = "idle" /\ cache /= Nil
    /\ \E delete \in BOOLEAN :
          user' = [user EXCEPT ![u] = [pc |-> "close", delete |-> delete,
                                       copy |-> cache]]
    /\ UNCHANGED <<cache, inFlight, ctl, closed, forwarder, stopped>>

UserClose(u) ==
    /\ user[u].pc = "close"
    /\ closed' = closed \cup {user[u].copy.chan}
    /\ user' = [user EXCEPT ![u].pc = "finish"]
    /\ UNCHANGED <<cache, inFlight, ctl, forwarder, stopped>>

UserFinish(u) ==
    LET copy == user[u].copy IN
    /\ user[u].pc = "finish"
    /\ cache' = IF user[u].delete THEN Nil ELSE [copy EXCEPT !.status = "Stopped"]
    /\ stopped' = stopped \cup {copy.owner}
    /\ user' = [user EXCEPT ![u] = [pc |-> "idle", delete |-> FALSE, copy |-> Nil]]
    /\ UNCHANGED <<inFlight, ctl, closed, forwarder>>

-----------------------------------------------------------------------------
(***************************************************************************)
(* The forwarder of client-go, external: it listens when the connection to *)
(* the pod stands, fails at any time, and ends when its channel is closed. *)
(***************************************************************************)
ForwarderListens(ch) ==
    /\ forwarder[ch] = "dialing"
    /\ forwarder' = [forwarder EXCEPT ![ch] = "listening"]
    /\ UNCHANGED <<cache, inFlight, ctl, user, closed, stopped>>

ForwarderFails(ch) ==
    /\ forwarder[ch] /= "none"
    /\ forwarder' = [forwarder EXCEPT ![ch] = "none"]
    /\ UNCHANGED <<cache, inFlight, ctl, user, closed, stopped>>

ForwarderStops(ch) == ch \in closed /\ ForwarderFails(ch)

-----------------------------------------------------------------------------
ControllerStep(s) ==
    \/ Claim(s) \/ InitFails(s) \/ InitSucceeds(s)
    \/ BecomesReady(s) \/ NotReady(s) \/ FailClose(s)
    \/ CheckOK(s) \/ CheckFails(s) \/ HangUp(s)
    \/ Backoff(s) \/ TryFails(s) \/ TrySwaps(s) \/ Refresh(s)
    \/ GiveUp(s) \/ End(s)

Terminated ==
    /\ \A s \in Starters : At(s, "off")
    /\ UNCHANGED vars

Next ==
    \/ \E s \in Starters : ControllerStep(s) \/ CheckExisting(s) \/ MonitorStops(s)
                           \/ Tick(s)
    \/ \E u \in Users : UserGet(u) \/ UserClose(u) \/ UserFinish(u)
    \/ \E ch \in Chans : ForwarderListens(ch) \/ ForwarderFails(ch)
    \/ Terminated

Spec == Init /\ [][Next]_vars

(***************************************************************************)
(* Fairness: goroutines run, dials and readiness end by their timeouts.    *)
(* The monitor is back in its select after every check, and until the next *)
(* tick closeChan is the only channel that can be ready.  A forwarder      *)
(* obeys its stop channel.                                                 *)
(***************************************************************************)
Fairness ==
    /\ \A s \in Starters : WF_vars(ControllerStep(s)) /\ SF_vars(MonitorStops(s))
    /\ \A u \in Users : WF_vars(UserClose(u) \/ UserFinish(u))
    /\ \A ch \in Chans : WF_vars(ForwarderStops(ch))

FairSpec == Spec /\ Fairness

-----------------------------------------------------------------------------
(***************************************************************************)
(* Type invariant.                                                         *)
(***************************************************************************)
TypeOK ==
    /\ cache \in Copy \cup {Nil}
    /\ inFlight \in BOOLEAN
    /\ ctl \in [Starters -> Controller]
    /\ user \in [Users -> Request]
    /\ closed \subseteq Chans
    /\ forwarder \in [Chans -> {"none", "dialing", "listening"}]
    /\ stopped \subseteq Starters

Starting(s) == ctl[s].pc \in {"init", "ready", "fail"} /\ ctl[s].attempt = 0

Active(s) == ctl[s].pc \notin {"idle", "claim", "init", "off"}

(***************************************************************************)
(* inFlightPortForwards keeps start requests for one ID apart: at most one *)
(* is between LoadOrStore and its return, and the mark is not left behind. *)
(***************************************************************************)
StartsAreExclusive ==
    /\ \A s, t \in Starters : Starting(s) /\ Starting(t) => s = t
    /\ inFlight => \E s \in Starters : Starting(s)

(***************************************************************************)
(* No forwarder is out of control: one that runs and has not been told to  *)
(* stop is the forwarder of the channel its controller now holds, however  *)
(* often the monitor has swapped closeChan.  Otherwise its local port      *)
(* would be taken until the process ends.                                  *)
(***************************************************************************)
ForwardersAreHeld ==
    \A ch \in Chans :
        (forwarder[ch] /= "none" /\ ch \notin closed) =>
            \E s \in Starters : Active(s) /\ ctl[s].chan = ch

(***************************************************************************)
(* While a forwarder is awaited, at the start or at a reconnect, no copy   *)
(* of the forward holds its channel and nobody has closed it: neither stop *)
(* nor delete can interrupt the wait, and the branch of                    *)
(* handlePortForwardReadiness for a premature stop is dead code.           *)
(***************************************************************************)
StartingIsPrivate ==
    \A s \in Starters : At(s, "ready") =>
        /\ ctl[s].chan \notin closed
        /\ \A copy \in Copies : copy.chan /= ctl[s].chan

(***************************************************************************)
(* A reconnect comes to an end: the status Reconnecting does not stay.     *)
(***************************************************************************)
IsReconnecting == cache /= Nil /\ cache.status = "Reconnecting"

ReconnectingEnds == IsReconnecting ~> ~IsReconnecting

(***************************************************************************)
(* "Always signal the portforward to stop, whether it's a stop or delete   *)
(* request. This prevents orphaned goroutines and leaked ports."  A        *)
(* forward that was stopped or deleted comes to its end.  A reconnect      *)
(* breaks it: the channel that was closed is the copy's, and the monitor   *)
(* has put another one in its place.                                       *)
(***************************************************************************)
StopTakesEffect == \A s \in Starters : s \in stopped ~> At(s, "off")

(***************************************************************************)
(* "Ensure we don't orphan an existing port-forward by overwriting its     *)
(* cache entry."  At most one forward with this ID runs.                   *)
(***************************************************************************)
OneForwardPerID ==
    \A s, t \in Starters : Active(s) /\ Active(t) => s = t
=============================================================================
