------------------------- MODULE PortForwardProofs -------------------------
(***************************************************************************)
(* Proofs about PortForward, for any number of start requests, of stop and *)
(* delete requests and of channels: its types, the exclusion of starts,    *)
(* the privacy of a channel that is not ready, and that every forwarder is *)
(* held by a controller or has been told to stop.                          *)
(***************************************************************************)
EXTENDS PortForward, TLAPS

(***************************************************************************)
(* The inductive invariant.  A controller holds a channel exactly while it *)
(* is active, and counts attempts only in a reconnect.                     *)
(***************************************************************************)
LocalInv ==
    \A s \in Starters :
        /\ Active(s) => ctl[s].chan \in Chans
        /\ ~Active(s) => ctl[s].chan = Nil
        /\ ctl[s].pc \in {"idle", "claim", "init"} => ctl[s].attempt = 0
        /\ ctl[s].pc \in {"backoff", "try", "refresh"} => ctl[s].attempt > 0

\* A request in progress has its copy.
RequestInv == \A u \in Users : user[u].pc /= "idle" => user[u].copy \in Copy

\* inFlight is exactly the mark of the one start in progress.
FlightInv ==
    /\ \A s, t \in Starters : Starting(s) /\ Starting(t) => s = t
    /\ inFlight <=> \E s \in Starters : Starting(s)

\* Two controllers never hold one channel.
DistinctInv ==
    \A s, t \in Starters : (s /= t /\ Active(s) /\ Active(t)) => ctl[s].chan /= ctl[t].chan

\* The channel of a failed attempt is closed before it is replaced.
RefreshInv == \A s \in Starters : At(s, "refresh") => ctl[s].chan \in closed

IInv ==
    /\ TypeOK
    /\ LocalInv
    /\ RequestInv
    /\ FlightInv
    /\ DistinctInv
    /\ RefreshInv
    /\ ForwardersAreHeld
    /\ StartingIsPrivate

-----------------------------------------------------------------------------
\* make(chan) yields a channel nobody holds and no forwarder listens to.
LEMMA FreshChannel ==
    ASSUME CanMakeChan
    PROVE  /\ NewChan \in Chans
           /\ NewChan \notin Held
           /\ forwarder[NewChan] = "none"
BY DEF CanMakeChan, NewChan, Garbage

\* The attempts are within the backoffs of attemptReconnect.
LEMMA AttemptsBound == MaxAttempts \in Nat /\ 0 \in 0..MaxAttempts
BY DEF MaxAttempts

LEMMA NextAttemptType ==
    ASSUME NEW c \in Controller
    PROVE  NextAttempt(c) \in Controller
<1>1. CASE c.attempt < MaxAttempts
  <2>1. c.attempt + 1 \in 0..MaxAttempts
    BY <1>1, AttemptsBound DEF Controller
  <2> QED BY <1>1, <2>1 DEF Controller, NextAttempt
<1>2. CASE ~(c.attempt < MaxAttempts)
  BY <1>2 DEF Controller, NextAttempt
<1> QED BY <1>1, <1>2

LEMMA CheckExistingKeeps ==
    ASSUME IInv, NEW s \in Starters, CheckExisting(s)
    PROVE  IInv'
<1> USE NilAssumption, ServiceAssumption DEF IInv
<1>1. TypeOK'
  BY DEF CheckExisting, At, TypeOK, Controller, LocalInv, Active, Copy, Status,
         Request, MaxAttempts
<1>2. LocalInv'
  BY DEF CheckExisting, At, TypeOK, Controller, LocalInv, Active, MaxAttempts
<1>3. RequestInv'
  BY DEF CheckExisting, At, TypeOK, Controller, RequestInv
<1>4. FlightInv'
  BY DEF CheckExisting, At, TypeOK, Controller, FlightInv, Starting, LocalInv
<1>5. DistinctInv'
  BY DEF CheckExisting, At, TypeOK, Controller, DistinctInv, LocalInv, Active
<1>6. RefreshInv'
  BY DEF CheckExisting, At, TypeOK, Controller, RefreshInv, DistinctInv, LocalInv,
         Active
<1>7. ForwardersAreHeld'
  BY DEF CheckExisting, At, TypeOK, Controller, ForwardersAreHeld, RefreshInv,
         LocalInv, Active
<1>8. StartingIsPrivate'
  BY DEF CheckExisting, At, TypeOK, Controller, StartingIsPrivate, DistinctInv,
         LocalInv, Active, Copies
<1> QED BY <1>1, <1>2, <1>3, <1>4, <1>5, <1>6, <1>7, <1>8

LEMMA ClaimKeeps ==
    ASSUME IInv, NEW s \in Starters, Claim(s)
    PROVE  IInv'
<1> USE NilAssumption, ServiceAssumption DEF IInv
<1>1. TypeOK'
  BY DEF Claim, At, TypeOK, Controller, LocalInv, Active, Copy, Status, Request,
         MaxAttempts
<1>2. LocalInv'
  BY DEF Claim, At, TypeOK, Controller, LocalInv, Active, MaxAttempts
<1>3. RequestInv'
  BY DEF Claim, At, TypeOK, Controller, RequestInv
<1>4. FlightInv'
  BY DEF Claim, At, TypeOK, Controller, FlightInv, Starting, LocalInv
<1>5. DistinctInv'
  BY DEF Claim, At, TypeOK, Controller, DistinctInv, LocalInv, Active
<1>6. RefreshInv'
  BY DEF Claim, At, TypeOK, Controller, RefreshInv, DistinctInv, LocalInv, Active
<1>7. ForwardersAreHeld'
  BY DEF Claim, At, TypeOK, Controller, ForwardersAreHeld, RefreshInv, LocalInv, Active
<1>8. StartingIsPrivate'
  BY DEF Claim, At, TypeOK, Controller, StartingIsPrivate, DistinctInv, LocalInv,
         Active, Copies
<1> QED BY <1>1, <1>2, <1>3, <1>4, <1>5, <1>6, <1>7, <1>8

LEMMA InitFailsKeeps ==
    ASSUME IInv, NEW s \in Starters, InitFails(s)
    PROVE  IInv'
<1> USE NilAssumption, ServiceAssumption DEF IInv
<1>1. TypeOK'
  <2>1. ctl' \in [Starters -> Controller]
    <3> DEFINE c == [ctl[s] EXCEPT !.pc = "idle"]
    <3>1. c \in Controller
      BY DEF TypeOK, Controller
    <3>2. ctl' = [ctl EXCEPT ![s] = c]
      BY DEF InitFails, TypeOK, Controller
    <3> HIDE DEF c
    <3> QED BY <3>1, <3>2 DEF TypeOK
  <2>2. cache' \in Copy \cup {Nil}
    BY DEF InitFails, At, TypeOK, Copy, Status, LocalInv, Active
  <2>3. inFlight' \in BOOLEAN
    BY Zenon DEF InitFails, TypeOK
  <2>4. closed' \subseteq Chans
    BY DEF InitFails, At, TypeOK, LocalInv, Active
  <2> QED BY <2>1, <2>2, <2>3, <2>4 DEF InitFails, TypeOK
<1>2. LocalInv'
  BY DEF InitFails, At, TypeOK, Controller, LocalInv, Active, MaxAttempts
<1>3. RequestInv'
  BY DEF InitFails, At, TypeOK, Controller, RequestInv
<1>4. FlightInv'
  BY DEF InitFails, At, TypeOK, Controller, FlightInv, Starting, LocalInv
<1>5. DistinctInv'
  BY DEF InitFails, At, TypeOK, Controller, DistinctInv, LocalInv, Active
<1>6. RefreshInv'
  BY DEF InitFails, At, TypeOK, Controller, RefreshInv, DistinctInv, LocalInv, Active
<1>7. ForwardersAreHeld'
  BY DEF InitFails, At, TypeOK, Controller, ForwardersAreHeld, RefreshInv, LocalInv,
         Active
<1>8. StartingIsPrivate'
  BY DEF InitFails, At, TypeOK, Controller, StartingIsPrivate, DistinctInv, LocalInv,
         Active, Copies
<1> QED BY <1>1, <1>2, <1>3, <1>4, <1>5, <1>6, <1>7, <1>8

LEMMA InitSucceedsKeeps ==
    ASSUME IInv, NEW s \in Starters, InitSucceeds(s)
    PROVE  IInv'
<1> USE NilAssumption, ServiceAssumption DEF IInv
<1>0. NewChan \in Chans /\ NewChan \notin Held /\ forwarder[NewChan] = "none"
  BY FreshChannel DEF InitSucceeds
<1>1. TypeOK'
  BY <1>0 DEF InitSucceeds, At, RunForwarder, TypeOK, Controller, LocalInv, Active,
         Copy, Status, Request, MaxAttempts, Held, Copies
<1>2. LocalInv'
  BY <1>0 DEF InitSucceeds, At, RunForwarder, TypeOK, Controller, LocalInv, Active,
         MaxAttempts, Held, Copies
<1>3. RequestInv'
  BY <1>0 DEF InitSucceeds, At, RunForwarder, TypeOK, Controller, RequestInv, Held,
         Copies
<1>4. FlightInv'
  BY <1>0 DEF InitSucceeds, At, RunForwarder, TypeOK, Controller, FlightInv, Starting,
         LocalInv, Held, Copies
<1>5. DistinctInv'
  BY <1>0 DEF InitSucceeds, At, RunForwarder, TypeOK, Controller, DistinctInv,
         LocalInv, Active, Held, Copies
<1>6. RefreshInv'
  BY <1>0 DEF InitSucceeds, At, RunForwarder, TypeOK, Controller, RefreshInv,
         DistinctInv, LocalInv, Active, Held, Copies
<1>7. ForwardersAreHeld'
  BY <1>0 DEF InitSucceeds, At, RunForwarder, TypeOK, Controller, ForwardersAreHeld,
         RefreshInv, LocalInv, Active, Held, Copies
<1>8. StartingIsPrivate'
  BY <1>0 DEF InitSucceeds, At, RunForwarder, TypeOK, Controller, StartingIsPrivate,
         DistinctInv, LocalInv, Active, Copies, Held
<1> QED BY <1>1, <1>2, <1>3, <1>4, <1>5, <1>6, <1>7, <1>8

LEMMA BecomesReadyKeeps ==
    ASSUME IInv, NEW s \in Starters, BecomesReady(s)
    PROVE  IInv'
<1> USE NilAssumption, ServiceAssumption DEF IInv
<1>1. TypeOK'
  <2>1. ctl' \in [Starters -> Controller]
    <3> DEFINE c == [ctl[s] EXCEPT !.pc = "monitor", !.attempt = 0]
    <3>1. c \in Controller
      BY AttemptsBound DEF TypeOK, Controller
    <3>2. ctl' = [ctl EXCEPT ![s] = c]
      BY DEF BecomesReady, TypeOK, Controller
    <3> HIDE DEF c
    <3> QED BY <3>1, <3>2 DEF TypeOK
  <2>2. cache' \in Copy \cup {Nil}
    BY DEF BecomesReady, At, Snapshot, TypeOK, Copy, Status, LocalInv, Active
  <2>3. inFlight' \in BOOLEAN
    BY Zenon DEF BecomesReady, TypeOK
  <2>4. closed' \subseteq Chans
    BY DEF BecomesReady, At, Snapshot, TypeOK, LocalInv, Active
  <2> QED BY <2>1, <2>2, <2>3, <2>4 DEF BecomesReady, TypeOK
<1>2. LocalInv'
  BY DEF BecomesReady, At, Snapshot, TypeOK, Controller, LocalInv, Active, MaxAttempts
<1>3. RequestInv'
  BY DEF BecomesReady, At, Snapshot, TypeOK, Controller, RequestInv
<1>4. FlightInv'
  <2>1. CASE ctl[s].attempt > 0
    <3>1. \A t \in Starters : Starting(t)' <=> Starting(t)
      BY <2>1 DEF BecomesReady, At, Snapshot, TypeOK, Controller, Starting
    <3>2. inFlight' <=> inFlight
      BY <2>1, Zenon DEF BecomesReady
    <3> QED BY <3>1, <3>2 DEF FlightInv
  <2>2. CASE ~(ctl[s].attempt > 0)
    <3>1. Starting(s)
      BY <2>2 DEF BecomesReady, At, TypeOK, Controller, MaxAttempts, Starting
    <3>2. \A t \in Starters : ~Starting(t)'
      BY <3>1 DEF BecomesReady, At, Snapshot, TypeOK, Controller, Starting, FlightInv
    <3>3. ~inFlight'
      BY <2>2, Zenon DEF BecomesReady
    <3> QED BY <3>2, <3>3 DEF FlightInv
  <2> QED BY <2>1, <2>2
<1>5. DistinctInv'
  BY DEF BecomesReady, At, Snapshot, TypeOK, Controller, DistinctInv, LocalInv, Active
<1>6. RefreshInv'
  BY DEF BecomesReady, At, Snapshot, TypeOK, Controller, RefreshInv, DistinctInv,
         LocalInv, Active
<1>7. ForwardersAreHeld'
  BY DEF BecomesReady, At, Snapshot, TypeOK, Controller, ForwardersAreHeld, RefreshInv,
         LocalInv, Active
<1>8. StartingIsPrivate'
  BY DEF BecomesReady, At, Snapshot, TypeOK, Controller, StartingIsPrivate,
         DistinctInv, LocalInv, Active, Copies
<1> QED BY <1>1, <1>2, <1>3, <1>4, <1>5, <1>6, <1>7, <1>8

LEMMA NotReadyKeeps ==
    ASSUME IInv, NEW s \in Starters, NotReady(s)
    PROVE  IInv'
<1> USE NilAssumption, ServiceAssumption DEF IInv
<1>1. TypeOK'
  BY DEF NotReady, At, Snapshot, TypeOK, Controller, LocalInv, Active, Copy, Status,
         Request, MaxAttempts
<1>2. LocalInv'
  BY DEF NotReady, At, Snapshot, TypeOK, Controller, LocalInv, Active, MaxAttempts
<1>3. RequestInv'
  BY DEF NotReady, At, Snapshot, TypeOK, Controller, RequestInv
<1>4. FlightInv'
  BY DEF NotReady, At, Snapshot, TypeOK, Controller, FlightInv, Starting, LocalInv
<1>5. DistinctInv'
  BY DEF NotReady, At, Snapshot, TypeOK, Controller, DistinctInv, LocalInv, Active
<1>6. RefreshInv'
  BY DEF NotReady, At, Snapshot, TypeOK, Controller, RefreshInv, DistinctInv, LocalInv,
         Active
<1>7. ForwardersAreHeld'
  BY DEF NotReady, At, Snapshot, TypeOK, Controller, ForwardersAreHeld, RefreshInv,
         LocalInv, Active
<1>8. StartingIsPrivate'
  BY DEF NotReady, At, Snapshot, TypeOK, Controller, StartingIsPrivate, DistinctInv,
         LocalInv, Active, Copies
<1> QED BY <1>1, <1>2, <1>3, <1>4, <1>5, <1>6, <1>7, <1>8

LEMMA FailCloseKeeps ==
    ASSUME IInv, NEW s \in Starters, FailClose(s)
    PROVE  IInv'
<1> USE NilAssumption, ServiceAssumption DEF IInv
<1>1. TypeOK'
  <2>1. ctl' \in [Starters -> Controller]
    <3> DEFINE c == [ctl[s] EXCEPT !.pc = IF ctl[s].attempt = 0 THEN "off" ELSE "refresh",
                                !.chan = IF ctl[s].attempt = 0 THEN Nil ELSE @]
    <3>1. c \in Controller
      BY DEF TypeOK, Controller
    <3>2. ctl' = [ctl EXCEPT ![s] = c]
      BY DEF FailClose, TypeOK, Controller
    <3> HIDE DEF c
    <3> QED BY <3>1, <3>2 DEF TypeOK
  <2>2. cache' \in Copy \cup {Nil}
    BY DEF FailClose, At, TypeOK, Copy, Status, LocalInv, Active
  <2>3. inFlight' \in BOOLEAN
    BY Zenon DEF FailClose, TypeOK
  <2>4. closed' \subseteq Chans
    BY DEF FailClose, At, TypeOK, LocalInv, Active
  <2> QED BY <2>1, <2>2, <2>3, <2>4 DEF FailClose, TypeOK
<1>2. LocalInv'
  BY DEF FailClose, At, TypeOK, Controller, LocalInv, Active, MaxAttempts
<1>3. RequestInv'
  BY DEF FailClose, At, TypeOK, Controller, RequestInv
<1>4. FlightInv'
  <2>1. CASE ctl[s].attempt /= 0
    <3>1. \A t \in Starters : Starting(t)' <=> Starting(t)
      BY <2>1 DEF FailClose, At, TypeOK, Controller, Starting
    <3>2. inFlight' <=> inFlight
      BY <2>1, Zenon DEF FailClose
    <3> QED BY <3>1, <3>2 DEF FlightInv
  <2>2. CASE ctl[s].attempt = 0
    <3>1. Starting(s)
      BY <2>2 DEF FailClose, At, Starting
    <3>2. \A t \in Starters : ~Starting(t)'
      BY <3>1 DEF FailClose, At, TypeOK, Controller, Starting, FlightInv
    <3>3. ~inFlight'
      BY <2>2, Zenon DEF FailClose
    <3> QED BY <3>2, <3>3 DEF FlightInv
  <2> QED BY <2>1, <2>2
<1>5. DistinctInv'
  BY DEF FailClose, At, TypeOK, Controller, DistinctInv, LocalInv, Active
<1>6. RefreshInv'
  BY DEF FailClose, At, TypeOK, Controller, RefreshInv, DistinctInv, LocalInv, Active
<1>7. ForwardersAreHeld'
  BY DEF FailClose, At, TypeOK, Controller, ForwardersAreHeld, RefreshInv, LocalInv,
         Active
<1>8. StartingIsPrivate'
  BY DEF FailClose, At, TypeOK, Controller, StartingIsPrivate, DistinctInv, LocalInv,
         Active, Copies
<1> QED BY <1>1, <1>2, <1>3, <1>4, <1>5, <1>6, <1>7, <1>8

LEMMA MonitorStopsKeeps ==
    ASSUME IInv, NEW s \in Starters, MonitorStops(s)
    PROVE  IInv'
<1> USE NilAssumption, ServiceAssumption DEF IInv
<1>1. TypeOK'
  BY DEF MonitorStops, At, TypeOK, Controller, LocalInv, Active, Copy, Status, Request,
         MaxAttempts
<1>2. LocalInv'
  BY DEF MonitorStops, At, TypeOK, Controller, LocalInv, Active, MaxAttempts
<1>3. RequestInv'
  BY DEF MonitorStops, At, TypeOK, Controller, RequestInv
<1>4. FlightInv'
  BY DEF MonitorStops, At, TypeOK, Controller, FlightInv, Starting, LocalInv
<1>5. DistinctInv'
  BY DEF MonitorStops, At, TypeOK, Controller, DistinctInv, LocalInv, Active
<1>6. RefreshInv'
  BY DEF MonitorStops, At, TypeOK, Controller, RefreshInv, DistinctInv, LocalInv, Active
<1>7. ForwardersAreHeld'
  BY DEF MonitorStops, At, TypeOK, Controller, ForwardersAreHeld, RefreshInv, LocalInv,
         Active
<1>8. StartingIsPrivate'
  BY DEF MonitorStops, At, TypeOK, Controller, StartingIsPrivate, DistinctInv,
         LocalInv, Active, Copies
<1> QED BY <1>1, <1>2, <1>3, <1>4, <1>5, <1>6, <1>7, <1>8

LEMMA TickKeeps ==
    ASSUME IInv, NEW s \in Starters, Tick(s)
    PROVE  IInv'
<1> USE NilAssumption, ServiceAssumption DEF IInv
<1>1. TypeOK'
  BY DEF Tick, At, TypeOK, Controller, LocalInv, Active, Copy, Status, Request,
         MaxAttempts
<1>2. LocalInv'
  BY DEF Tick, At, TypeOK, Controller, LocalInv, Active, MaxAttempts
<1>3. RequestInv'
  BY DEF Tick, At, TypeOK, Controller, RequestInv
<1>4. FlightInv'
  BY DEF Tick, At, TypeOK, Controller, FlightInv, Starting, LocalInv
<1>5. DistinctInv'
  BY DEF Tick, At, TypeOK, Controller, DistinctInv, LocalInv, Active
<1>6. RefreshInv'
  BY DEF Tick, At, TypeOK, Controller, RefreshInv, DistinctInv, LocalInv, Active
<1>7. ForwardersAreHeld'
  BY DEF Tick, At, TypeOK, Controller, ForwardersAreHeld, RefreshInv, LocalInv, Active
<1>8. StartingIsPrivate'
  BY DEF Tick, At, TypeOK, Controller, StartingIsPrivate, DistinctInv, LocalInv,
         Active, Copies
<1> QED BY <1>1, <1>2, <1>3, <1>4, <1>5, <1>6, <1>7, <1>8

LEMMA CheckOKKeeps ==
    ASSUME IInv, NEW s \in Starters, CheckOK(s)
    PROVE  IInv'
<1> USE NilAssumption, ServiceAssumption DEF IInv
<1>1. TypeOK'
  BY DEF CheckOK, At, TypeOK, Controller, LocalInv, Active, Copy, Status, Request,
         MaxAttempts
<1>2. LocalInv'
  BY DEF CheckOK, At, TypeOK, Controller, LocalInv, Active, MaxAttempts
<1>3. RequestInv'
  BY DEF CheckOK, At, TypeOK, Controller, RequestInv
<1>4. FlightInv'
  BY DEF CheckOK, At, TypeOK, Controller, FlightInv, Starting, LocalInv
<1>5. DistinctInv'
  BY DEF CheckOK, At, TypeOK, Controller, DistinctInv, LocalInv, Active
<1>6. RefreshInv'
  BY DEF CheckOK, At, TypeOK, Controller, RefreshInv, DistinctInv, LocalInv, Active
<1>7. ForwardersAreHeld'
  BY DEF CheckOK, At, TypeOK, Controller, ForwardersAreHeld, RefreshInv, LocalInv,
         Active
<1>8. StartingIsPrivate'
  BY DEF CheckOK, At, TypeOK, Controller, StartingIsPrivate, DistinctInv, LocalInv,
         Active, Copies
<1> QED BY <1>1, <1>2, <1>3, <1>4, <1>5, <1>6, <1>7, <1>8

LEMMA CheckFailsKeeps ==
    ASSUME IInv, NEW s \in Starters, CheckFails(s)
    PROVE  IInv'
<1> USE NilAssumption, ServiceAssumption DEF IInv
<1>1. TypeOK'
  BY DEF CheckFails, At, Snapshot, TypeOK, Controller, LocalInv, Active, Copy, Status,
         Request, MaxAttempts
<1>2. LocalInv'
  BY DEF CheckFails, At, Snapshot, TypeOK, Controller, LocalInv, Active, MaxAttempts
<1>3. RequestInv'
  BY DEF CheckFails, At, Snapshot, TypeOK, Controller, RequestInv
<1>4. FlightInv'
  BY DEF CheckFails, At, Snapshot, TypeOK, Controller, FlightInv, Starting, LocalInv
<1>5. DistinctInv'
  BY DEF CheckFails, At, Snapshot, TypeOK, Controller, DistinctInv, LocalInv, Active
<1>6. RefreshInv'
  BY DEF CheckFails, At, Snapshot, TypeOK, Controller, RefreshInv, DistinctInv,
         LocalInv, Active
<1>7. ForwardersAreHeld'
  BY DEF CheckFails, At, Snapshot, TypeOK, Controller, ForwardersAreHeld, RefreshInv,
         LocalInv, Active
<1>8. StartingIsPrivate'
  BY DEF CheckFails, At, Snapshot, TypeOK, Controller, StartingIsPrivate, DistinctInv,
         LocalInv, Active, Copies
<1> QED BY <1>1, <1>2, <1>3, <1>4, <1>5, <1>6, <1>7, <1>8

LEMMA HangUpKeeps ==
    ASSUME IInv, NEW s \in Starters, HangUp(s)
    PROVE  IInv'
<1> USE NilAssumption, ServiceAssumption DEF IInv
<1>0. NewChan \in Chans /\ NewChan \notin Held /\ forwarder[NewChan] = "none"
  BY FreshChannel DEF HangUp
<1>1. TypeOK'
  BY <1>0 DEF HangUp, At, TypeOK, Controller, LocalInv, Active, Copy, Status, Request,
         MaxAttempts, Held, Copies
<1>2. LocalInv'
  BY <1>0 DEF HangUp, At, TypeOK, Controller, LocalInv, Active, MaxAttempts, Held,
         Copies
<1>3. RequestInv'
  BY <1>0 DEF HangUp, At, TypeOK, Controller, RequestInv, Held, Copies
<1>4. FlightInv'
  BY <1>0 DEF HangUp, At, TypeOK, Controller, FlightInv, Starting, LocalInv, Held,
         Copies
<1>5. DistinctInv'
  BY <1>0 DEF HangUp, At, TypeOK, Controller, DistinctInv, LocalInv, Active, Held,
         Copies
<1>6. RefreshInv'
  BY <1>0 DEF HangUp, At, TypeOK, Controller, RefreshInv, DistinctInv, LocalInv,
         Active, Held, Copies
<1>7. ForwardersAreHeld'
  BY <1>0 DEF HangUp, At, TypeOK, Controller, ForwardersAreHeld, RefreshInv, LocalInv,
         Active, Held, Copies
<1>8. StartingIsPrivate'
  BY <1>0 DEF HangUp, At, TypeOK, Controller, StartingIsPrivate, DistinctInv, LocalInv,
         Active, Copies, Held
<1> QED BY <1>1, <1>2, <1>3, <1>4, <1>5, <1>6, <1>7, <1>8

LEMMA BackoffKeeps ==
    ASSUME IInv, NEW s \in Starters, Backoff(s)
    PROVE  IInv'
<1> USE NilAssumption, ServiceAssumption DEF IInv
<1>1. TypeOK'
  BY DEF Backoff, At, TypeOK, Controller, LocalInv, Active, Copy, Status, Request,
         MaxAttempts
<1>2. LocalInv'
  BY DEF Backoff, At, TypeOK, Controller, LocalInv, Active, MaxAttempts
<1>3. RequestInv'
  BY DEF Backoff, At, TypeOK, Controller, RequestInv
<1>4. FlightInv'
  BY DEF Backoff, At, TypeOK, Controller, FlightInv, Starting, LocalInv
<1>5. DistinctInv'
  BY DEF Backoff, At, TypeOK, Controller, DistinctInv, LocalInv, Active
<1>6. RefreshInv'
  BY DEF Backoff, At, TypeOK, Controller, RefreshInv, DistinctInv, LocalInv, Active
<1>7. ForwardersAreHeld'
  BY DEF Backoff, At, TypeOK, Controller, ForwardersAreHeld, RefreshInv, LocalInv,
         Active
<1>8. StartingIsPrivate'
  BY DEF Backoff, At, TypeOK, Controller, StartingIsPrivate, DistinctInv, LocalInv,
         Active, Copies
<1> QED BY <1>1, <1>2, <1>3, <1>4, <1>5, <1>6, <1>7, <1>8

LEMMA TryFailsKeeps ==
    ASSUME IInv, NEW s \in Starters, TryFails(s)
    PROVE  IInv'
<1> USE NilAssumption, ServiceAssumption DEF IInv
<1>1. TypeOK'
  <2>1. ctl' \in [Starters -> Controller]
    <3> DEFINE c == NextAttempt(ctl[s])
    <3>1. c \in Controller
      BY NextAttemptType DEF TypeOK
    <3>2. ctl' = [ctl EXCEPT ![s] = c]
      BY DEF TryFails, TypeOK, Controller
    <3> HIDE DEF c
    <3> QED BY <3>1, <3>2 DEF TypeOK
  <2>2. cache' \in Copy \cup {Nil}
    BY DEF TryFails, At, Snapshot, NextAttempt, TypeOK, Copy, Status, LocalInv, Active
  <2>3. inFlight' \in BOOLEAN
    BY Zenon DEF TryFails, TypeOK
  <2>4. closed' \subseteq Chans
    BY DEF TryFails, At, Snapshot, NextAttempt, TypeOK, LocalInv, Active
  <2> QED BY <2>1, <2>2, <2>3, <2>4 DEF TryFails, TypeOK
<1>2. LocalInv'
  BY DEF TryFails, At, Snapshot, NextAttempt, TypeOK, Controller, LocalInv, Active,
         MaxAttempts
<1>3. RequestInv'
  BY DEF TryFails, At, Snapshot, NextAttempt, TypeOK, Controller, RequestInv
<1>4. FlightInv'
  BY DEF TryFails, At, Snapshot, NextAttempt, TypeOK, Controller, FlightInv, Starting,
         LocalInv
<1>5. DistinctInv'
  BY DEF TryFails, At, Snapshot, NextAttempt, TypeOK, Controller, DistinctInv,
         LocalInv, Active
<1>6. RefreshInv'
  BY DEF TryFails, At, Snapshot, NextAttempt, TypeOK, Controller, RefreshInv,
         DistinctInv, LocalInv, Active
<1>7. ForwardersAreHeld'
  BY DEF TryFails, At, Snapshot, NextAttempt, TypeOK, Controller, ForwardersAreHeld,
         RefreshInv, LocalInv, Active
<1>8. StartingIsPrivate'
  BY DEF TryFails, At, Snapshot, NextAttempt, TypeOK, Controller, StartingIsPrivate,
         DistinctInv, LocalInv, Active, Copies
<1> QED BY <1>1, <1>2, <1>3, <1>4, <1>5, <1>6, <1>7, <1>8

LEMMA TrySwapsKeeps ==
    ASSUME IInv, NEW s \in Starters, TrySwaps(s)
    PROVE  IInv'
<1> USE NilAssumption, ServiceAssumption DEF IInv
<1>0. NewChan \in Chans /\ NewChan \notin Held /\ forwarder[NewChan] = "none"
  BY FreshChannel DEF TrySwaps
<1>1. TypeOK'
  BY <1>0 DEF TrySwaps, At, RunForwarder, TypeOK, Controller, LocalInv, Active, Copy,
         Status, Request, MaxAttempts, Held, Copies
<1>2. LocalInv'
  BY <1>0 DEF TrySwaps, At, RunForwarder, TypeOK, Controller, LocalInv, Active,
         MaxAttempts, Held, Copies
<1>3. RequestInv'
  BY <1>0 DEF TrySwaps, At, RunForwarder, TypeOK, Controller, RequestInv, Held, Copies
<1>4. FlightInv'
  BY <1>0 DEF TrySwaps, At, RunForwarder, TypeOK, Controller, FlightInv, Starting,
         LocalInv, Held, Copies
<1>5. DistinctInv'
  BY <1>0 DEF TrySwaps, At, RunForwarder, TypeOK, Controller, DistinctInv, LocalInv,
         Active, Held, Copies
<1>6. RefreshInv'
  BY <1>0 DEF TrySwaps, At, RunForwarder, TypeOK, Controller, RefreshInv, DistinctInv,
         LocalInv, Active, Held, Copies
<1>7. ForwardersAreHeld'
  BY <1>0 DEF TrySwaps, At, RunForwarder, TypeOK, Controller, ForwardersAreHeld,
         RefreshInv, LocalInv, Active, Held, Copies
<1>8. StartingIsPrivate'
  BY <1>0 DEF TrySwaps, At, RunForwarder, TypeOK, Controller, StartingIsPrivate,
         DistinctInv, LocalInv, Active, Copies, Held
<1> QED BY <1>1, <1>2, <1>3, <1>4, <1>5, <1>6, <1>7, <1>8

LEMMA RefreshKeeps ==
    ASSUME IInv, NEW s \in Starters, Refresh(s)
    PROVE  IInv'
<1> USE NilAssumption, ServiceAssumption DEF IInv
<1>0. NewChan \in Chans /\ NewChan \notin Held /\ forwarder[NewChan] = "none"
  BY FreshChannel DEF Refresh
<1>1. TypeOK'
  <2>1. ctl' \in [Starters -> Controller]
    <3> DEFINE c == NextAttempt([ctl[s] EXCEPT !.chan = NewChan])
    <3>1. c \in Controller
      <4>1. [ctl[s] EXCEPT !.chan = NewChan] \in Controller
        BY <1>0 DEF TypeOK, Controller
      <4> QED BY <4>1, NextAttemptType
    <3>2. ctl' = [ctl EXCEPT ![s] = c]
      BY DEF Refresh, TypeOK, Controller
    <3> HIDE DEF c
    <3> QED BY <3>1, <3>2 DEF TypeOK
  <2>2. cache' \in Copy \cup {Nil}
    BY <1>0 DEF Refresh, At, NextAttempt, TypeOK, Copy, Status, LocalInv, Active
  <2>3. inFlight' \in BOOLEAN
    BY Zenon DEF Refresh, TypeOK
  <2>4. closed' \subseteq Chans
    BY <1>0 DEF Refresh, At, NextAttempt, TypeOK, LocalInv, Active
  <2> QED BY <2>1, <2>2, <2>3, <2>4 DEF Refresh, TypeOK
<1>2. LocalInv'
  BY <1>0 DEF Refresh, At, NextAttempt, TypeOK, Controller, LocalInv, Active,
         MaxAttempts, Held, Copies
<1>3. RequestInv'
  BY <1>0 DEF Refresh, At, NextAttempt, TypeOK, Controller, RequestInv, Held, Copies
<1>4. FlightInv'
  BY <1>0 DEF Refresh, At, NextAttempt, TypeOK, Controller, FlightInv, Starting,
         LocalInv, Held, Copies
<1>5. DistinctInv'
  BY <1>0 DEF Refresh, At, NextAttempt, TypeOK, Controller, DistinctInv, LocalInv,
         Active, Held, Copies
<1>6. RefreshInv'
  BY <1>0 DEF Refresh, At, NextAttempt, TypeOK, Controller, RefreshInv, DistinctInv,
         LocalInv, Active, Held, Copies
<1>7. ForwardersAreHeld'
  BY <1>0 DEF Refresh, At, NextAttempt, TypeOK, Controller, ForwardersAreHeld,
         RefreshInv, LocalInv, Active, Held, Copies
<1>8. StartingIsPrivate'
  BY <1>0 DEF Refresh, At, NextAttempt, TypeOK, Controller, StartingIsPrivate,
         DistinctInv, LocalInv, Active, Copies, Held
<1> QED BY <1>1, <1>2, <1>3, <1>4, <1>5, <1>6, <1>7, <1>8

LEMMA GiveUpKeeps ==
    ASSUME IInv, NEW s \in Starters, GiveUp(s)
    PROVE  IInv'
<1> USE NilAssumption, ServiceAssumption DEF IInv
<1>1. TypeOK'
  BY DEF GiveUp, At, Snapshot, TypeOK, Controller, LocalInv, Active, Copy, Status,
         Request, MaxAttempts
<1>2. LocalInv'
  BY DEF GiveUp, At, Snapshot, TypeOK, Controller, LocalInv, Active, MaxAttempts
<1>3. RequestInv'
  BY DEF GiveUp, At, Snapshot, TypeOK, Controller, RequestInv
<1>4. FlightInv'
  BY DEF GiveUp, At, Snapshot, TypeOK, Controller, FlightInv, Starting, LocalInv
<1>5. DistinctInv'
  BY DEF GiveUp, At, Snapshot, TypeOK, Controller, DistinctInv, LocalInv, Active
<1>6. RefreshInv'
  BY DEF GiveUp, At, Snapshot, TypeOK, Controller, RefreshInv, DistinctInv, LocalInv,
         Active
<1>7. ForwardersAreHeld'
  BY DEF GiveUp, At, Snapshot, TypeOK, Controller, ForwardersAreHeld, RefreshInv,
         LocalInv, Active
<1>8. StartingIsPrivate'
  BY DEF GiveUp, At, Snapshot, TypeOK, Controller, StartingIsPrivate, DistinctInv,
         LocalInv, Active, Copies
<1> QED BY <1>1, <1>2, <1>3, <1>4, <1>5, <1>6, <1>7, <1>8

LEMMA EndKeeps ==
    ASSUME IInv, NEW s \in Starters, End(s)
    PROVE  IInv'
<1> USE NilAssumption, ServiceAssumption DEF IInv
<1>1. TypeOK'
  BY DEF End, At, TypeOK, Controller, LocalInv, Active, Copy, Status, Request,
         MaxAttempts
<1>2. LocalInv'
  BY DEF End, At, TypeOK, Controller, LocalInv, Active, MaxAttempts
<1>3. RequestInv'
  BY DEF End, At, TypeOK, Controller, RequestInv
<1>4. FlightInv'
  BY DEF End, At, TypeOK, Controller, FlightInv, Starting, LocalInv
<1>5. DistinctInv'
  BY DEF End, At, TypeOK, Controller, DistinctInv, LocalInv, Active
<1>6. RefreshInv'
  BY DEF End, At, TypeOK, Controller, RefreshInv, DistinctInv, LocalInv, Active
<1>7. ForwardersAreHeld'
  BY DEF End, At, TypeOK, Controller, ForwardersAreHeld, RefreshInv, LocalInv, Active
<1>8. StartingIsPrivate'
  BY DEF End, At, TypeOK, Controller, StartingIsPrivate, DistinctInv, LocalInv, Active,
         Copies
<1> QED BY <1>1, <1>2, <1>3, <1>4, <1>5, <1>6, <1>7, <1>8

LEMMA UserGetKeeps ==
    ASSUME IInv, NEW u \in Users, UserGet(u)
    PROVE  IInv'
<1> USE NilAssumption, CopyAssumption DEF IInv
<1>1. TypeOK'
  BY DEF UserGet, TypeOK, Controller, Request, Copy, Status, RequestInv, At, LocalInv,
         Active, MaxAttempts
<1>2. LocalInv'
  BY DEF UserGet, TypeOK, Controller, Request, Copy, Status, RequestInv, At, LocalInv,
         Active, MaxAttempts
<1>3. RequestInv'
  BY DEF UserGet, TypeOK, Controller, Request, Copy, Status, RequestInv, At
<1>4. FlightInv'
  BY DEF UserGet, TypeOK, Controller, Request, Copy, Status, RequestInv, At, FlightInv,
         Starting, LocalInv
<1>5. DistinctInv'
  BY DEF UserGet, TypeOK, Controller, Request, Copy, Status, RequestInv, At,
         DistinctInv, LocalInv, Active
<1>6. RefreshInv'
  BY DEF UserGet, TypeOK, Controller, Request, Copy, Status, RequestInv, At,
         RefreshInv, DistinctInv, LocalInv, Active
<1>7. ForwardersAreHeld'
  BY DEF UserGet, TypeOK, Controller, Request, Copy, Status, RequestInv, At,
         ForwardersAreHeld, RefreshInv, LocalInv, Active
<1>8. StartingIsPrivate'
  BY DEF UserGet, TypeOK, Controller, Request, Copy, Status, RequestInv, At,
         StartingIsPrivate, DistinctInv, LocalInv, Active, Copies
<1> QED BY <1>1, <1>2, <1>3, <1>4, <1>5, <1>6, <1>7, <1>8

LEMMA UserCloseKeeps ==
    ASSUME IInv, NEW u \in Users, UserClose(u)
    PROVE  IInv'
<1> USE NilAssumption, CopyAssumption DEF IInv
<1>1. TypeOK'
  BY DEF UserClose, TypeOK, Controller, Request, Copy, Status, RequestInv, At,
         LocalInv, Active, MaxAttempts
<1>2. LocalInv'
  BY DEF UserClose, TypeOK, Controller, Request, Copy, Status, RequestInv, At,
         LocalInv, Active, MaxAttempts
<1>3. RequestInv'
  BY DEF UserClose, TypeOK, Controller, Request, Copy, Status, RequestInv, At
<1>4. FlightInv'
  BY DEF UserClose, TypeOK, Controller, Request, Copy, Status, RequestInv, At,
         FlightInv, Starting, LocalInv
<1>5. DistinctInv'
  BY DEF UserClose, TypeOK, Controller, Request, Copy, Status, RequestInv, At,
         DistinctInv, LocalInv, Active
<1>6. RefreshInv'
  BY DEF UserClose, TypeOK, Controller, Request, Copy, Status, RequestInv, At,
         RefreshInv, DistinctInv, LocalInv, Active
<1>7. ForwardersAreHeld'
  BY DEF UserClose, TypeOK, Controller, Request, Copy, Status, RequestInv, At,
         ForwardersAreHeld, RefreshInv, LocalInv, Active
<1>8. StartingIsPrivate'
  BY DEF UserClose, TypeOK, Controller, Request, Copy, Status, RequestInv, At,
         StartingIsPrivate, DistinctInv, LocalInv, Active, Copies
<1> QED BY <1>1, <1>2, <1>3, <1>4, <1>5, <1>6, <1>7, <1>8

LEMMA UserFinishKeeps ==
    ASSUME IInv, NEW u \in Users, UserFinish(u)
    PROVE  IInv'
<1> USE NilAssumption, CopyAssumption DEF IInv
<1>1. TypeOK'
  BY DEF UserFinish, TypeOK, Controller, Request, Copy, Status, RequestInv, At,
         LocalInv, Active, MaxAttempts
<1>2. LocalInv'
  BY DEF UserFinish, TypeOK, Controller, Request, Copy, Status, RequestInv, At,
         LocalInv, Active, MaxAttempts
<1>3. RequestInv'
  BY DEF UserFinish, TypeOK, Controller, Request, Copy, Status, RequestInv, At
<1>4. FlightInv'
  BY DEF UserFinish, TypeOK, Controller, Request, Copy, Status, RequestInv, At,
         FlightInv, Starting, LocalInv
<1>5. DistinctInv'
  BY DEF UserFinish, TypeOK, Controller, Request, Copy, Status, RequestInv, At,
         DistinctInv, LocalInv, Active
<1>6. RefreshInv'
  BY DEF UserFinish, TypeOK, Controller, Request, Copy, Status, RequestInv, At,
         RefreshInv, DistinctInv, LocalInv, Active
<1>7. ForwardersAreHeld'
  BY DEF UserFinish, TypeOK, Controller, Request, Copy, Status, RequestInv, At,
         ForwardersAreHeld, RefreshInv, LocalInv, Active
<1>8. StartingIsPrivate'
  BY DEF UserFinish, TypeOK, Controller, Request, Copy, Status, RequestInv, At,
         StartingIsPrivate, DistinctInv, LocalInv, Active, Copies
<1> QED BY <1>1, <1>2, <1>3, <1>4, <1>5, <1>6, <1>7, <1>8

LEMMA ForwarderListensKeeps ==
    ASSUME IInv, NEW ch \in Chans, ForwarderListens(ch)
    PROVE  IInv'
BY DEF IInv, ForwarderListens, TypeOK, LocalInv, RequestInv, FlightInv, Starting, DistinctInv,
       RefreshInv, ForwardersAreHeld, StartingIsPrivate, Active, At, Copies

LEMMA ForwarderFailsKeeps ==
    ASSUME IInv, NEW ch \in Chans, ForwarderFails(ch)
    PROVE  IInv'
BY DEF IInv, ForwarderFails, TypeOK, LocalInv, RequestInv, FlightInv, Starting, DistinctInv,
       RefreshInv, ForwardersAreHeld, StartingIsPrivate, Active, At, Copies

-----------------------------------------------------------------------------
LEMMA InitEstablishes == Init => IInv
<1> SUFFICES ASSUME Init PROVE IInv
  OBVIOUS
<1> USE NilAssumption DEF Init
<1>1. TypeOK
  BY AttemptsBound DEF TypeOK, Controller, Request
<1>2. LocalInv /\ RequestInv /\ DistinctInv /\ RefreshInv
  BY DEF LocalInv, RequestInv, DistinctInv, RefreshInv, Active, At
<1>3. FlightInv
  BY DEF FlightInv, Starting
<1>4. ForwardersAreHeld /\ StartingIsPrivate
  BY DEF ForwardersAreHeld, StartingIsPrivate, At
<1> QED BY <1>1, <1>2, <1>3, <1>4 DEF IInv

LEMMA NextKeeps == IInv /\ [Next]_vars => IInv'
<1> SUFFICES ASSUME IInv, [Next]_vars PROVE IInv'
  OBVIOUS
<1>1. ASSUME NEW s \in Starters,
             ControllerStep(s) \/ CheckExisting(s) \/ MonitorStops(s) \/ Tick(s)
      PROVE  IInv'
  BY <1>1, CheckExistingKeeps, ClaimKeeps, InitFailsKeeps, InitSucceedsKeeps, BecomesReadyKeeps,
     NotReadyKeeps, FailCloseKeeps, MonitorStopsKeeps, TickKeeps, CheckOKKeeps, CheckFailsKeeps,
     HangUpKeeps, BackoffKeeps, TryFailsKeeps, TrySwapsKeeps, RefreshKeeps, GiveUpKeeps, EndKeeps
     DEF ControllerStep
<1>2. ASSUME NEW u \in Users, UserGet(u) \/ UserClose(u) \/ UserFinish(u)
      PROVE  IInv'
  BY <1>2, UserGetKeeps, UserCloseKeeps, UserFinishKeeps
<1>3. ASSUME NEW ch \in Chans, ForwarderListens(ch) \/ ForwarderFails(ch)
      PROVE  IInv'
  BY <1>3, ForwarderListensKeeps, ForwarderFailsKeeps
<1>4. CASE UNCHANGED vars
  BY <1>4 DEF vars, IInv, TypeOK, LocalInv, RequestInv, FlightInv, Starting, DistinctInv,
              RefreshInv, ForwardersAreHeld, StartingIsPrivate, Active, At, Copies
<1> QED BY <1>1, <1>2, <1>3, <1>4 DEF Next, Terminated

LEMMA Invariance == Spec => []IInv
BY InitEstablishes, NextKeeps, PTL DEF Spec

-----------------------------------------------------------------------------
(***************************************************************************)
(* Port forwarding keeps to its types: among them, a reconnect never makes *)
(* more attempts than attemptReconnect has backoffs.                       *)
(***************************************************************************)
THEOREM TypeCorrect == Spec => []TypeOK
<1>1. IInv => TypeOK
  BY DEF IInv
<1> QED BY <1>1, Invariance, PTL

(***************************************************************************)
(* Start requests for one ID exclude each other through                    *)
(* inFlightPortForwards, and the mark never stays behind.                  *)
(***************************************************************************)
THEOREM StartsExclude == Spec => []StartsAreExclusive
<1>1. IInv => StartsAreExclusive
  BY DEF IInv, FlightInv, StartsAreExclusive
<1> QED BY <1>1, Invariance, PTL

(***************************************************************************)
(* Every forwarder that was not told to stop belongs to the channel that   *)
(* an active controller holds now: handlePodCheck and tryReconnectOnce     *)
(* never lose one when they swap closeChan.                                *)
(***************************************************************************)
THEOREM NoForwarderIsLost == Spec => []ForwardersAreHeld
<1>1. IInv => ForwardersAreHeld
  BY DEF IInv
<1> QED BY <1>1, Invariance, PTL

(***************************************************************************)
(* Nobody can stop a forward before it is ready: the branch of             *)
(* handlePortForwardReadiness for a closed channel is dead code.           *)
(***************************************************************************)
THEOREM PrivateUntilReady == Spec => []StartingIsPrivate
<1>1. IInv => StartingIsPrivate
  BY DEF IInv
<1> QED BY <1>1, Invariance, PTL

=============================================================================
