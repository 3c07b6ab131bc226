----------------------------- MODULE Multiplexer -----------------------------
(***************************************************************************)
(* The websocket multiplexer (backend/cmd/multiplexer.go).                 *)
(*                                                                         *)
(* A browser tab (a client) holds one websocket to the backend and asks    *)
(* over it for any number of websockets to clusters.  Three kinds of       *)
(* goroutines share a Connection:                                          *)
(*   handler  one per client: HandleClientWebSocket                        *)
(*   monitor  one per established connection: monitorConnection            *)
(*   reader   handleClusterMessages, started by the handler that           *)
(*            established the connection                                   *)
(*                                                                         *)
(* A critical section of m.mutex or of conn.mu is one step; everything     *)
(* between two critical sections may interleave with other goroutines.     *)
(* Messages are abstracted to what the properties tell apart: the STATUS   *)
(* messages a connection sends.  Tokens, queries, payloads and the         *)
(* COMPLETE and ERROR messages change no state of the multiplexer that     *)
(* another step depends on.                                                *)
(***************************************************************************)
EXTENDS Naturals, FiniteSets

CONSTANTS
    Clients,      \* browser sockets (WSConnLock objects)
    Keys,         \* connection keys: cluster, path and user
    Conns,        \* identities of Connection objects; bounds how many there are
    None,         \* nil
    PingMayFail   \* may a heartbeat find the cluster's websocket broken before
                  \* the reader has?

ASSUME NilAssumption == None \notin Clients \cup Keys \cup Conns
ASSUME PingAssumption == PingMayFail \in BOOLEAN

VARIABLES
    connections,  \* m.connections: key -> Connection or nil
    conn,         \* the Connection objects
    frame,        \* goroutine -> its position and local variables
    sock          \* client -> its websocket: up, gone (the browser left), closed

vars == <<connections, conn, frame, sock>>

-----------------------------------------------------------------------------
Handler(cl) == <<"handler", cl>>
Monitor(c) == <<"monitor", c>>
Reader(c) == <<"reader", c>>

Handlers == {Handler(cl) : cl \in Clients}
Monitors == {Monitor(c) : c \in Conns}
Readers == {Reader(c) : c \in Conns}

Goroutines == Handlers \cup Monitors \cup Readers

(***************************************************************************)
(* A Connection.  told is the last STATUS message written to the client    *)
(* on its behalf; once is the state of closeOnce; ws is the websocket to   *)
(* the cluster: ended when the cluster or the network has ended it, closed *)
(* when the backend has closed it.                                         *)
(***************************************************************************)
State == {"connecting", "connected", "error", "closed"}

Connection ==
    [key    : Keys \cup {None},
     client : Clients \cup {None},
     state  : State,
     closed : BOOLEAN,
     done   : BOOLEAN,
     once   : {"new", "running", "over"},
     ws     : {"none", "open", "ended", "closed"},
     told   : State \cup {None}]

\* createConnection
NewConnection(k, cl) ==
    [key |-> k, client |-> cl, state |-> "connecting", closed |-> FALSE,
     done |-> FALSE, once |-> "new", ws |-> "none", told |-> None]

Free(c) == conn[c].key = None

Live(c) == ~Free(c) /\ ~conn[c].closed

(***************************************************************************)
(* The position of a goroutine and its local variables: the connection it  *)
(* works on, the key and the client of the connection it establishes, the  *)
(* connections a departing handler still has to close, and where to go on  *)
(* when safeClose returns.                                                 *)
(***************************************************************************)
Frame ==
    [pc     : {"off", "loop", "dial", "insert", "reinsert", "start", "check",
               "write", "status", "close", "closeDone", "closeWS", "delete",
               "leave", "detach", "ping", "reconnect", "hangup", "send"},
     conn   : Conns \cup {None},
     key    : Keys \cup {None},
     client : Clients \cup {None},
     todo   : SUBSET Conns,
     ret    : {"off", "loop", "delete", "detach"}]

Start(c, cl) == [pc |-> "loop", conn |-> c, key |-> None, client |-> cl,
                 todo |-> {}, ret |-> "off"]

Off == [Start(None, None) EXCEPT !.pc = "off"]

At(g, pc) == frame[g].pc = pc

\* A handler that goes back to its loop, and a monitor that does: the local
\* variables of the last round are dead.
HandlerLoop(g) == [Start(None, frame[g].client) EXCEPT !.todo = frame[g].todo]

MonitorLoop(g) == Start(frame[g].conn, None)

Loop(g) == IF g \in Handlers THEN HandlerLoop(g) ELSE MonitorLoop(g)

\* safeClose returns to its caller.
Return(g) ==
    IF g \in Handlers THEN [HandlerLoop(g) EXCEPT !.pc = frame[g].ret]
                      ELSE [frame[g] EXCEPT !.pc = frame[g].ret]

-----------------------------------------------------------------------------
(***************************************************************************)
(* The methods of Connection that change its status, as functions of the   *)
(* record.  Each is one critical section of conn.mu.                       *)
(***************************************************************************)

\* writeStatusLocked: the client is told the state.
WriteStatus(r) == [r EXCEPT !.told = r.state]

\* Mutant of UpdateStatus: closed is not a flag of its own, it follows the state.
UpdateStatusReopens(r, state) ==
    LET s == [r EXCEPT !.state = state, !.closed = (state = "closed")] IN
    IF r.client = None THEN s ELSE WriteStatus(s)

\* updateStatus: nothing on a closed connection; no message without a client.
UpdateStatus(r, state) ==
    LET s == [r EXCEPT !.state = state] IN
    IF r.closed THEN r
    ELSE IF r.client = None THEN s ELSE WriteStatus(s)

\* Mutant of MarkClosed: the client is not told.
MarkClosedSilently(r) == [r EXCEPT !.state = "closed", !.closed = TRUE]

\* The critical section of safeClose: closed is announced unless the status
\* says that it already has been.
MarkClosed(r) ==
    LET s == [r EXCEPT !.state = "closed"]
        t == IF r.state /= "closed" /\ r.client /= None THEN WriteStatus(s) ELSE s
    IN  IF r.closed THEN r ELSE [t EXCEPT !.closed = TRUE]

\* The section of closeClientConnections that takes the client away.
Detach(r, cl) ==
    IF r.client = cl THEN [r EXCEPT !.client = None, !.state = "closed"] ELSE r

-----------------------------------------------------------------------------
Init ==
    /\ connections = [k \in Keys |-> None]
    /\ conn = [c \in Conns |-> NewConnection(None, None)]
    /\ frame = [g \in Goroutines |->
                  IF g \in Handlers THEN Start(None, g[2]) ELSE Off]
    /\ sock = [cl \in Clients |-> "up"]

(***************************************************************************)
(* safeClose, called by any goroutine g on frame[g].conn.  closeOnce lets  *)
(* one caller through; the others wait until that call is over.            *)
(***************************************************************************)
SafeCloseEnter(g) ==
    LET c == frame[g].conn IN
    /\ At(g, "close")
    /\ conn[c].once = "new"
    /\ conn' = [conn EXCEPT ![c] = [MarkClosed(conn[c]) EXCEPT !.once = "running"]]
    /\ frame' = [frame EXCEPT ![g].pc = "closeDone"]
    /\ UNCHANGED <<connections, sock>>

\* Mutant of SafeCloseDone: Done is not closed.
SafeCloseWithoutDone(g) ==
    /\ At(g, "closeDone")
    /\ frame' = [frame EXCEPT ![g].pc = "closeWS"]
    /\ UNCHANGED <<connections, conn, sock>>

SafeCloseDone(g) ==
    /\ At(g, "closeDone")
    /\ conn' = [conn EXCEPT ![frame[g].conn].done = TRUE]
    /\ frame' = [frame EXCEPT ![g].pc = "closeWS"]
    /\ UNCHANGED <<connections, sock>>

SafeCloseWS(g) ==
    LET c == frame[g].conn IN
    /\ At(g, "closeWS")
    /\ conn' = [conn EXCEPT ![c].ws = "closed", ![c].once = "over"]
    /\ frame' = [frame EXCEPT ![g] = Return(g)]
    /\ UNCHANGED <<connections, sock>>

\* Mutant of SafeCloseAgain: a flag in place of sync.Once, nobody waits.
SafeCloseNoWait(g) ==
    /\ At(g, "close")
    /\ conn[frame[g].conn].once /= "new"
    /\ frame' = [frame EXCEPT ![g] = Return(g)]
    /\ UNCHANGED <<connections, conn, sock>>

SafeCloseAgain(g) ==
    /\ At(g, "close")
    /\ conn[frame[g].conn].once = "over"
    /\ frame' = [frame EXCEPT ![g] = Return(g)]
    /\ UNCHANGED <<connections, conn, sock>>

(***************************************************************************)
(* establishClusterConnection, called by a handler and by a monitor.  The  *)
(* Connection it creates is unknown to other goroutines until Insert, so   *)
(* that the dial and the STATUS message connected are one step.  When the  *)
(* dial fails the new Connection is dropped, after a STATUS error on its   *)
(* behalf; told is a field of the Connection and goes with it.             *)
(***************************************************************************)
DialSucceeds(g) ==
    LET c == CHOOSE free \in Conns : Free(free)
        r == NewConnection(frame[g].key, frame[g].client)
    IN
    /\ At(g, "dial")
    /\ \E free \in Conns : Free(free)
    /\ conn' = [conn EXCEPT ![c] =
                  UpdateStatus([r EXCEPT !.ws = "open"], "connected")]
    /\ frame' = [frame EXCEPT ![g].pc = "insert", ![g].conn = c]
    /\ UNCHANGED <<connections, sock>>

DialFails(g) ==
    /\ At(g, "dial")
    /\ frame' = [frame EXCEPT ![g] = Loop(g)]
    /\ UNCHANGED <<connections, conn, sock>>

\* Mutant of Insert: no monitor is started.
InsertUnmonitored(g) ==
    LET c == frame[g].conn IN
    /\ At(g, "insert")
    /\ connections' = [connections EXCEPT ![frame[g].key] = c]
    /\ frame' = [frame EXCEPT ![g].pc = IF g \in Handlers THEN "start" ELSE "reinsert"]
    /\ UNCHANGED <<conn, sock>>

Insert(g) ==
    LET c == frame[g].conn IN
    /\ At(g, "insert")
    /\ connections' = [connections EXCEPT ![frame[g].key] = c]
    /\ frame' = [frame EXCEPT ![g].pc = IF g \in Handlers THEN "start" ELSE "reinsert",
                              ![Monitor(c)] = Start(c, None)]
    /\ UNCHANGED <<conn, sock>>

-----------------------------------------------------------------------------
(***************************************************************************)
(* The handler of a client.                                                *)
(***************************************************************************)

\* getOrCreateConnection: the lookup of a REQUEST.
Request(cl, k) ==
    LET h == Handler(cl)
        c == connections[k]
    IN
    /\ At(h, "loop") /\ sock[cl] = "up"
    /\ frame' = [frame EXCEPT ![h].conn = c,
                              ![h].key = IF c = None THEN k ELSE None,
                              ![h].pc = IF c = None THEN "dial" ELSE "check"]
    /\ UNCHANGED <<connections, conn, sock>>

\* go m.handleClusterMessages(conn, clientConn)
StartReader(cl) ==
    LET h == Handler(cl)
        c == frame[h].conn
    IN
    /\ At(h, "start")
    /\ frame' = [frame EXCEPT ![h].pc = "check", ![h].key = None,
                              ![Reader(c)] = Start(c, cl)]
    /\ UNCHANGED <<connections, conn, sock>>

\* The data of the REQUEST goes to the cluster if the state says connected.
CheckState(cl) ==
    LET h == Handler(cl) IN
    /\ At(h, "check")
    /\ frame' = [frame EXCEPT ![h] = IF conn[@.conn].state = "connected"
                                     THEN [@ EXCEPT !.pc = "write"] ELSE Loop(h)]
    /\ UNCHANGED <<connections, conn, sock>>

\* writeMessageToCluster.  A write to a peer that has left may still succeed.
WriteToCluster(cl) ==
    LET h == Handler(cl)
        c == frame[h].conn
    IN
    /\ At(h, "write")
    /\ \/ conn[c].ws \in {"open", "ended"} /\ UNCHANGED conn
       \/ /\ conn[c].ws \in {"ended", "closed"}
          /\ conn' = [conn EXCEPT ![c] = UpdateStatus(conn[c], "error")]
    /\ frame' = [frame EXCEPT ![h] = Loop(h)]
    /\ UNCHANGED <<connections, sock>>

\* CloseConnection, first section: the connection leaves the map.
CloseMessage(cl, k) ==
    LET h == Handler(cl) IN
    /\ At(h, "loop") /\ sock[cl] = "up"
    /\ connections[k] /= None
    /\ connections' = [connections EXCEPT ![k] = None]
    /\ frame' = [frame EXCEPT ![h].pc = "status", ![h].conn = connections[k]]
    /\ UNCHANGED <<conn, sock>>

\* CloseConnection: updateStatus(StateClosed).  It ends in safeClose, and the
\* second safeClose of CloseConnection then finds closeOnce used up.
CloseStatus(cl) ==
    LET h == Handler(cl)
        c == frame[h].conn
    IN
    /\ At(h, "status")
    /\ conn' = [conn EXCEPT ![c] = UpdateStatus(conn[c], "closed")]
    /\ frame' = [frame EXCEPT ![h].pc = "close", ![h].ret = "loop"]
    /\ UNCHANGED <<connections, sock>>

\* The read of the client's websocket fails: the handler closes its end ...
Leave(cl) ==
    /\ At(Handler(cl), "loop") /\ sock[cl] = "gone"
    /\ sock' = [sock EXCEPT ![cl] = "closed"]
    /\ frame' = [frame EXCEPT ![Handler(cl)].pc = "leave"]
    /\ UNCHANGED <<connections, conn>>

\* ... and closeClientConnections takes the client's connections out of the map,
CollectConnections(cl) ==
    LET h  == Handler(cl)
        ks == {k \in Keys : connections[k] /= None /\ conn[connections[k]].client = cl}
    IN
    /\ At(h, "leave")
    /\ connections' = [k \in Keys |-> IF k \in ks THEN None ELSE connections[k]]
    /\ frame' = [frame EXCEPT ![h].pc = "detach",
                              ![h].todo = {connections[k] : k \in ks}]
    /\ UNCHANGED <<conn, sock>>

\* Mutant of DetachConnection: detached, but not closed.
DetachOnly(cl) ==
    LET h == Handler(cl) IN
    /\ At(h, "detach")
    /\ \E c \in frame[h].todo :
          /\ conn' = [conn EXCEPT ![c] = Detach(conn[c], cl)]
          /\ frame' = [frame EXCEPT ![h].todo = @ \ {c}]
    /\ UNCHANGED <<connections, sock>>

\* then detaches and closes them one by one.
DetachConnection(cl) ==
    LET h == Handler(cl) IN
    /\ At(h, "detach")
    /\ \E c \in frame[h].todo :
          /\ conn' = [conn EXCEPT ![c] = Detach(conn[c], cl)]
          /\ frame' = [frame EXCEPT ![h].todo = @ \ {c}, ![h].conn = c,
                                    ![h].pc = "close", ![h].ret = "detach"]
    /\ UNCHANGED <<connections, sock>>

HandlerReturns(cl) ==
    /\ At(Handler(cl), "detach") /\ frame[Handler(cl)].todo = {}
    /\ frame' = [frame EXCEPT ![Handler(cl)] = Off]
    /\ UNCHANGED <<connections, conn, sock>>

-----------------------------------------------------------------------------
(***************************************************************************)
(* The monitor of a connection; after a reconnect it goes on with the new  *)
(* connection, so that c names the monitor and not what it monitors.       *)
(***************************************************************************)

\* case <-conn.Done
MonitorStops(c) ==
    LET m == Monitor(c) IN
    /\ At(m, "loop") /\ conn[frame[m].conn].done
    /\ conn' = [conn EXCEPT ![frame[m].conn] = UpdateStatus(@, "closed")]
    /\ frame' = [frame EXCEPT ![m] = Off]
    /\ UNCHANGED <<connections, sock>>

\* case <-heartbeat.C: the ping is being written.
Heartbeat(c) ==
    /\ At(Monitor(c), "loop")
    /\ frame' = [frame EXCEPT ![Monitor(c)].pc = "ping"]
    /\ UNCHANGED <<connections, conn, sock>>

PingSucceeds(c) ==
    /\ At(Monitor(c), "ping")
    /\ conn[frame[Monitor(c)].conn].ws \in {"open", "ended"}
    /\ frame' = [frame EXCEPT ![Monitor(c)].pc = "loop"]
    /\ UNCHANGED <<connections, conn, sock>>

PingFails(c) ==
    LET m == Monitor(c)
        d == frame[m].conn
    IN
    /\ At(m, "ping")
    /\ conn[d].ws = "closed" \/ (PingMayFail /\ conn[d].ws = "ended")
    /\ conn' = [conn EXCEPT ![d] = UpdateStatus(conn[d], "error")]
    /\ frame' = [frame EXCEPT ![m].pc = "reconnect"]
    /\ UNCHANGED <<connections, sock>>

\* reconnect: a closed connection stays closed.
ReconnectCheck(c) ==
    LET m == Monitor(c) IN
    /\ At(m, "reconnect")
    /\ frame' = [frame EXCEPT ![m].pc =
                   IF conn[frame[m].conn].closed THEN "loop" ELSE "hangup"]
    /\ UNCHANGED <<connections, conn, sock>>

\* reconnect: the old websocket is closed, the parameters are copied.
HangUp(c) ==
    LET m == Monitor(c)
        d == frame[m].conn
    IN
    /\ At(m, "hangup")
    /\ conn' = [conn EXCEPT ![d].ws = "closed"]
    /\ frame' = [frame EXCEPT ![m].pc = "dial", ![m].key = conn[d].key,
                              ![m].client = conn[d].client]
    /\ UNCHANGED <<connections, sock>>

\* reconnect puts the new connection into the map once more.
Reinsert(c) ==
    LET m == Monitor(c) IN
    /\ At(m, "reinsert")
    /\ connections' = [connections EXCEPT ![frame[m].key] = frame[m].conn]
    /\ frame' = [frame EXCEPT ![m] = Loop(m)]
    /\ UNCHANGED <<conn, sock>>

-----------------------------------------------------------------------------
(***************************************************************************)
(* The reader of a connection.                                             *)
(***************************************************************************)

\* Done is closed, or the read fails: cleanupConnection begins.
ReaderStops(c) ==
    /\ At(Reader(c), "loop")
    /\ conn[c].done \/ conn[c].ws \in {"ended", "closed"}
    /\ frame' = [frame EXCEPT ![Reader(c)].pc = "close", ![Reader(c)].ret = "delete"]
    /\ UNCHANGED <<connections, conn, sock>>

\* processClusterMessage: a message has been read ...
Receive(c) ==
    /\ At(Reader(c), "loop")
    /\ conn[c].ws = "open"
    /\ frame' = [frame EXCEPT ![Reader(c)].pc = "send"]
    /\ UNCHANGED <<connections, conn, sock>>

\* ... and is written to the client the reader was started for.
SendData(c) ==
    LET r == Reader(c) IN
    /\ At(r, "send")
    /\ \/ /\ sock[frame[r].client] /= "closed"
          /\ frame' = [frame EXCEPT ![r].pc = "loop"]
       \/ /\ sock[frame[r].client] /= "up"
          /\ frame' = [frame EXCEPT ![r].pc = "close", ![r].ret = "delete"]
    /\ UNCHANGED <<connections, conn, sock>>

\* Mutant of DeleteEntry: the entry stays.
DeleteNothing(c) ==
    /\ At(Reader(c), "delete")
    /\ frame' = [frame EXCEPT ![Reader(c)] = Off]
    /\ UNCHANGED <<connections, conn, sock>>

\* cleanupConnection, last section: whatever is under the key is deleted.
DeleteEntry(c) ==
    /\ At(Reader(c), "delete")
    /\ connections' = [connections EXCEPT ![conn[c].key] = None]
    /\ frame' = [frame EXCEPT ![Reader(c)] = Off]
    /\ UNCHANGED <<conn, sock>>

-----------------------------------------------------------------------------
\* The browser leaves; the cluster or the network ends a websocket.
ClientLeaves(cl) ==
    /\ sock[cl] = "up"
    /\ sock' = [sock EXCEPT ![cl] = "gone"]
    /\ UNCHANGED <<connections, conn, frame>>

ClusterEnds(c) ==
    /\ conn[c].ws = "open"
    /\ conn' = [conn EXCEPT ![c].ws = "ended"]
    /\ UNCHANGED <<connections, frame, sock>>

-----------------------------------------------------------------------------
SafeClose(g) ==
    SafeCloseEnter(g) \/ SafeCloseDone(g) \/ SafeCloseWS(g) \/ SafeCloseAgain(g)

Establish(g) == DialSucceeds(g) \/ DialFails(g) \/ Insert(g)

\* What a handler does without waiting for the client.
HandlerStep(cl) ==
    \/ StartReader(cl) \/ CheckState(cl) \/ WriteToCluster(cl)
    \/ CloseStatus(cl) \/ Leave(cl) \/ CollectConnections(cl)
    \/ DetachConnection(cl) \/ HandlerReturns(cl)
    \/ SafeClose(Handler(cl)) \/ Establish(Handler(cl))

\* What a monitor does without waiting for its ticker.
MonitorStep(c) ==
    \/ PingSucceeds(c) \/ PingFails(c) \/ ReconnectCheck(c) \/ HangUp(c)
    \/ Establish(Monitor(c)) \/ Reinsert(c)

\* What a reader does once it has read or cannot read.
ReaderStep(c) ==
    ReaderStops(c) \/ SendData(c) \/ DeleteEntry(c) \/ SafeClose(Reader(c))

\* Every client has left and every goroutine has returned.
Terminated == (\A g \in Goroutines : At(g, "off")) /\ UNCHANGED vars

Next ==
    \/ \E cl \in Clients : HandlerStep(cl) \/ ClientLeaves(cl)
    \/ \E cl \in Clients, k \in Keys : Request(cl, k) \/ CloseMessage(cl, k)
    \/ \E c \in Conns : MonitorStep(c) \/ Heartbeat(c) \/ MonitorStops(c)
    \/ \E c \in Conns : ReaderStep(c) \/ Receive(c) \/ ClusterEnds(c)
    \/ Terminated

Spec == Init /\ [][Next]_vars

(***************************************************************************)
(* Fairness.  A goroutine that can run runs: dials end by the handshake    *)
(* timeout.  A monitor is back in its select after every ping, and until   *)
(* the next tick Done is the only channel that is ready: strong fairness.  *)
(* Nothing is assumed of the browser, the cluster and the network.         *)
(***************************************************************************)
Fairness ==
    /\ \A cl \in Clients : WF_vars(HandlerStep(cl))
    /\ \A c \in Conns :
          /\ WF_vars(MonitorStep(c))
          /\ SF_vars(MonitorStops(c))
          /\ WF_vars(ReaderStep(c))

FairSpec == Spec /\ Fairness

-----------------------------------------------------------------------------
(***************************************************************************)
(* Type invariant.                                                         *)
(***************************************************************************)
TypeOK ==
    /\ connections \in [Keys -> Conns \cup {None}]
    /\ conn \in [Conns -> Connection]
    /\ frame \in [Goroutines -> Frame]
    /\ sock \in [Clients -> {"up", "gone", "closed"}]

(***************************************************************************)
(* The last word about a connection: once safeClose has set closed, the    *)
(* client, unless it has left, has been told closed and nothing after it,  *)
(* although updateStatus, safeClose and closeClientConnections of three    *)
(* goroutines may interleave, and an error may still be reported between   *)
(* the STATUS closed of CloseConnection and its safeClose.                 *)
(***************************************************************************)
LastWordIsClosed ==
    \A c \in Conns :
        conn[c].closed => conn[c].client = None \/ conn[c].told = "closed"

(***************************************************************************)
(* No STATUS is written on behalf of a connection that is closed, and      *)
(* closed is never taken back.                                             *)
(***************************************************************************)
ClosedIsFinal ==
    [][\A c \in Conns : conn[c].closed =>
          conn'[c].closed /\ conn'[c].told = conn[c].told]_vars

(***************************************************************************)
(* safeClose returns only when the connection is closed for good, also to  *)
(* a caller that did not do the work: a reader about to delete the entry   *)
(* leaves a connection whose Done and whose websocket are closed, even if  *)
(* the closing was left to a handler.                                      *)
(***************************************************************************)
SafeCloseIsComplete ==
    \A c \in Conns :
        At(Reader(c), "delete") =>
            conn[c].closed /\ conn[c].done /\ conn[c].ws = "closed"

(***************************************************************************)
(* An open websocket to a cluster is monitored, until the backend closes   *)
(* it: reconnect starts no reader for the connection it makes, and the     *)
(* reader of the old one may take its map entry away, so that a monitor is *)
(* then the only goroutine that still finds out that the websocket broke.  *)
(* A monitor leaves a connection for its successor only after closing the  *)
(* old websocket.                                                          *)
(***************************************************************************)
OpenIsMonitored ==
    \A c \in Conns :
        (Live(c) /\ conn[c].ws \in {"open", "ended"}) =>
            \/ \E m \in Monitors : frame[m].pc /= "off" /\ frame[m].conn = c
            \/ \E h \in Handlers : At(h, "insert") /\ frame[h].conn = c

(***************************************************************************)
(* Every connected connection in the map is read: messages of the cluster  *)
(* reach the client only through handleClusterMessages.  reconnect breaks  *)
(* it: the connection it makes has no reader.                              *)
(***************************************************************************)
ConnectedIsRead ==
    \A k \in Keys :
        LET c == connections[k] IN
        (c /= None /\ ~conn[c].closed) =>
            \/ frame[Reader(c)].pc /= "off"
            \/ \E cl \in Clients : At(Handler(cl), "start") /\ frame[Handler(cl)].conn = c

(***************************************************************************)
(* "closeClientConnections closes all connections associated with a        *)
(* specific client."  When a handler has returned, no connection of its    *)
(* client is left open.  A connection that lost its map entry to the       *)
(* cleanup of another one, and one that a monitor inserts later, break it. *)
(***************************************************************************)
HandlerLeavesNothingOpen ==
    \A cl \in Clients : At(Handler(cl), "off") =>
        ~\E c \in Conns : Live(c) /\ conn[c].client = cl

(***************************************************************************)
(* The departure of a browser is dealt with to its end: what its handler   *)
(* has taken out of the map, where nobody finds it any more, is closed,    *)
(* although another goroutine may be in the middle of safeClose and        *)
(* nothing happens on the websockets.                                      *)
(***************************************************************************)
DepartureCompletes ==
    \A cl \in Clients, c \in Conns :
        c \in frame[Handler(cl)].todo ~> conn[c].closed

(***************************************************************************)
(* The goroutines of a closed connection end: its reader and every monitor *)
(* that watches it.                                                        *)
(***************************************************************************)
GoroutinesEnd ==
    \A c \in Conns : conn[c].closed ~>
        /\ At(Reader(c), "off")
        /\ \A m \in Monitors : frame[m].conn = c => frame[m].pc = "off"

(***************************************************************************)
(* A closed connection whose reader runs does not stay in the map, where   *)
(* it would swallow every later REQUEST for its key.                       *)
(***************************************************************************)
ClosedLeavesMap ==
    \A k \in Keys, c \in Conns :
        (connections[k] = c /\ conn[c].closed /\ ~At(Reader(c), "off"))
            ~> connections[k] /= c
=============================================================================
