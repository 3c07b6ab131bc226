-------------------------- MODULE MultiplexerProofs --------------------------
(***************************************************************************)
(* Proofs about the two parts of multiplexer.go: Multiplexer, for any      *)
(* number of clients, keys and connections, and SATokenCache at the end.   *)
(*                                                                         *)
(* The invariant has a part about each Connection (RecordOK) and a part    *)
(* about each goroutine (FrameOK).  Every step lets every Connection only  *)
(* grow (Grow): that is shown action by action, gives the action property, *)
(* and carries FrameOK of the goroutines that do not move.                 *)
(***************************************************************************)
EXTENDS Multiplexer, SATokenCache, TLAPS

Closed(r) == r.closed /\ r.done /\ r.ws = "closed"

(***************************************************************************)
(* What holds of a Connection: closed and the status agree, an attached    *)
(* client has been told closed, Done is closed after that, a finished      *)
(* safeClose is complete, and only a Connection that was created is ever   *)
(* closed.                                                                 *)
(***************************************************************************)
RecordOK(r) ==
    /\ r.closed => r.state = "closed"
    /\ r.state = "closed" /\ r.client /= None => r.told = "closed"
    /\ r.done => r.closed
    /\ r.once = "over" => Closed(r)
    /\ r.key = None => ~r.closed

(***************************************************************************)
(* What holds of the frame f of goroutine g, given the Connections cn: it  *)
(* refers to created connections only, and inside safeClose it knows what  *)
(* has been closed already.                                                *)
(***************************************************************************)
FrameOK(g, f, cn) ==
    /\ f.conn /= None => cn[f.conn].key /= None
    /\ \A c \in f.todo : cn[c].key /= None
    /\ f.pc = "dial" => f.key /= None
    /\ f.pc \in {"insert", "status", "close", "closeDone", "closeWS"} => f.conn /= None
    /\ f.pc = "closeDone" => cn[f.conn].closed
    /\ f.pc = "closeWS" => cn[f.conn].closed /\ cn[f.conn].done
    /\ g \in Monitors /\ f.pc /= "off" => f.conn /= None
    /\ \A c \in Conns : g = Reader(c) /\ f.pc /= "off" => f.conn = c
    /\ \A c \in Conns : g = Reader(c) /\ f.pc = "delete" => Closed(cn[c])

IInv ==
    /\ TypeOK
    /\ \A c \in Conns : RecordOK(conn[c])
    /\ \A k \in Keys : connections[k] /= None => conn[connections[k]].key /= None
    /\ \A g \in Goroutines : FrameOK(g, frame[g], conn)

(***************************************************************************)
(* How a Connection r may change: s keeps its key, what is closed stays    *)
(* closed, and no STATUS follows closed.                                   *)
(***************************************************************************)
Grow(r, s) ==
    /\ s \in Connection /\ RecordOK(s)
    /\ r.closed => s.closed /\ s.told = r.told
    /\ r.key /= None =>
          /\ s.key = r.key
          /\ r.done => s.done
          /\ r.ws = "closed" => s.ws = "closed"

AllGrow == \A c \in Conns : Grow(conn[c], conn'[c])

-----------------------------------------------------------------------------
(***************************************************************************)
(* The three kinds of goroutines are distinct, and each is named by the    *)
(* client or the connection it belongs to.                                 *)
(***************************************************************************)
LEMMA GoroutineNames ==
    /\ \A cl \in Clients : Handler(cl) \in Goroutines /\ Handler(cl) \in Handlers
                           /\ Handler(cl) \notin Monitors
    /\ \A c \in Conns : Monitor(c) \in Goroutines /\ Monitor(c) \in Monitors
                        /\ Monitor(c) \notin Handlers
    /\ \A c \in Conns : Reader(c) \in Goroutines /\ Reader(c) \notin Monitors
                        /\ Reader(c) \notin Handlers
    /\ \A cl \in Clients, c \in Conns : Handler(cl) /= Reader(c)
    /\ \A c, d \in Conns : Monitor(d) /= Reader(c)
    /\ \A c, d \in Conns : Reader(c) = Reader(d) => c = d
BY DEF Goroutines, Handlers, Monitors, Readers, Handler, Monitor, Reader

(***************************************************************************)
(* updateStatus lets a Connection grow.                                    *)
(***************************************************************************)
LEMMA UpdateStatusGrows ==
    ASSUME NEW r \in Connection, NEW s \in State, RecordOK(r)
    PROVE  Grow(r, UpdateStatus(r, s))
BY DEF Grow, UpdateStatus, WriteStatus, RecordOK, Closed, Connection, State

(***************************************************************************)
(* So does the critical section of safeClose, which leaves it closed.      *)
(***************************************************************************)
LEMMA MarkClosedGrows ==
    ASSUME NEW r \in Connection, RecordOK(r), r.key /= None, r.once = "new"
    PROVE  LET s == [MarkClosed(r) EXCEPT !.once = "running"]
           IN  Grow(r, s) /\ s.closed
BY DEF Grow, MarkClosed, WriteStatus, RecordOK, Closed, Connection, State

(***************************************************************************)
(* So does the detaching of a client.                                      *)
(***************************************************************************)
LEMMA DetachGrows ==
    ASSUME NEW r \in Connection, NEW cl \in Clients, RecordOK(r)
    PROVE  Grow(r, Detach(r, cl))
BY DEF Grow, Detach, RecordOK, Closed, Connection, State

(***************************************************************************)
(* A Connection that does not change grows.                                *)
(***************************************************************************)
LEMMA SameGrows ==
    ASSUME NEW r \in Connection, RecordOK(r)
    PROVE  Grow(r, r)
BY DEF Grow, RecordOK

(***************************************************************************)
(* What holds of a frame still holds when the Connections have grown.      *)
(***************************************************************************)
LEMMA FrameStable ==
    ASSUME NEW g, NEW f \in Frame, NEW cn, NEW dn,
           FrameOK(g, f, cn),
           \A c \in Conns : Grow(cn[c], dn[c]),
           \A c \in Conns : g = Reader(c) /\ f.pc = "delete" => f.conn = c
    PROVE  FrameOK(g, f, dn)
BY NilAssumption DEF FrameOK, Grow, Closed, Frame

(***************************************************************************)
(* After a step that lets the Connections grow, the invariant holds again  *)
(* of every frame and every map entry that the step has left alone.        *)
(***************************************************************************)
LEMMA Unmoved ==
    ASSUME IInv, AllGrow
    PROVE  /\ \A g \in Goroutines : FrameOK(g, frame[g], conn')
           /\ \A k \in Keys : connections[k] /= None =>
                                conn'[connections[k]].key /= None
<1>1. ASSUME NEW g \in Goroutines PROVE FrameOK(g, frame[g], conn')
  <2>1. /\ frame[g] \in Frame /\ FrameOK(g, frame[g], conn)
        /\ \A c \in Conns : Grow(conn[c], conn'[c])
    BY DEF IInv, TypeOK, AllGrow
  <2>2. \A c \in Conns : g = Reader(c) /\ frame[g].pc = "delete" => frame[g].conn = c
    BY <2>1 DEF FrameOK
  <2>. QED BY <2>1, <2>2, FrameStable
<1>2. ASSUME NEW k \in Keys, connections[k] /= None
      PROVE  conn'[connections[k]].key /= None
  BY <1>2 DEF IInv, TypeOK, AllGrow, Grow
<1>. QED BY <1>1, <1>2

(***************************************************************************)
(* A step that leaves the Connections alone lets them grow.                *)
(***************************************************************************)
LEMMA NothingGrows ==
    ASSUME IInv, conn' = conn
    PROVE  AllGrow
BY SameGrows DEF IInv, TypeOK, AllGrow

(***************************************************************************)
(* A step that changes one Connection.                                     *)
(***************************************************************************)
LEMMA OneGrows ==
    ASSUME IInv, NEW c \in Conns, NEW r, conn' = [conn EXCEPT ![c] = r],
           Grow(conn[c], r)
    PROVE  AllGrow /\ conn' \in [Conns -> Connection]
BY SameGrows DEF IInv, TypeOK, AllGrow, Grow

(***************************************************************************)
(* A frame that goes back to its loop is fine.                             *)
(***************************************************************************)
LEMMA LoopOK ==
    ASSUME IInv, NEW g \in Goroutines, NEW cn, FrameOK(g, frame[g], cn),
           frame[g].pc /= "off", g \notin Readers
    PROVE  FrameOK(g, Loop(g), cn) /\ Loop(g) \in Frame
<1>1. frame[g] \in Frame /\ \A c \in Conns : g /= Reader(c)
  BY DEF IInv, TypeOK, Readers
<1>2. CASE g \in Handlers
  <2>1. g \notin Monitors
    BY <1>2, GoroutineNames DEF Handlers
  <2>. QED
    BY <1>1, <1>2, <2>1 DEF Loop, HandlerLoop, Start, FrameOK, Frame
<1>3. CASE g \notin Handlers
  BY <1>1, <1>3 DEF Loop, MonitorLoop, Start, FrameOK, Frame
<1>. QED BY <1>2, <1>3

(***************************************************************************)
(* A frame that returns from safeClose is fine if the work is done.        *)
(***************************************************************************)
LEMMA ReturnOK ==
    ASSUME IInv, NEW g \in Goroutines, NEW cn, FrameOK(g, frame[g], cn),
           frame[g].pc /= "off", Closed(cn[frame[g].conn])
    PROVE  FrameOK(g, Return(g), cn) /\ Return(g) \in Frame
<1>1. frame[g] \in Frame
  BY DEF IInv, TypeOK
<1>2. CASE g \in Handlers
  <2>1. g \notin Monitors /\ \A c \in Conns : g /= Reader(c)
    BY <1>2, GoroutineNames DEF Handlers
  <2>. QED
    BY <1>1, <1>2, <2>1 DEF Return, HandlerLoop, Start, FrameOK, Frame
<1>3. CASE g \notin Handlers
  BY <1>1, <1>3 DEF Return, FrameOK, Frame
<1>. QED BY <1>2, <1>3

-----------------------------------------------------------------------------
(***************************************************************************)
(* The steps of safeClose preserve the invariant.                          *)
(***************************************************************************)
LEMMA SafeCloseStep ==
    ASSUME IInv, NEW g \in Goroutines, SafeClose(g)
    PROVE  IInv' /\ AllGrow
<1>. DEFINE c == frame[g].conn
<1>1. /\ frame[g] \in Frame /\ FrameOK(g, frame[g], conn)
      /\ conn \in [Conns -> Connection] /\ frame \in [Goroutines -> Frame]
  BY DEF IInv, TypeOK
<1>2. frame[g].pc \in {"close", "closeDone", "closeWS"}
  BY DEF SafeClose, SafeCloseEnter, SafeCloseDone, SafeCloseWS, SafeCloseAgain, At
<1>3. /\ c \in Conns /\ conn[c] \in Connection /\ RecordOK(conn[c])
      /\ conn[c].key /= None
  BY <1>1, <1>2 DEF FrameOK, Frame, IInv
<1>4. CASE SafeCloseEnter(g)
  <2>. DEFINE r == [MarkClosed(conn[c]) EXCEPT !.once = "running"]
  <2>1. conn' = [conn EXCEPT ![c] = r] /\ conn[c].once = "new"
    BY <1>4 DEF SafeCloseEnter
  <2>2. Grow(conn[c], r) /\ r.closed
    BY <1>3, <2>1, MarkClosedGrows
  <2>. HIDE DEF r
  <2>3. AllGrow /\ conn' \in [Conns -> Connection]
    BY <1>3, <2>1, <2>2, OneGrows
  <2>4. conn'[c].closed
    BY <1>1, <1>3, <2>1, <2>2
  <2>5. \A h \in Goroutines : FrameOK(h, frame'[h], conn')
    <3>. DEFINE f == [frame[g] EXCEPT !.pc = "closeDone"]
    <3>1. FrameOK(g, frame[g], conn')
      BY <2>3, Unmoved
    <3>2. f.pc = "closeDone" /\ f.conn = c /\ f.todo = frame[g].todo
      BY <1>1 DEF Frame
    <3>. HIDE DEF f
    <3>3. FrameOK(g, f, conn')
      BY <1>2, <1>3, <2>4, <3>1, <3>2, NilAssumption DEF FrameOK
    <3>. QED BY <1>1, <1>4, <2>3, <3>3, Unmoved DEF SafeCloseEnter, f
  <2>6. frame' \in [Goroutines -> Frame]
    BY <1>1, <1>4 DEF SafeCloseEnter, Frame
  <2>. QED
    BY <1>4, <2>3, <2>5, <2>6, Unmoved
    DEF SafeCloseEnter, IInv, TypeOK, AllGrow, Grow
<1>5. CASE SafeCloseDone(g)
  <2>. DEFINE r == [conn[c] EXCEPT !.done = TRUE]
  <2>1. conn' = [conn EXCEPT ![c] = r] /\ At(g, "closeDone")
    BY <1>5 DEF SafeCloseDone
  <2>2. Grow(conn[c], r) /\ r.closed /\ r.done
    BY <1>1, <1>3, <2>1 DEF Grow, RecordOK, Closed, Connection, FrameOK, At
  <2>. HIDE DEF r
  <2>3. AllGrow /\ conn' \in [Conns -> Connection]
    BY <1>3, <2>1, <2>2, OneGrows
  <2>4. conn'[c].closed /\ conn'[c].done
    BY <1>1, <1>3, <2>1, <2>2
  <2>5. \A h \in Goroutines : FrameOK(h, frame'[h], conn')
    <3>. DEFINE f == [frame[g] EXCEPT !.pc = "closeWS"]
    <3>1. FrameOK(g, frame[g], conn')
      BY <2>3, Unmoved
    <3>2. f.pc = "closeWS" /\ f.conn = c /\ f.todo = frame[g].todo
      BY <1>1 DEF Frame
    <3>. HIDE DEF f
    <3>3. FrameOK(g, f, conn')
      BY <1>2, <1>3, <2>4, <3>1, <3>2, NilAssumption DEF FrameOK
    <3>. QED BY <1>1, <1>5, <2>3, <3>3, Unmoved DEF SafeCloseDone, f
  <2>6. frame' \in [Goroutines -> Frame]
    BY <1>1, <1>5 DEF SafeCloseDone, Frame
  <2>. QED
    BY <1>5, <2>3, <2>5, <2>6, Unmoved
    DEF SafeCloseDone, IInv, TypeOK, AllGrow, Grow
<1>6. CASE SafeCloseWS(g)
  <2>. DEFINE r == [conn[c] EXCEPT !.ws = "closed", !.once = "over"]
  <2>1. conn' = [conn EXCEPT ![c] = r] /\ At(g, "closeWS")
    BY <1>3, <1>6 DEF SafeCloseWS
  <2>2. Grow(conn[c], r) /\ Closed(r)
    BY <1>1, <1>3, <2>1 DEF Grow, RecordOK, Closed, Connection, FrameOK, At
  <2>. HIDE DEF r
  <2>3. AllGrow /\ conn' \in [Conns -> Connection]
    BY <1>3, <2>1, <2>2, OneGrows
  <2>4. Closed(conn'[c])
    BY <1>1, <1>3, <2>1, <2>2
  <2>5. FrameOK(g, Return(g), conn') /\ Return(g) \in Frame
    BY <1>2, <2>3, <2>4, Unmoved, ReturnOK
  <2>6. /\ frame' \in [Goroutines -> Frame]
        /\ \A h \in Goroutines : FrameOK(h, frame'[h], conn')
    BY <1>1, <1>6, <2>3, <2>5, Unmoved DEF SafeCloseWS
  <2>. QED
    BY <1>6, <2>3, <2>6, Unmoved DEF SafeCloseWS, IInv, TypeOK, AllGrow, Grow
<1>7. CASE SafeCloseAgain(g)
  <2>1. conn' = conn /\ AllGrow /\ Closed(conn[c])
    BY <1>3, <1>7, NothingGrows DEF SafeCloseAgain, RecordOK
  <2>2. FrameOK(g, Return(g), conn') /\ Return(g) \in Frame
    BY <1>1, <1>2, <2>1, ReturnOK
  <2>3. /\ frame' \in [Goroutines -> Frame]
        /\ \A h \in Goroutines : FrameOK(h, frame'[h], conn')
    BY <1>1, <1>7, <2>1, <2>2, Unmoved DEF SafeCloseAgain
  <2>. QED
    BY <1>7, <2>1, <2>3, Unmoved DEF SafeCloseAgain, IInv, TypeOK
<1>. QED BY <1>4, <1>5, <1>6, <1>7 DEF SafeClose

-----------------------------------------------------------------------------
\* What a step has to show of the sockets and of the map.
SocketsOK == sock' \in [Clients -> {"up", "gone", "closed"}]

MapOK ==
    /\ connections' \in [Keys -> Conns \cup {None}]
    /\ \A k \in Keys : connections'[k] /= None => conn'[connections'[k]].key /= None

(***************************************************************************)
(* A step that moves one goroutine preserves the invariant if its new      *)
(* frame and the new map are fine.                                         *)
(***************************************************************************)
LEMMA OneFrame ==
    ASSUME IInv, NEW g \in Goroutines, NEW f \in Frame, AllGrow,
           conn' \in [Conns -> Connection],
           frame' = [frame EXCEPT ![g] = f], FrameOK(g, f, conn'), MapOK, SocketsOK
    PROVE  IInv'
<1>1. /\ frame' \in [Goroutines -> Frame]
      /\ \A h \in Goroutines : FrameOK(h, frame'[h], conn')
  BY Unmoved DEF IInv, TypeOK
<1>. QED BY <1>1 DEF IInv, TypeOK, AllGrow, Grow, MapOK, SocketsOK

(***************************************************************************)
(* The map is fine when the step leaves it alone.                          *)
(***************************************************************************)
LEMMA SameMap ==
    ASSUME IInv, AllGrow, UNCHANGED connections
    PROVE  MapOK
BY Unmoved DEF MapOK, IInv, TypeOK

(***************************************************************************)
(* The steps of establishClusterConnection preserve the invariant.         *)
(***************************************************************************)
LEMMA EstablishStep ==
    ASSUME IInv, NEW g \in Goroutines, g \notin Readers, Establish(g)
    PROVE  IInv' /\ AllGrow
<1>1. /\ frame[g] \in Frame /\ FrameOK(g, frame[g], conn)
      /\ conn \in [Conns -> Connection] /\ frame \in [Goroutines -> Frame]
      /\ sock \in [Clients -> {"up", "gone", "closed"}]
      /\ connections \in [Keys -> Conns \cup {None}]
      /\ \A c \in Conns : g /= Reader(c)
  BY DEF IInv, TypeOK, Readers
<1>2. CASE DialSucceeds(g)
  <2>. DEFINE c == CHOOSE free \in Conns : Free(free)
              n == NewConnection(frame[g].key, frame[g].client)
              r == UpdateStatus([n EXCEPT !.ws = "open"], "connected")
              f == [frame[g] EXCEPT !.pc = "insert", !.conn = c]
  <2>1. c \in Conns /\ Free(c)
    BY <1>2 DEF DialSucceeds
  <2>. HIDE DEF c
  <2>2. conn' = [conn EXCEPT ![c] = r] /\ frame[g].key /= None
    BY <1>1, <1>2 DEF DialSucceeds, c, FrameOK, At
  <2>3. [n EXCEPT !.ws = "open"] \in Connection /\ RecordOK([n EXCEPT !.ws = "open"])
    BY <1>1, <2>2 DEF NewConnection, Connection, State, RecordOK, Frame
  <2>4. r \in Connection /\ RecordOK(r) /\ r.key /= None
    BY <2>2, <2>3, UpdateStatusGrows DEF Grow, State, NewConnection
  <2>5. Grow(conn[c], r)
    <3>1. RecordOK(conn[c])
      BY <2>1 DEF IInv
    <3>. HIDE DEF r
    <3>. QED BY <2>1, <2>4, <3>1 DEF Grow, RecordOK, Free
  <2>. HIDE DEF r
  <2>6. AllGrow /\ conn' \in [Conns -> Connection]
    BY <2>1, <2>2, <2>5, OneGrows
  <2>7. conn'[c].key /= None /\ c /= None
    BY <1>1, <2>1, <2>2, <2>4, NilAssumption
  <2>8. f \in Frame /\ FrameOK(g, f, conn')
    BY <1>1, <2>1, <2>6, <2>7, Unmoved DEF FrameOK, Frame
  <2>9. frame' = [frame EXCEPT ![g] = f] /\ UNCHANGED <<connections, sock>>
    BY <1>1, <1>2 DEF DialSucceeds, c
  <2>. QED BY <1>1, <2>6, <2>8, <2>9, SameMap, OneFrame DEF SocketsOK
<1>3. CASE DialFails(g)
  <2>1. /\ UNCHANGED <<connections, conn, sock>> /\ frame[g].pc = "dial"
        /\ frame' = [frame EXCEPT ![g] = Loop(g)]
    BY <1>3 DEF DialFails, At
  <2>2. AllGrow
    BY <2>1, NothingGrows
  <2>3. FrameOK(g, Loop(g), conn') /\ Loop(g) \in Frame
    BY <1>1, <2>1, LoopOK
  <2>. QED BY <1>1, <2>1, <2>2, <2>3, SameMap, OneFrame DEF SocketsOK
<1>4. CASE Insert(g)
  <2>. DEFINE c == frame[g].conn
              f == [frame[g] EXCEPT !.pc = IF g \in Handlers THEN "start" ELSE "reinsert"]
  <2>1. conn' = conn /\ sock' = sock /\ frame[g].pc = "insert"
    BY <1>4 DEF Insert, At
  <2>2. c \in Conns /\ conn[c].key /= None /\ c /= None
    BY <1>1, <2>1 DEF FrameOK, Frame
  <2>3. AllGrow
    BY <2>1, NothingGrows
  <2>4. MapOK
    BY <1>1, <1>4, <2>1, <2>2 DEF Insert, MapOK, IInv
  <2>5. f \in Frame /\ FrameOK(g, f, conn)
    BY <1>1, <2>1 DEF FrameOK, Frame
  <2>6. Start(c, None) \in Frame /\ FrameOK(Monitor(c), Start(c, None), conn)
    BY <2>2, GoroutineNames DEF FrameOK, Frame, Start
  <2>7. \A h \in Goroutines : frame'[h] \in {frame[h], f, Start(c, None)} /\
          (frame'[h] = frame[h] \/ (h = g /\ frame'[h] = f) \/
                 (h = Monitor(c) /\ frame'[h] = Start(c, None)))
    BY <1>1, <1>4 DEF Insert
  <2>8. frame' \in [Goroutines -> Frame]
    BY <1>1, <1>4, <2>5, <2>6, <2>7 DEF Insert
  <2>9. \A h \in Goroutines : FrameOK(h, frame'[h], conn')
    BY <2>1, <2>5, <2>6, <2>7 DEF IInv
  <2>. QED BY <1>1, <2>1, <2>3, <2>4, <2>8, <2>9 DEF IInv, TypeOK, MapOK
<1>. QED BY <1>2, <1>3, <1>4 DEF Establish

-----------------------------------------------------------------------------
(***************************************************************************)
(* The REQUEST and CLOSE messages of a client preserve the invariant.      *)
(***************************************************************************)
LEMMA RequestStep ==
    ASSUME IInv, NEW cl \in Clients, NEW k \in Keys,
           Request(cl, k) \/ CloseMessage(cl, k)
    PROVE  IInv' /\ AllGrow
<1>. DEFINE h == Handler(cl)
<1>1. /\ h \in Goroutines /\ h \notin Monitors /\ h \notin Readers
      /\ \A c \in Conns : h /= Reader(c)
  BY GoroutineNames DEF Readers
<1>. HIDE DEF h
<1>2. /\ frame[h] \in Frame /\ FrameOK(h, frame[h], conn)
      /\ conn \in [Conns -> Connection] /\ frame \in [Goroutines -> Frame]
      /\ sock \in [Clients -> {"up", "gone", "closed"}]
      /\ connections \in [Keys -> Conns \cup {None}]
  BY <1>1 DEF IInv, TypeOK
<1>3. conn' = conn /\ sock' = sock /\ AllGrow
  BY NothingGrows DEF Request, CloseMessage
<1>4. connections[k] /= None => conn[connections[k]].key /= None
  BY DEF IInv
<1>5. CASE Request(cl, k)
  <2>. DEFINE c == connections[k]
              f == [frame[h] EXCEPT !.conn = c,
                                    !.key = IF c = None THEN k ELSE None,
                                    !.pc = IF c = None THEN "dial" ELSE "check"]
  <2>1. frame' = [frame EXCEPT ![h] = f] /\ connections' = connections
    BY <1>1, <1>2, <1>5 DEF Request, h
  <2>2. f \in Frame /\ FrameOK(h, f, conn)
    <3>1. f \in Frame /\ f.conn = c /\ f.todo = frame[h].todo
      BY <1>2 DEF Frame
    <3>2. IF c = None THEN f.pc = "dial" /\ f.key = k ELSE f.pc = "check"
      BY <1>2 DEF Frame
    <3>. HIDE DEF f
    <3>. QED BY <1>1, <1>2, <1>4, <3>1, <3>2, NilAssumption DEF FrameOK
  <2>. QED BY <1>1, <1>2, <1>3, <2>1, <2>2, SameMap, OneFrame DEF SocketsOK
<1>6. CASE CloseMessage(cl, k)
  <2>. DEFINE f == [frame[h] EXCEPT !.pc = "status", !.conn = connections[k]]
  <2>1. frame' = [frame EXCEPT ![h] = f]
    BY <1>1, <1>2, <1>6 DEF CloseMessage, h
  <2>2. f \in Frame /\ FrameOK(h, f, conn)
    <3>1. f \in Frame /\ f.pc = "status" /\ f.conn = connections[k]
                      /\ f.todo = frame[h].todo
      BY <1>2 DEF Frame
    <3>. QED BY <1>1, <1>2, <1>4, <1>6, <3>1 DEF FrameOK, CloseMessage
  <2>3. MapOK
    BY <1>2, <1>3, <1>6 DEF CloseMessage, MapOK, IInv
  <2>. QED BY <1>1, <1>2, <1>3, <2>1, <2>2, <2>3, OneFrame DEF SocketsOK
<1>. QED BY <1>5, <1>6

(***************************************************************************)
(* The other steps of a handler, HandleClientWebSocket, preserve the       *)
(* invariant.                                                              *)
(***************************************************************************)
LEMMA HandlerMoves ==
    ASSUME IInv, NEW cl \in Clients, HandlerStep(cl)
    PROVE  IInv' /\ AllGrow
<1>. DEFINE h == Handler(cl)
            c == frame[h].conn
<1>1. /\ h \in Goroutines /\ h \notin Monitors /\ h \notin Readers
      /\ \A d \in Conns : h /= Reader(d) /\ Monitor(d) /= Reader(d)
  BY GoroutineNames DEF Readers
<1>. HIDE DEF h
<1>2. /\ frame[h] \in Frame /\ FrameOK(h, frame[h], conn)
      /\ conn \in [Conns -> Connection] /\ frame \in [Goroutines -> Frame]
      /\ sock \in [Clients -> {"up", "gone", "closed"}]
      /\ connections \in [Keys -> Conns \cup {None}]
  BY <1>1 DEF IInv, TypeOK
<1>3. CASE StartReader(cl)
  <2>. DEFINE f == [frame[h] EXCEPT !.pc = "check", !.key = None]
  <2>1. conn' = conn /\ sock' = sock /\ connections' = connections /\ AllGrow
    BY <1>3, NothingGrows DEF StartReader
  <2>2. f \in Frame /\ FrameOK(h, f, conn)
    <3>1. f \in Frame /\ f.pc = "check" /\ f.conn = c /\ f.todo = frame[h].todo
      BY <1>2 DEF Frame
    <3>. QED BY <1>1, <1>2, <3>1 DEF FrameOK
  <2>3. ASSUME NEW d \in Conns, d = c
        PROVE  Start(c, cl) \in Frame /\ FrameOK(Reader(c), Start(c, cl), conn)
    BY <1>1, <1>2, <2>3, GoroutineNames DEF FrameOK, Frame, Start
  <2>4. c \in Conns \/ Reader(c) \notin Goroutines
    BY <1>2, NilAssumption
    DEF Frame, Goroutines, Handlers, Monitors, Readers, Handler, Monitor, Reader
  <2>5. \A g \in Goroutines :
          \/ frame'[g] = frame[g]
          \/ g = h /\ frame'[g] = f
          \/ g = Reader(c) /\ frame'[g] = Start(c, cl)
    BY <1>2, <1>3 DEF StartReader, h
  <2>6. \A g \in Goroutines : frame'[g] \in Frame /\ FrameOK(g, frame'[g], conn')
    BY <1>2, <2>1, <2>2, <2>3, <2>4, <2>5 DEF IInv
  <2>7. frame' \in [Goroutines -> Frame]
    BY <1>2, <1>3, <2>6 DEF StartReader
  <2>. QED BY <1>2, <2>1, <2>6, <2>7 DEF IInv, TypeOK
<1>4. CASE CheckState(cl)
  <2>. DEFINE f == IF conn[c].state = "connected"
                   THEN [frame[h] EXCEPT !.pc = "write"] ELSE Loop(h)
  <2>1. /\ conn' = conn /\ sock' = sock /\ connections' = connections /\ AllGrow
        /\ frame[h].pc = "check"
    BY <1>4, NothingGrows DEF CheckState, At, h
  <2>2. frame' = [frame EXCEPT ![h] = f]
    BY <1>1, <1>2, <1>4 DEF CheckState, h
  <2>3. FrameOK(h, Loop(h), conn) /\ Loop(h) \in Frame
    BY <1>1, <1>2, <2>1, LoopOK
  <2>4. f \in Frame /\ FrameOK(h, f, conn)
    BY <1>1, <1>2, <2>3 DEF FrameOK, Frame
  <2>. QED BY <1>1, <1>2, <2>1, <2>2, <2>4, SameMap, OneFrame DEF SocketsOK
<1>5. CASE WriteToCluster(cl)
  <2>1. /\ sock' = sock /\ connections' = connections /\ frame[h].pc = "write"
        /\ frame' = [frame EXCEPT ![h] = Loop(h)]
    BY <1>5 DEF WriteToCluster, At, h
  <2>2. AllGrow /\ conn' \in [Conns -> Connection]
    <3>1. CASE conn' = conn
      BY <1>2, <3>1, NothingGrows
    <3>2. CASE conn' = [conn EXCEPT ![c] = UpdateStatus(conn[c], "error")] /\ c \in Conns
      BY <1>2, <3>2, UpdateStatusGrows, OneGrows DEF IInv, State
    <3>3. CASE conn' = [conn EXCEPT ![c] = UpdateStatus(conn[c], "error")] /\ c \notin Conns
      BY <1>2, <3>3, NothingGrows
    <3>. QED BY <1>5, <3>1, <3>2, <3>3 DEF WriteToCluster, h
  <2>3. FrameOK(h, Loop(h), conn') /\ Loop(h) \in Frame
    BY <1>1, <1>2, <2>1, <2>2, Unmoved, LoopOK
  <2>. QED BY <1>1, <1>2, <2>1, <2>2, <2>3, SameMap, OneFrame DEF SocketsOK
<1>6. CASE CloseStatus(cl)
  <2>. DEFINE f == [frame[h] EXCEPT !.pc = "close", !.ret = "loop"]
  <2>1. /\ sock' = sock /\ connections' = connections /\ frame[h].pc = "status"
        /\ frame' = [frame EXCEPT ![h] = f]
        /\ conn' = [conn EXCEPT ![c] = UpdateStatus(conn[c], "closed")]
    BY <1>1, <1>2, <1>6 DEF CloseStatus, At, h
  <2>2. c \in Conns /\ c /= None
    BY <1>2, <2>1 DEF FrameOK, Frame
  <2>3. AllGrow /\ conn' \in [Conns -> Connection]
    BY <1>2, <2>1, <2>2, UpdateStatusGrows, OneGrows DEF IInv, State
  <2>4. FrameOK(h, frame[h], conn')
    BY <1>1, <2>3, Unmoved
  <2>5. f \in Frame /\ FrameOK(h, f, conn')
    <3>1. f \in Frame /\ f.pc = "close" /\ f.conn = c /\ f.todo = frame[h].todo
      BY <1>2 DEF Frame
    <3>. QED BY <1>1, <2>2, <2>4, <3>1 DEF FrameOK
  <2>. QED BY <1>1, <1>2, <2>1, <2>3, <2>5, SameMap, OneFrame DEF SocketsOK
<1>7. CASE Leave(cl)
  <2>. DEFINE f == [frame[h] EXCEPT !.pc = "leave"]
  <2>1. /\ conn' = conn /\ connections' = connections /\ AllGrow
        /\ frame' = [frame EXCEPT ![h] = f] /\ SocketsOK
    BY <1>1, <1>2, <1>7, NothingGrows DEF Leave, SocketsOK, h
  <2>2. f \in Frame /\ FrameOK(h, f, conn)
    BY <1>1, <1>2 DEF FrameOK, Frame
  <2>. QED BY <1>1, <1>2, <2>1, <2>2, SameMap, OneFrame
<1>8. CASE CollectConnections(cl)
  <2>. DEFINE ks == {k \in Keys : connections[k] /= None /\ conn[connections[k]].client = cl}
              todo == {connections[k] : k \in ks}
              f == [frame[h] EXCEPT !.pc = "detach", !.todo = todo]
  <2>1. /\ conn' = conn /\ sock' = sock /\ AllGrow
        /\ frame' = [frame EXCEPT ![h] = f]
        /\ connections' = [k \in Keys |-> IF k \in ks THEN None ELSE connections[k]]
    BY <1>1, <1>2, <1>8, NothingGrows DEF CollectConnections, h
  <2>2. todo \in SUBSET Conns /\ \A d \in todo : conn[d].key /= None
    BY <1>2 DEF IInv
  <2>3. MapOK
    BY <1>2, <2>1 DEF MapOK, IInv
  <2>. HIDE DEF todo
  <2>4. f \in Frame /\ FrameOK(h, f, conn)
    <3>1. f \in Frame /\ f.pc = "detach" /\ f.conn = c /\ f.todo = todo
      BY <1>2, <2>2 DEF Frame
    <3>. QED BY <1>1, <1>2, <2>2, <3>1 DEF FrameOK
  <2>. QED BY <1>1, <1>2, <2>1, <2>3, <2>4, OneFrame DEF SocketsOK
<1>9. CASE DetachConnection(cl)
  <2>1. PICK d \in frame[h].todo :
          /\ conn' = [conn EXCEPT ![d] = Detach(conn[d], cl)]
          /\ frame' = [frame EXCEPT ![h].todo = @ \ {d}, ![h].conn = d,
                                    ![h].pc = "close", ![h].ret = "detach"]
    BY <1>9 DEF DetachConnection, h
  <2>. DEFINE f == [frame[h] EXCEPT !.todo = @ \ {d}, !.conn = d,
                                    !.pc = "close", !.ret = "detach"]
  <2>2. d \in Conns /\ d /= None
    BY <1>2, NilAssumption DEF Frame
  <2>3. AllGrow /\ conn' \in [Conns -> Connection]
    BY <1>2, <2>1, <2>2, DetachGrows, OneGrows DEF IInv
  <2>4. FrameOK(h, frame[h], conn')
    BY <1>1, <2>3, Unmoved
  <2>5. f \in Frame /\ FrameOK(h, f, conn')
    <3>1. f \in Frame /\ f.pc = "close" /\ f.conn = d /\ f.todo = frame[h].todo \ {d}
      BY <1>2, <2>2 DEF Frame
    <3>. QED BY <1>1, <2>1, <2>2, <2>4, <3>1 DEF FrameOK
  <2>6. frame' = [frame EXCEPT ![h] = f] /\ UNCHANGED <<connections, sock>>
    BY <1>1, <1>2, <1>9, <2>1 DEF DetachConnection
  <2>. QED BY <1>1, <1>2, <2>3, <2>5, <2>6, SameMap, OneFrame DEF SocketsOK
<1>10. CASE HandlerReturns(cl)
  <2>1. /\ conn' = conn /\ connections' = connections /\ sock' = sock /\ AllGrow
        /\ frame' = [frame EXCEPT ![h] = Off]
    BY <1>10, NothingGrows DEF HandlerReturns, h
  <2>2. Off \in Frame /\ FrameOK(h, Off, conn)
    BY <1>1 DEF FrameOK, Frame, Off, Start
  <2>. QED BY <1>1, <1>2, <2>1, <2>2, SameMap, OneFrame DEF SocketsOK
<1>11. CASE SafeClose(h)
  BY <1>1, <1>11, SafeCloseStep
<1>12. CASE Establish(h)
  BY <1>1, <1>12, EstablishStep
<1>. QED
  BY <1>3, <1>4, <1>5, <1>6, <1>7, <1>8, <1>9, <1>10, <1>11, <1>12 DEF HandlerStep, h

-----------------------------------------------------------------------------
(***************************************************************************)
(* The steps of a monitor preserve the invariant.                          *)
(***************************************************************************)
LEMMA MonitorMoves ==
    ASSUME IInv, NEW i \in Conns, MonitorStep(i) \/ Heartbeat(i) \/ MonitorStops(i)
    PROVE  IInv' /\ AllGrow
<1>. DEFINE m == Monitor(i)
            d == frame[m].conn
<1>1. /\ m \in Goroutines /\ m \in Monitors /\ m \notin Readers /\ m \notin Handlers
      /\ \A c \in Conns : m /= Reader(c)
  BY GoroutineNames DEF Readers
<1>. HIDE DEF m
<1>2. /\ frame[m] \in Frame /\ FrameOK(m, frame[m], conn)
      /\ conn \in [Conns -> Connection] /\ frame \in [Goroutines -> Frame]
      /\ sock \in [Clients -> {"up", "gone", "closed"}]
      /\ connections \in [Keys -> Conns \cup {None}]
  BY <1>1 DEF IInv, TypeOK
<1>3. CASE Establish(m)
  BY <1>1, <1>3, EstablishStep
<1>4. ASSUME frame[m].pc /= "off" PROVE d \in Conns /\ d /= None /\ conn[d].key /= None
  BY <1>1, <1>2, <1>4 DEF FrameOK, Frame
<1>5. CASE MonitorStops(i)
  <2>1. /\ frame[m].pc = "loop" /\ frame' = [frame EXCEPT ![m] = Off]
        /\ conn' = [conn EXCEPT ![d] = UpdateStatus(conn[d], "closed")]
        /\ UNCHANGED <<connections, sock>>
    BY <1>2, <1>5 DEF MonitorStops, At, m
  <2>2. AllGrow /\ conn' \in [Conns -> Connection]
    BY <1>2, <1>4, <2>1, UpdateStatusGrows, OneGrows DEF IInv, State
  <2>3. Off \in Frame /\ FrameOK(m, Off, conn')
    BY <1>1 DEF FrameOK, Frame, Off, Start
  <2>. QED BY <1>1, <1>2, <2>1, <2>2, <2>3, SameMap, OneFrame DEF SocketsOK
<1>6. ASSUME NEW pc \in {"loop", "ping", "reconnect", "hangup"},
             frame[m].pc /= "off", frame' = [frame EXCEPT ![m].pc = pc],
             AllGrow, conn' \in [Conns -> Connection], UNCHANGED <<connections, sock>>
      PROVE  IInv' /\ AllGrow
  <2>. DEFINE f == [frame[m] EXCEPT !.pc = pc]
  <2>1. frame' = [frame EXCEPT ![m] = f]
    BY <1>1, <1>2, <1>6
  <2>2. f \in Frame /\ f.pc = pc /\ f.conn = d /\ f.todo = frame[m].todo
    BY <1>2 DEF Frame
  <2>3. FrameOK(m, frame[m], conn')
    BY <1>1, <1>6, Unmoved
  <2>. HIDE DEF f
  <2>4. FrameOK(m, f, conn')
    BY <1>1, <1>4, <1>6, <2>2, <2>3 DEF FrameOK
  <2>. QED BY <1>1, <1>2, <1>6, <2>1, <2>2, <2>4, SameMap, OneFrame DEF SocketsOK
<1>7. CASE Heartbeat(i)
  BY <1>2, <1>6, <1>7, NothingGrows DEF Heartbeat, At, m
<1>8. CASE PingSucceeds(i)
  BY <1>2, <1>6, <1>8, NothingGrows DEF PingSucceeds, At, m
<1>9. CASE PingFails(i)
  <2>1. /\ frame[m].pc = "ping" /\ frame' = [frame EXCEPT ![m].pc = "reconnect"]
        /\ conn' = [conn EXCEPT ![d] = UpdateStatus(conn[d], "error")]
        /\ UNCHANGED <<connections, sock>>
    BY <1>9 DEF PingFails, At, m
  <2>2. AllGrow /\ conn' \in [Conns -> Connection]
    BY <1>2, <1>4, <2>1, UpdateStatusGrows, OneGrows DEF IInv, State
  <2>. QED BY <1>6, <2>1, <2>2
<1>10. CASE ReconnectCheck(i)
  BY <1>2, <1>6, <1>10, NothingGrows DEF ReconnectCheck, At, m
<1>11. CASE HangUp(i)
  <2>. DEFINE f == [frame[m] EXCEPT !.pc = "dial", !.key = conn[d].key,
                                    !.client = conn[d].client]
              r == [conn[d] EXCEPT !.ws = "closed"]
  <2>1. /\ frame[m].pc = "hangup" /\ frame' = [frame EXCEPT ![m] = f]
        /\ conn' = [conn EXCEPT ![d] = r] /\ UNCHANGED <<connections, sock>>
    BY <1>1, <1>2, <1>11 DEF HangUp, At, m
  <2>2. d \in Conns /\ d /= None /\ conn[d].key /= None
    BY <1>4, <2>1
  <2>3. Grow(conn[d], r)
    BY <1>2, <2>2 DEF IInv, Grow, RecordOK, Closed, Connection
  <2>4. AllGrow /\ conn' \in [Conns -> Connection]
    BY <2>1, <2>2, <2>3, OneGrows
  <2>5. /\ f \in Frame /\ f.pc = "dial" /\ f.conn = d /\ f.todo = frame[m].todo
        /\ f.key = conn[d].key
    BY <1>2, <2>2 DEF Frame, Connection
  <2>6. FrameOK(m, frame[m], conn')
    BY <1>1, <2>4, Unmoved
  <2>. HIDE DEF f
  <2>7. FrameOK(m, f, conn')
    BY <1>1, <2>2, <2>5, <2>6 DEF FrameOK
  <2>. QED BY <1>1, <1>2, <2>1, <2>4, <2>5, <2>7, SameMap, OneFrame DEF SocketsOK
<1>12. CASE Reinsert(i)
  <2>1. /\ frame[m].pc = "reinsert" /\ conn' = conn /\ sock' = sock
        /\ frame' = [frame EXCEPT ![m] = Loop(m)]
        /\ connections' = [connections EXCEPT ![frame[m].key] = d] /\ AllGrow
    BY <1>12, NothingGrows DEF Reinsert, At, m
  <2>2. FrameOK(m, Loop(m), conn') /\ Loop(m) \in Frame
    BY <1>1, <1>2, <2>1, LoopOK
  <2>3. MapOK
    BY <1>2, <1>4, <2>1 DEF MapOK, IInv
  <2>. QED BY <1>1, <1>2, <2>1, <2>2, <2>3, OneFrame DEF SocketsOK
<1>. QED
  BY <1>3, <1>5, <1>7, <1>8, <1>9, <1>10, <1>11, <1>12 DEF MonitorStep, m

(***************************************************************************)
(* The steps of a reader preserve the invariant.                           *)
(***************************************************************************)
LEMMA ReaderMoves ==
    ASSUME IInv, NEW c \in Conns, ReaderStep(c) \/ Receive(c)
    PROVE  IInv' /\ AllGrow
<1>. DEFINE g == Reader(c)
<1>1. g \in Goroutines /\ g \notin Monitors /\ \A d \in Conns : g = Reader(d) => d = c
  BY GoroutineNames
<1>. HIDE DEF g
<1>2. /\ frame[g] \in Frame /\ FrameOK(g, frame[g], conn)
      /\ conn \in [Conns -> Connection] /\ frame \in [Goroutines -> Frame]
      /\ sock \in [Clients -> {"up", "gone", "closed"}]
      /\ connections \in [Keys -> Conns \cup {None}]
  BY <1>1 DEF IInv, TypeOK
<1>3. CASE SafeClose(g)
  BY <1>1, <1>3, SafeCloseStep
<1>4. ASSUME NEW pc \in {"loop", "send", "close"}, NEW ret \in {frame[g].ret, "delete"},
             frame[g].pc /= "off", UNCHANGED <<connections, conn, sock>>,
             frame' = [frame EXCEPT ![g].pc = pc, ![g].ret = ret]
      PROVE  IInv' /\ AllGrow
  <2>. DEFINE f == [frame[g] EXCEPT !.pc = pc, !.ret = ret]
  <2>1. frame' = [frame EXCEPT ![g] = f] /\ AllGrow
    BY <1>1, <1>2, <1>4, NothingGrows
  <2>2. f \in Frame /\ f.pc = pc /\ f.conn = frame[g].conn /\ f.todo = frame[g].todo
    BY <1>2, <1>4 DEF Frame
  <2>. HIDE DEF f
  <2>3. frame[g].conn = c /\ c /= None
    BY <1>2, <1>4, NilAssumption DEF FrameOK, g
  <2>4. FrameOK(g, f, conn)
    BY <1>1, <1>2, <1>4, <2>2, <2>3 DEF FrameOK
  <2>. QED BY <1>1, <1>2, <1>4, <2>1, <2>2, <2>4, SameMap, OneFrame DEF SocketsOK
<1>5. CASE ReaderStops(c)
  BY <1>2, <1>4, <1>5 DEF ReaderStops, At, g
<1>6. CASE Receive(c)
  <2>1. frame' = [frame EXCEPT ![g].pc = "send", ![g].ret = frame[g].ret]
    BY <1>1, <1>2, <1>6 DEF Receive, g, Frame
  <2>. QED BY <1>4, <1>6, <2>1 DEF Receive, At, g
<1>7. CASE SendData(c)
  <2>1. CASE frame' = [frame EXCEPT ![g].pc = "loop"]
    <3>1. frame' = [frame EXCEPT ![g].pc = "loop", ![g].ret = frame[g].ret]
      BY <1>1, <1>2, <2>1 DEF Frame
    <3>. QED BY <1>4, <1>7, <3>1 DEF SendData, At, g
  <2>2. CASE frame' = [frame EXCEPT ![g].pc = "close", ![g].ret = "delete"]
    BY <1>4, <1>7, <2>2 DEF SendData, At, g
  <2>. QED BY <1>7, <2>1, <2>2 DEF SendData, g
<1>8. CASE DeleteEntry(c)
  <2>1. /\ conn' = conn /\ sock' = sock /\ frame' = [frame EXCEPT ![g] = Off]
        /\ connections' = [connections EXCEPT ![conn[c].key] = None] /\ AllGrow
    BY <1>8, NothingGrows DEF DeleteEntry, g
  <2>2. Off \in Frame /\ FrameOK(g, Off, conn)
    BY <1>1 DEF FrameOK, Frame, Off, Start
  <2>3. MapOK
    BY <1>2, <2>1 DEF MapOK, IInv
  <2>. QED BY <1>1, <1>2, <2>1, <2>2, <2>3, OneFrame DEF SocketsOK
<1>. QED BY <1>3, <1>5, <1>6, <1>7, <1>8 DEF ReaderStep, g

(***************************************************************************)
(* So do the steps of the browser and of the cluster.                      *)
(***************************************************************************)
LEMMA EnvironmentMoves ==
    ASSUME IInv,
           (\E cl \in Clients : ClientLeaves(cl)) \/ (\E c \in Conns : ClusterEnds(c))
    PROVE  IInv' /\ AllGrow
<1>1. ASSUME NEW cl \in Clients, ClientLeaves(cl) PROVE IInv' /\ AllGrow
  BY <1>1, NothingGrows DEF ClientLeaves, IInv, TypeOK
<1>2. ASSUME NEW c \in Conns, ClusterEnds(c) PROVE IInv' /\ AllGrow
  <2>. DEFINE r == [conn[c] EXCEPT !.ws = "ended"]
  <2>1. conn' = [conn EXCEPT ![c] = r] /\ conn[c].ws = "open"
    BY <1>2 DEF ClusterEnds
  <2>2. Grow(conn[c], r)
    BY <2>1 DEF IInv, TypeOK, Grow, RecordOK, Closed, Connection
  <2>3. AllGrow /\ conn' \in [Conns -> Connection]
    BY <2>1, <2>2, OneGrows
  <2>. QED BY <1>2, <2>3, Unmoved DEF ClusterEnds, IInv, TypeOK, AllGrow, Grow
<1>. QED BY <1>1, <1>2

-----------------------------------------------------------------------------
(***************************************************************************)
(* The invariant holds when the multiplexer is created.                    *)
(***************************************************************************)
LEMMA Initially == Init => IInv
<1>. SUFFICES ASSUME Init PROVE IInv
  OBVIOUS
<1>1. NewConnection(None, None) \in Connection /\ RecordOK(NewConnection(None, None))
  BY DEF NewConnection, Connection, RecordOK, State
<1>2. \A g \in Goroutines : frame[g] \in Frame /\ FrameOK(g, frame[g], conn)
  <2>1. ASSUME NEW cl \in Clients
        PROVE  /\ Start(None, cl) \in Frame
               /\ FrameOK(Handler(cl), Start(None, cl), conn)
    BY GoroutineNames DEF Start, Frame, FrameOK
  <2>2. ASSUME NEW g \in Goroutines PROVE Off \in Frame /\ FrameOK(g, Off, conn)
    BY DEF Off, Start, Frame, FrameOK
  <2>3. \A cl \in Clients : Handler(cl)[2] = cl
    BY DEF Handler
  <2>. QED BY <2>1, <2>2, <2>3 DEF Init, Handlers
<1>. QED BY <1>1, <1>2 DEF Init, IInv, TypeOK

(***************************************************************************)
(* Every step of every goroutine preserves the invariant and lets every    *)
(* Connection only grow.                                                   *)
(***************************************************************************)
LEMMA Inductive == IInv /\ [Next]_vars => IInv' /\ AllGrow
<1>. SUFFICES ASSUME IInv, [Next]_vars PROVE IInv' /\ AllGrow
  OBVIOUS
<1>1. CASE UNCHANGED vars
  BY <1>1, NothingGrows DEF vars, IInv, TypeOK
<1>2. CASE Next
  <2>1. CASE Terminated
    BY <1>1, <2>1 DEF Terminated
  <2>. QED
    BY <1>2, <2>1, HandlerMoves, RequestStep, MonitorMoves, ReaderMoves, EnvironmentMoves
    DEF Next
<1>. QED BY <1>1, <1>2

(***************************************************************************)
(* The multiplexer keeps to its types, whatever the numbers of browser     *)
(* tabs, keys and connections and in whatever order the goroutines run.    *)
(***************************************************************************)
THEOREM TypeCorrect == Spec => []TypeOK
<1>1. IInv => TypeOK
  BY DEF IInv
<1>. QED BY <1>1, Initially, Inductive, PTL DEF Spec

(***************************************************************************)
(* Once safeClose has set closed, the client that is still attached has    *)
(* been told so, and has been told nothing since.                          *)
(***************************************************************************)
THEOREM ClientHearsClosed == Spec => []LastWordIsClosed
<1>1. IInv => LastWordIsClosed
  BY DEF IInv, RecordOK, LastWordIsClosed
<1>. QED BY <1>1, Initially, Inductive, PTL DEF Spec

(***************************************************************************)
(* A reader deletes the map entry only after safeClose is complete, even   *)
(* if another goroutine does the closing.                                  *)
(***************************************************************************)
THEOREM CloseIsComplete == Spec => []SafeCloseIsComplete
<1>1. IInv => SafeCloseIsComplete
  BY GoroutineNames DEF IInv, FrameOK, Closed, SafeCloseIsComplete, At
<1>. QED BY <1>1, Initially, Inductive, PTL DEF Spec

(***************************************************************************)
(* closed is never taken back, and no STATUS is written after it.          *)
(***************************************************************************)
THEOREM ClosedForGood == Spec => ClosedIsFinal
<1>1. IInv /\ [Next]_vars =>
        [\A c \in Conns : conn[c].closed =>
            conn'[c].closed /\ conn'[c].told = conn[c].told]_vars
  BY Inductive DEF AllGrow, Grow
<1>. QED BY <1>1, Initially, Inductive, PTL DEF Spec, ClosedIsFinal

-----------------------------------------------------------------------------
(***************************************************************************)
(* Every open websocket is monitored.  The invariant says of a reconnect   *)
(* that the old websocket is closed before the monitor turns to the new    *)
(* connection (HungUpInv), and of a new connection that its own monitor    *)
(* has not run before and that one goroutine only inserts it (FreshInv).   *)
(***************************************************************************)
Open(c) == Live(c) /\ conn[c].ws # "closed"

Monitored(c) ==
    \/ \E m \in Monitors : frame[m].pc # "off" /\ frame[m].conn = c
    \/ \E h \in Handlers : At(h, "insert") /\ frame[h].conn = c

HungUpInv == \A m \in Monitors : At(m, "dial") => conn[frame[m].conn].ws = "closed"

FreshInv ==
    /\ \A c \in Conns : Free(c) => At(Monitor(c), "off")
    /\ \A g \in Handlers \cup Monitors :
          At(g, "insert") => At(Monitor(frame[g].conn), "off")
    /\ \A g, h \in Handlers \cup Monitors :
          At(g, "insert") /\ At(h, "insert") /\ frame[g].conn = frame[h].conn => g = h

WatchInv == (\A c \in Conns : Open(c) => Monitored(c)) /\ HungUpInv /\ FreshInv

LEMMA MonitorNames == \A c, d \in Conns : Monitor(c) = Monitor(d) => c = d
BY DEF Monitor

\* A monitor that goes on with its connection, or that ends with it.
GoesOn(m) ==
    /\ frame[m].pc \notin {"off", "insert"} /\ frame'[m].pc \notin {"off", "insert"}
    /\ frame'[m].conn = frame[m].conn
    /\ frame'[m].pc = "dial" => conn'[frame'[m].conn].ws = "closed"

Ends(m) == frame'[m].pc = "off" /\ frame[m].pc \notin {"off", "insert"} /\ conn'[frame[m].conn].closed

(***************************************************************************)
(* A step that neither creates nor inserts a connection.                   *)
(***************************************************************************)
LEMMA WatchKept ==
    ASSUME IInv, IInv', AllGrow, WatchInv,
           \A c \in Conns : Free(c) => conn'[c].key = None,
           \A m \in Monitors : frame'[m] = frame[m] \/ GoesOn(m) \/ Ends(m),
           \A h \in Handlers : \/ frame'[h] = frame[h]
                               \/ frame[h].pc # "insert" /\ frame'[h].pc # "insert"
    PROVE  WatchInv'
<1>1. /\ \A g \in Goroutines : frame[g] \in Frame /\ FrameOK(g, frame[g], conn)
      /\ Monitors \subseteq Goroutines /\ Handlers \subseteq Goroutines
  BY DEF IInv, TypeOK, Goroutines
<1>2. \A m \in Monitors : frame[m].pc # "off" => frame[m].conn \in Conns /\ conn[frame[m].conn].key # None
  BY <1>1 DEF FrameOK, Frame
<1>3. \A c \in Conns : Free(c)' <=> Free(c)
  BY DEF AllGrow, Grow, Free
<1>4. \A c \in Conns : Open(c)' => Open(c)
  BY <1>3 DEF AllGrow, Grow, Free, Open, Live
<1>5. ASSUME NEW c \in Conns, Open(c)' PROVE Monitored(c)'
  <2>1. Open(c) /\ Monitored(c)
    BY <1>4, <1>5 DEF WatchInv
  <2>2. ASSUME NEW m \in Monitors, frame[m].pc # "off", frame[m].conn = c PROVE Monitored(c)'
    <3>1. ~Ends(m)
      BY <1>5, <2>2 DEF Ends, Open, Live
    <3>2. frame'[m].pc # "off" /\ frame'[m].conn = c
      BY <2>2, <3>1 DEF GoesOn
    <3> QED BY <3>2 DEF Monitored
  <2>3. ASSUME NEW h \in Handlers, At(h, "insert"), frame[h].conn = c PROVE Monitored(c)'
    BY <2>3 DEF Monitored, At
  <2> QED BY <2>1, <2>2, <2>3 DEF Monitored
<1>6. HungUpInv'
  <2> SUFFICES ASSUME NEW m \in Monitors, frame'[m].pc = "dial"
               PROVE  conn'[frame'[m].conn].ws = "closed"
    BY DEF HungUpInv, At
  <2>1. CASE frame'[m] = frame[m]
    <3>1. conn[frame[m].conn].ws = "closed" /\ frame[m].pc # "off"
      BY <2>1 DEF WatchInv, HungUpInv, At
    <3> QED BY <1>2, <2>1, <3>1 DEF AllGrow, Grow
  <2> QED BY <2>1 DEF GoesOn, Ends
<1>7. \A m \in Monitors : At(m, "off") => At(m, "off")'
  BY DEF GoesOn, Ends, At
<1>8. \A g \in Handlers \cup Monitors : At(g, "insert")' => At(g, "insert") /\ frame'[g] = frame[g]
  BY DEF GoesOn, Ends, At
<1>9. \A c \in Conns : Monitor(c) \in Monitors
  BY DEF Monitors
<1>10. \A g \in Handlers \cup Monitors : At(g, "insert") => frame[g].conn \in Conns
  BY <1>1 DEF FrameOK, Frame, At
<1>11. FreshInv'
  <2>1. \A c \in Conns : Free(c)' => At(Monitor(c), "off")'
    BY <1>3, <1>7, <1>9 DEF WatchInv, FreshInv
  <2>2. ASSUME NEW g \in Handlers \cup Monitors, At(g, "insert")'
        PROVE  At(Monitor(frame[g].conn), "off")'
    <3>1. At(g, "insert") /\ frame[g].conn \in Conns /\ frame'[g] = frame[g]
      BY <1>8, <1>10, <2>2
    <3>2. At(Monitor(frame[g].conn), "off") /\ Monitor(frame[g].conn) \in Monitors
      BY <1>9, <3>1 DEF WatchInv, FreshInv
    <3>3. At(Monitor(frame[g].conn), "off") => frame'[Monitor(frame[g].conn)].pc = "off"
      BY <1>7, <3>2 DEF At
    <3> QED BY <3>1, <3>2, <3>3 DEF At
  <2>3. ASSUME NEW g \in Handlers \cup Monitors, NEW h \in Handlers \cup Monitors,
               At(g, "insert")', At(h, "insert")', frame'[g].conn = frame'[h].conn
        PROVE  g = h
    BY <1>8, <2>3 DEF WatchInv, FreshInv
  <2> QED BY <2>1, <2>2, <2>3 DEF FreshInv
<1> QED BY <1>5, <1>6, <1>11 DEF WatchInv

(***************************************************************************)
(* A new connection: its creator holds it, and has left no open one.       *)
(***************************************************************************)
LEMMA WatchDial ==
    ASSUME IInv, AllGrow, WatchInv, NEW g \in Handlers \cup Monitors, DialSucceeds(g)
    PROVE  WatchInv'
<1> DEFINE c == CHOOSE free \in Conns : Free(free)
           r == UpdateStatus([NewConnection(frame[g].key, frame[g].client) EXCEPT !.ws = "open"],
                             "connected")
<1>0. /\ \A h \in Goroutines : frame[h] \in Frame /\ FrameOK(h, frame[h], conn)
      /\ Monitors \subseteq Goroutines /\ Handlers \subseteq Goroutines
      /\ conn \in [Conns -> Connection] /\ frame \in [Goroutines -> Frame]
  BY DEF IInv, TypeOK, Goroutines
<1>1. c \in Conns /\ Free(c)
  BY DEF DialSucceeds
<1>2. /\ At(g, "dial") /\ conn' = [conn EXCEPT ![c] = r]
      /\ frame' = [frame EXCEPT ![g].pc = "insert", ![g].conn = c]
  BY DEF DialSucceeds
<1>3. r.key = frame[g].key /\ r.key # None
  BY <1>0, <1>2 DEF UpdateStatus, WriteStatus, NewConnection, FrameOK, At
<1> HIDE DEF c, r
<1>4. /\ \A h \in Handlers \cup Monitors : h # g => frame'[h] = frame[h]
      /\ frame'[g].pc = "insert" /\ frame'[g].conn = c
      /\ \A d \in Conns : d # c => conn'[d] = conn[d]
      /\ conn'[c] = r
  BY <1>0, <1>1, <1>2 DEF Frame
<1>5. \A h \in Handlers \cup Monitors :
         frame[h].pc = "insert" \/ (h \in Monitors /\ frame[h].pc # "off") =>
            frame[h].conn \in Conns /\ frame[h].conn # c
  BY <1>0, <1>1 DEF FrameOK, Frame, Free
<1>6. \A d \in Conns : At(Monitor(d), "off") => At(Monitor(d), "off")'
  <2> SUFFICES ASSUME NEW d \in Conns, frame[Monitor(d)].pc = "off"
               PROVE  frame'[Monitor(d)].pc = "off"
    BY DEF At
  <2>1. Monitor(d) # g /\ Monitor(d) \in Monitors
    BY <1>2 DEF At, Monitors
  <2> QED BY <1>4, <2>1
<1>7. ASSUME NEW d \in Conns, Open(d)' PROVE Monitored(d)'
  <2>1. CASE d = c
    BY <1>4, <2>1 DEF Monitored, At
  <2>2. CASE d # c
    <3>1. Open(d)
      BY <1>4, <1>7, <2>2 DEF Open, Live, Free
    <3>2. ASSUME NEW m \in Monitors, frame[m].pc # "off", frame[m].conn = d PROVE Monitored(d)'
      <4>1. m # g
        BY <1>2, <3>1, <3>2 DEF WatchInv, HungUpInv, Open
      <4> QED BY <1>4, <3>2, <4>1 DEF Monitored
    <3>3. ASSUME NEW h \in Handlers, At(h, "insert"), frame[h].conn = d PROVE Monitored(d)'
      <4>1. h # g
        BY <1>2, <3>3 DEF At
      <4> QED BY <1>4, <3>3, <4>1 DEF Monitored, At
    <3> QED BY <3>1, <3>2, <3>3 DEF WatchInv, Monitored
  <2> QED BY <2>1, <2>2
<1>8. HungUpInv'
  <2> SUFFICES ASSUME NEW m \in Monitors, frame'[m].pc = "dial"
               PROVE  conn'[frame'[m].conn].ws = "closed"
    BY DEF HungUpInv, At
  <2>1. m # g
    BY <1>4
  <2>2. frame'[m] = frame[m] /\ conn[frame[m].conn].ws = "closed"
    BY <1>4, <2>1 DEF WatchInv, HungUpInv, At
  <2>3. frame[m].conn \in Conns /\ frame[m].conn # c
    BY <1>5, <2>2
  <2> QED BY <1>4, <2>2, <2>3
<1>9. FreshInv'
  <2>1. ASSUME NEW d \in Conns, Free(d)' PROVE At(Monitor(d), "off")'
    <3>1. d # c
      BY <1>3, <1>4, <2>1 DEF Free
    <3>2. Free(d)
      BY <1>4, <2>1, <3>1 DEF Free
    <3> QED BY <1>6, <3>2 DEF WatchInv, FreshInv
  <2>2. ASSUME NEW h \in Handlers \cup Monitors, At(h, "insert")'
        PROVE  At(Monitor(frame[h].conn), "off")'
    <3>1. CASE h = g
      <4>1. frame'[Monitor(c)].pc = "off"
        BY <1>1, <1>6 DEF WatchInv, FreshInv, At
      <4> QED BY <1>4, <3>1, <4>1 DEF At
    <3>2. CASE h # g
      <4>1. frame'[h] = frame[h] /\ At(h, "insert") /\ frame[h].conn \in Conns
        BY <1>4, <1>5, <2>2, <3>2 DEF At
      <4>2. At(Monitor(frame[h].conn), "off")
        BY <4>1 DEF WatchInv, FreshInv
      <4>3. frame'[Monitor(frame[h].conn)].pc = "off"
        BY <1>6, <4>1, <4>2 DEF At
      <4> QED BY <4>1, <4>3 DEF At
    <3> QED BY <3>1, <3>2
  <2>3. ASSUME NEW h \in Handlers \cup Monitors, NEW i \in Handlers \cup Monitors,
               At(h, "insert")', At(i, "insert")', frame'[h].conn = frame'[i].conn
        PROVE  h = i
    BY <1>4, <1>5, <2>3 DEF WatchInv, FreshInv, At
  <2> QED BY <2>1, <2>2, <2>3 DEF FreshInv
<1> QED BY <1>7, <1>8, <1>9 DEF WatchInv

(***************************************************************************)
(* The insertion: the connection gets a monitor of its own.                *)
(***************************************************************************)
LEMMA WatchInsert ==
    ASSUME IInv, WatchInv, NEW g \in Handlers \cup Monitors, Insert(g)
    PROVE  WatchInv'
<1> DEFINE c == frame[g].conn
           n == Monitor(c)
<1>0. /\ \A h \in Goroutines : frame[h] \in Frame /\ FrameOK(h, frame[h], conn)
      /\ Monitors \subseteq Goroutines /\ Handlers \subseteq Goroutines
      /\ frame \in [Goroutines -> Frame]
  BY DEF IInv, TypeOK, Goroutines
<1>1. At(g, "insert") /\ conn' = conn
  BY DEF Insert
<1>2. c \in Conns /\ conn[c].key # None
  BY <1>0, <1>1 DEF FrameOK, Frame, At
<1>3. n \in Monitors /\ At(n, "off") /\ n # g
  BY <1>1, <1>2 DEF WatchInv, FreshInv, Monitors, At
<1>4. /\ \A h \in Handlers \cup Monitors : h # g /\ h # n => frame'[h] = frame[h]
      /\ frame'[g].pc \in {"start", "reinsert"} /\ frame'[g].conn = c
      /\ frame'[n] = Start(c, None)
  BY <1>0, <1>1, <1>3 DEF Insert, Frame
<1>5. frame'[n].pc = "loop" /\ frame'[n].conn = c
  BY <1>4 DEF Start
<1> HIDE DEF n
<1>6. ASSUME NEW d \in Conns, d # c, At(Monitor(d), "off") PROVE frame'[Monitor(d)].pc = "off"
  <2>1. Monitor(d) # n /\ Monitor(d) # g /\ Monitor(d) \in Monitors
    BY <1>1, <1>2, <1>6, MonitorNames DEF At, Monitors, n
  <2> QED BY <1>4, <1>6, <2>1 DEF At
<1>7. ASSUME NEW d \in Conns, Open(d)' PROVE Monitored(d)'
  <2>1. CASE d = c
    BY <1>3, <1>5, <2>1 DEF Monitored
  <2>2. CASE d # c
    <3>1. Open(d)
      BY <1>1, <1>7 DEF Open, Live, Free
    <3>2. ASSUME NEW m \in Monitors, frame[m].pc # "off", frame[m].conn = d PROVE Monitored(d)'
      <4>1. m # g /\ m # n
        BY <1>3, <2>2, <3>2 DEF At
      <4> QED BY <1>4, <3>2, <4>1 DEF Monitored
    <3>3. ASSUME NEW h \in Handlers, At(h, "insert"), frame[h].conn = d PROVE Monitored(d)'
      <4>1. h # g /\ h # n
        BY <1>3, <2>2, <3>3 DEF At
      <4> QED BY <1>4, <3>3, <4>1 DEF Monitored, At
    <3> QED BY <3>1, <3>2, <3>3 DEF WatchInv, Monitored
  <2> QED BY <2>1, <2>2
<1>8. HungUpInv'
  BY <1>1, <1>4, <1>5 DEF WatchInv, HungUpInv, At
<1>9. ASSUME NEW h \in Handlers \cup Monitors, frame'[h].pc = "insert"
      PROVE  h # g /\ h # n /\ frame'[h] = frame[h] /\ frame[h].conn \in Conns /\ frame[h].conn # c
  <2>1. h # g /\ h # n
    BY <1>4, <1>5, <1>9
  <2>2. frame'[h] = frame[h] /\ At(h, "insert")
    BY <1>4, <1>9, <2>1 DEF At
  <2>3. frame[h].conn \in Conns
    BY <1>0, <2>2 DEF FrameOK, Frame, At
  <2> QED BY <1>1, <2>1, <2>2, <2>3 DEF WatchInv, FreshInv
<1>10. FreshInv'
  <2>1. ASSUME NEW d \in Conns, Free(d)' PROVE At(Monitor(d), "off")'
    <3>1. Free(d) /\ d # c
      BY <1>1, <1>2, <2>1 DEF Free
    <3>2. frame'[Monitor(d)].pc = "off"
      BY <1>6, <3>1 DEF WatchInv, FreshInv
    <3> QED BY <3>2 DEF At
  <2>2. ASSUME NEW h \in Handlers \cup Monitors, At(h, "insert")'
        PROVE  At(Monitor(frame[h].conn), "off")'
    <3>1. frame'[h] = frame[h] /\ At(h, "insert") /\ frame[h].conn \in Conns /\ frame[h].conn # c
      BY <1>9, <2>2 DEF At
    <3>2. frame'[Monitor(frame[h].conn)].pc = "off"
      BY <1>6, <3>1 DEF WatchInv, FreshInv
    <3> QED BY <3>1, <3>2 DEF At
  <2>3. ASSUME NEW h \in Handlers \cup Monitors, NEW i \in Handlers \cup Monitors,
               At(h, "insert")', At(i, "insert")', frame'[h].conn = frame'[i].conn
        PROVE  h = i
    BY <1>9, <2>3 DEF WatchInv, FreshInv, At
  <2> QED BY <2>1, <2>2, <2>3 DEF FreshInv
<1> QED BY <1>7, <1>8, <1>10 DEF WatchInv

\* A step that moves no monitor.
LEMMA WatchOthers ==
    ASSUME IInv, IInv', AllGrow, WatchInv, NEW g \in Goroutines, g \notin Monitors,
           \A c \in Conns : Free(c) => conn'[c].key = None,
           \A h \in Handlers \cup Monitors : h # g => frame'[h] = frame[h],
           frame[g].pc # "insert" /\ frame'[g].pc # "insert"
    PROVE  WatchInv'
<1>1. \A m \in Monitors : frame'[m] = frame[m] \/ GoesOn(m) \/ Ends(m)
  OBVIOUS
<1>2. \A h \in Handlers : \/ frame'[h] = frame[h]
                          \/ frame[h].pc # "insert" /\ frame'[h].pc # "insert"
  OBVIOUS
<1> QED BY <1>1, <1>2, WatchKept

(***************************************************************************)
(* The steps of safeClose create no connection and move their caller only. *)
(***************************************************************************)
LEMMA WatchSafeClose ==
    ASSUME IInv, IInv', AllGrow, WatchInv, NEW g \in Goroutines, g \notin Monitors, SafeClose(g)
    PROVE  WatchInv'
<1>1. /\ frame[g] \in Frame /\ FrameOK(g, frame[g], conn) /\ frame \in [Goroutines -> Frame]
      /\ conn \in [Conns -> Connection]
  BY DEF IInv, TypeOK
<1>2. frame[g].pc \in {"close", "closeDone", "closeWS"}
  BY DEF SafeClose, SafeCloseEnter, SafeCloseDone, SafeCloseWS, SafeCloseAgain, At
<1>3. frame[g].conn \in Conns /\ conn[frame[g].conn].key # None
  BY <1>1, <1>2 DEF FrameOK, Frame
<1>4. \A c \in Conns : c # frame[g].conn => conn'[c] = conn[c]
  BY <1>1, <1>3 DEF SafeClose, SafeCloseEnter, SafeCloseDone, SafeCloseWS, SafeCloseAgain
<1>5. \A c \in Conns : Free(c) => conn'[c].key = None
  BY <1>3, <1>4 DEF Free
<1>6. \A h \in Handlers \cup Monitors : h # g => frame'[h] = frame[h]
  BY <1>1 DEF SafeClose, SafeCloseEnter, SafeCloseDone, SafeCloseWS, SafeCloseAgain, Goroutines
<1>7. Return(g).pc # "insert"
  BY <1>1 DEF Return, HandlerLoop, Start, Frame
<1>8. frame'[g].pc # "insert"
  BY <1>1, <1>7 DEF SafeClose, SafeCloseEnter, SafeCloseDone, SafeCloseWS, SafeCloseAgain, Frame
<1> QED BY <1>2, <1>5, <1>6, <1>8, WatchOthers

\* A handler that changes at most one connection, and its status only.
LEMMA WatchHandler ==
    ASSUME IInv, IInv', AllGrow, WatchInv, NEW cl \in Clients,
           \/ HandlerStep(cl) \/ \E k \in Keys : Request(cl, k) \/ CloseMessage(cl, k)
    PROVE  WatchInv'
<1> DEFINE h == Handler(cl)
<1>0. h \in Goroutines /\ h \in Handlers /\ h \notin Monitors /\ h \notin Readers
  BY GoroutineNames DEF Readers
<1> HIDE DEF h
<1>1. /\ frame[h] \in Frame /\ FrameOK(h, frame[h], conn) /\ frame \in [Goroutines -> Frame]
      /\ conn \in [Conns -> Connection]
      /\ Monitors \subseteq Goroutines /\ Handlers \subseteq Goroutines
  BY <1>0 DEF IInv, TypeOK, Goroutines
<1>2. CASE SafeClose(h)
  BY <1>0, <1>2, WatchSafeClose
<1>3. CASE DialSucceeds(h)
  BY <1>0, <1>3, WatchDial
<1>4. CASE Insert(h)
  BY <1>0, <1>4, WatchInsert
<1>5. Loop(h).pc = "loop" /\ Off.pc = "off"
  BY <1>0 DEF Loop, HandlerLoop, Start, Off
<1>6. ASSUME conn' = conn, frame[h].pc # "insert", frame'[h].pc # "insert",
             \A g \in Handlers \cup Monitors : g # h => frame'[g] = frame[g]
      PROVE  WatchInv'
  BY <1>0, <1>6, WatchOthers DEF Free
<1>7. CASE DialFails(h)
  BY <1>1, <1>0, <1>5, <1>6, <1>7 DEF DialFails, At
<1>8. CASE StartReader(cl)
  <2>1. /\ conn' = conn /\ frame[h].pc = "start"
        /\ frame' = [frame EXCEPT ![h].pc = "check", ![h].key = None,
                                  ![Reader(frame[h].conn)] = Start(frame[h].conn, cl)]
    BY <1>8 DEF StartReader, At, h
  <2>2. \A g \in Handlers \cup Monitors : g # Reader(frame[h].conn)
    BY DEF Handlers, Monitors, Handler, Monitor, Reader
  <2>3. /\ \A g \in Handlers \cup Monitors : g # h => frame'[g] = frame[g]
        /\ frame'[h].pc = "check"
    BY <1>0, <1>1, <2>1, <2>2 DEF Frame
  <2> QED BY <1>6, <2>1, <2>3
<1>9. CASE CheckState(cl)
  <2>1. /\ conn' = conn /\ frame[h].pc = "check"
        /\ \A g \in Handlers \cup Monitors : g # h => frame'[g] = frame[g]
        /\ frame'[h].pc \in {"write", "loop"}
    BY <1>0, <1>1, <1>5, <1>9 DEF CheckState, At, h, Frame
  <2> QED BY <1>6, <2>1
<1>10. ASSUME NEW s \in State, NEW c \in Conns, conn' = [conn EXCEPT ![c] = UpdateStatus(conn[c], s)]
       PROVE  \A d \in Conns : Free(d) => conn'[d].key = None
  BY <1>1, <1>10 DEF Free, UpdateStatus, WriteStatus, Connection
<1>11. CASE WriteToCluster(cl)
  <2>1. /\ frame[h].pc = "write" /\ frame'[h].pc = "loop"
        /\ \A g \in Handlers \cup Monitors : g # h => frame'[g] = frame[g]
    BY <1>0, <1>1, <1>5, <1>11 DEF WriteToCluster, At, h
  <2>2. \A d \in Conns : Free(d) => conn'[d].key = None
    <3>1. CASE conn' = conn
      BY <3>1 DEF Free
    <3>2. CASE conn' = [conn EXCEPT ![frame[h].conn] = UpdateStatus(conn[frame[h].conn], "error")]
      BY <1>1, <3>2 DEF Free, UpdateStatus, WriteStatus, Connection
    <3> QED BY <1>11, <3>1, <3>2 DEF WriteToCluster, h
  <2> QED BY <1>0, <2>1, <2>2, WatchOthers
<1>12. CASE CloseStatus(cl)
  <2>1. /\ frame[h].pc = "status" /\ frame'[h].pc = "close"
        /\ \A g \in Handlers \cup Monitors : g # h => frame'[g] = frame[g]
    BY <1>0, <1>1, <1>12 DEF CloseStatus, At, h, Frame
  <2>2. \A d \in Conns : Free(d) => conn'[d].key = None
    <3>1. conn' = [conn EXCEPT ![frame[h].conn] = UpdateStatus(conn[frame[h].conn], "closed")]
      BY <1>12 DEF CloseStatus, h
    <3> QED BY <1>1, <3>1 DEF Free, UpdateStatus, WriteStatus, Connection
  <2> QED BY <1>0, <2>1, <2>2, WatchOthers
<1>13. CASE Leave(cl)
  <2>1. /\ conn' = conn /\ frame[h].pc = "loop" /\ frame'[h].pc = "leave"
        /\ \A g \in Handlers \cup Monitors : g # h => frame'[g] = frame[g]
    BY <1>0, <1>1, <1>13 DEF Leave, At, h, Frame
  <2> QED BY <1>6, <2>1
<1>14. CASE CollectConnections(cl)
  <2>1. /\ conn' = conn /\ frame[h].pc = "leave" /\ frame'[h].pc = "detach"
        /\ \A g \in Handlers \cup Monitors : g # h => frame'[g] = frame[g]
    BY <1>0, <1>1, <1>14 DEF CollectConnections, At, h, Frame
  <2> QED BY <1>6, <2>1
<1>15. CASE DetachConnection(cl)
  <2>1. PICK c \in frame[h].todo :
          /\ conn' = [conn EXCEPT ![c] = Detach(conn[c], cl)]
          /\ frame' = [frame EXCEPT ![h].todo = @ \ {c}, ![h].conn = c,
                                    ![h].pc = "close", ![h].ret = "detach"]
    BY <1>15 DEF DetachConnection, h
  <2>2. /\ frame[h].pc = "detach" /\ frame'[h].pc = "close"
        /\ \A g \in Handlers \cup Monitors : g # h => frame'[g] = frame[g]
    BY <1>0, <1>1, <1>15, <2>1 DEF DetachConnection, At, h, Frame
  <2>3. \A d \in Conns : Free(d) => conn'[d].key = None
    BY <1>1, <2>1 DEF Free, Detach, Connection
  <2> QED BY <1>0, <2>2, <2>3, WatchOthers
<1>16. CASE HandlerReturns(cl)
  <2>1. /\ conn' = conn /\ frame[h].pc = "detach" /\ frame'[h].pc = "off"
        /\ \A g \in Handlers \cup Monitors : g # h => frame'[g] = frame[g]
    BY <1>0, <1>1, <1>5, <1>16 DEF HandlerReturns, At, h
  <2> QED BY <1>6, <2>1
<1>17. ASSUME NEW k \in Keys, Request(cl, k) PROVE WatchInv'
  <2>1. /\ conn' = conn /\ frame[h].pc = "loop" /\ frame'[h].pc \in {"dial", "check"}
        /\ \A g \in Handlers \cup Monitors : g # h => frame'[g] = frame[g]
    BY <1>0, <1>1, <1>17 DEF Request, At, h, Frame
  <2> QED BY <1>6, <2>1
<1>18. ASSUME NEW k \in Keys, CloseMessage(cl, k) PROVE WatchInv'
  <2>1. /\ conn' = conn /\ frame[h].pc = "loop" /\ frame'[h].pc = "status"
        /\ \A g \in Handlers \cup Monitors : g # h => frame'[g] = frame[g]
    BY <1>0, <1>1, <1>18 DEF CloseMessage, At, h, Frame
  <2> QED BY <1>6, <2>1
<1> QED
  BY <1>2, <1>3, <1>4, <1>7, <1>8, <1>9, <1>11, <1>12, <1>13, <1>14, <1>15, <1>16, <1>17, <1>18
  DEF HandlerStep, Establish, h

\* A monitor leaves its connection only to hang up first, and ends only with Done.
LEMMA WatchMonitor ==
    ASSUME IInv, IInv', AllGrow, WatchInv, NEW i \in Conns,
           MonitorStep(i) \/ Heartbeat(i) \/ MonitorStops(i)
    PROVE  WatchInv'
<1> DEFINE m == Monitor(i)
           d == frame[m].conn
<1>0. m \in Goroutines /\ m \in Monitors /\ m \notin Handlers
  BY GoroutineNames
<1> HIDE DEF m
<1>1. /\ frame[m] \in Frame /\ FrameOK(m, frame[m], conn) /\ frame \in [Goroutines -> Frame]
      /\ conn \in [Conns -> Connection]
      /\ Monitors \subseteq Goroutines /\ Handlers \subseteq Goroutines
  BY <1>0 DEF IInv, TypeOK, Goroutines
<1>2. CASE DialSucceeds(m)
  BY <1>0, <1>2, WatchDial
<1>3. CASE Insert(m)
  BY <1>0, <1>3, WatchInsert
<1>4. ASSUME \A c \in Conns : Free(c) => conn'[c].key = None,
             \A g \in Handlers \cup Monitors : g # m => frame'[g] = frame[g],
             GoesOn(m) \/ Ends(m)
      PROVE  WatchInv'
  <2>1. \A g \in Monitors : frame'[g] = frame[g] \/ GoesOn(g) \/ Ends(g)
    BY <1>4
  <2>2. \A g \in Handlers : frame'[g] = frame[g]
    BY <1>0, <1>4
  <2> QED BY <1>4, <2>1, <2>2, WatchKept
<1>5. ASSUME NEW f \in Frame, frame' = [frame EXCEPT ![m] = f]
      PROVE  frame'[m] = f /\ \A g \in Handlers \cup Monitors : g # m => frame'[g] = frame[g]
  BY <1>0, <1>1, <1>5
<1>6. ASSUME NEW s \in State, conn' = [conn EXCEPT ![d] = UpdateStatus(conn[d], s)]
      PROVE  \A c \in Conns : Free(c) => conn'[c].key = None
  BY <1>1, <1>6 DEF Free, UpdateStatus, WriteStatus, Connection
<1>7. ASSUME frame[m].pc # "off" PROVE d \in Conns
  BY <1>0, <1>1, <1>7 DEF FrameOK, Frame
<1>8. ASSUME NEW pc \in {"loop", "ping", "reconnect", "hangup"}, frame[m].pc \notin {"off", "insert"},
             frame' = [frame EXCEPT ![m].pc = pc],
             \A c \in Conns : Free(c) => conn'[c].key = None
      PROVE  WatchInv'
  <2>1. /\ frame'[m].pc = pc /\ frame'[m].conn = d
        /\ \A g \in Handlers \cup Monitors : g # m => frame'[g] = frame[g]
    BY <1>0, <1>1, <1>8 DEF Frame
  <2> QED BY <1>4, <1>8, <2>1 DEF GoesOn
<1>9. Loop(m) = Start(d, None) /\ Loop(m).pc = "loop" /\ Loop(m).conn = d
  BY <1>0 DEF Loop, MonitorLoop, Start
<1>10. CASE MonitorStops(i)
  <2>1. /\ frame[m].pc = "loop" /\ conn[d].done
        /\ frame' = [frame EXCEPT ![m] = Off]
        /\ conn' = [conn EXCEPT ![d] = UpdateStatus(conn[d], "closed")]
    BY <1>1, <1>10 DEF MonitorStops, At, m
  <2>2. d \in Conns /\ conn[d].closed
    BY <1>7, <2>1 DEF IInv, RecordOK
  <2>3. conn'[d].closed
    BY <2>2 DEF AllGrow, Grow
  <2>4. frame'[m] = Off /\ \A g \in Handlers \cup Monitors : g # m => frame'[g] = frame[g]
    BY <1>0, <1>1, <2>1
  <2>5. Ends(m)
    BY <2>1, <2>3, <2>4 DEF Ends, Off, Start
  <2>6. \A c \in Conns : Free(c) => conn'[c].key = None
    BY <1>6, <2>1 DEF State
  <2> QED BY <1>4, <2>4, <2>5, <2>6
<1>11. CASE Heartbeat(i)
  BY <1>8, <1>11 DEF Heartbeat, At, m, Free
<1>12. CASE PingSucceeds(i)
  BY <1>8, <1>12 DEF PingSucceeds, At, m, Free
<1>13. CASE PingFails(i)
  <2>1. /\ frame[m].pc = "ping" /\ frame' = [frame EXCEPT ![m].pc = "reconnect"]
        /\ conn' = [conn EXCEPT ![d] = UpdateStatus(conn[d], "error")]
    BY <1>13 DEF PingFails, At, m
  <2>2. \A c \in Conns : Free(c) => conn'[c].key = None
    BY <1>6, <2>1 DEF State
  <2> QED BY <1>8, <2>1, <2>2
<1>14. CASE ReconnectCheck(i)
  BY <1>8, <1>14 DEF ReconnectCheck, At, m, Free
<1>15. CASE HangUp(i)
  <2>1. /\ frame[m].pc = "hangup" /\ conn' = [conn EXCEPT ![d].ws = "closed"]
        /\ frame' = [frame EXCEPT ![m].pc = "dial", ![m].key = conn[d].key,
                                  ![m].client = conn[d].client]
    BY <1>15 DEF HangUp, At, m
  <2>2. /\ frame'[m].pc = "dial" /\ frame'[m].conn = d
        /\ \A g \in Handlers \cup Monitors : g # m => frame'[g] = frame[g]
    BY <1>0, <1>1, <2>1 DEF Frame
  <2>3. conn'[d].ws = "closed"
    BY <1>1, <1>7, <2>1 DEF Connection
  <2>4. \A c \in Conns : Free(c) => conn'[c].key = None
    BY <1>1, <2>1 DEF Free, Connection
  <2> QED BY <1>4, <2>1, <2>2, <2>3, <2>4 DEF GoesOn
<1>16. CASE Reinsert(i) \/ DialFails(m)
  <2>1. /\ frame[m].pc \in {"reinsert", "dial"} /\ conn' = conn
        /\ frame' = [frame EXCEPT ![m] = Loop(m)]
    BY <1>16 DEF Reinsert, DialFails, At, m
  <2>2. /\ frame'[m].pc = "loop" /\ frame'[m].conn = d
        /\ \A g \in Handlers \cup Monitors : g # m => frame'[g] = frame[g]
    BY <1>0, <1>1, <1>9, <2>1
  <2> QED BY <1>4, <2>1, <2>2 DEF GoesOn, Free
<1> QED
  BY <1>2, <1>3, <1>10, <1>11, <1>12, <1>13, <1>14, <1>15, <1>16 DEF MonitorStep, Establish, m

\* Readers and the environment move no monitor.
LEMMA WatchReader ==
    ASSUME IInv, IInv', AllGrow, WatchInv, NEW c \in Conns, ReaderStep(c) \/ Receive(c)
    PROVE  WatchInv'
<1> DEFINE r == Reader(c)
<1>0. r \in Goroutines /\ r \notin Monitors /\ r \notin Handlers
  BY GoroutineNames
<1> HIDE DEF r
<1>1. frame \in [Goroutines -> Frame] /\ Monitors \subseteq Goroutines /\ Handlers \subseteq Goroutines
  BY DEF IInv, TypeOK, Goroutines
<1>2. CASE SafeClose(r)
  BY <1>0, <1>2, WatchSafeClose
<1>3. CASE ReaderStops(c) \/ SendData(c) \/ DeleteEntry(c) \/ Receive(c)
  <2>1. conn' = conn
    BY <1>3 DEF ReaderStops, SendData, DeleteEntry, Receive
  <2>2. \A h \in Handlers \cup Monitors : frame'[h] = frame[h]
    BY <1>0, <1>1, <1>3 DEF ReaderStops, SendData, DeleteEntry, Receive, r
  <2> QED BY <2>1, <2>2, WatchKept DEF Free
<1> QED BY <1>2, <1>3 DEF ReaderStep, r

LEMMA WatchEnvironment ==
    ASSUME IInv, IInv', AllGrow, WatchInv,
           (\E cl \in Clients : ClientLeaves(cl)) \/ (\E c \in Conns : ClusterEnds(c)) \/ UNCHANGED vars
    PROVE  WatchInv'
<1>1. frame' = frame
  BY DEF ClientLeaves, ClusterEnds, vars
<1>2. \A c \in Conns : Free(c) => conn'[c].key = None
  BY DEF ClientLeaves, ClusterEnds, vars, Free, IInv, TypeOK, Connection
<1> QED BY <1>1, <1>2, WatchKept

LEMMA WatchInitially == Init => WatchInv
<1> SUFFICES ASSUME Init PROVE WatchInv
  OBVIOUS
<1>1. \A c \in Conns : conn[c].key = None
  BY DEF Init, NewConnection
<1>2. \A g \in Goroutines : frame[g].pc \in {"loop", "off"} /\ (g \notin Handlers => frame[g].pc = "off")
  BY DEF Init, Start, Off
<1>3. /\ \A m \in Monitors : m \in Goroutines /\ m \notin Handlers
      /\ \A h \in Handlers : h \in Goroutines
      /\ \A c \in Conns : Monitor(c) \in Monitors
  BY DEF Goroutines, Monitors, Handlers, Monitor, Handler
<1>4. \A c \in Conns : ~Open(c)
  BY <1>1 DEF Open, Live, Free
<1> QED BY <1>2, <1>3, <1>4 DEF WatchInv, HungUpInv, FreshInv, At

LEMMA WatchInductive == IInv /\ WatchInv /\ [Next]_vars => WatchInv'
<1> SUFFICES ASSUME IInv, WatchInv, [Next]_vars PROVE WatchInv'
  OBVIOUS
<1>1. IInv' /\ AllGrow
  BY Inductive
<1>2. CASE UNCHANGED vars
  BY <1>1, <1>2, WatchEnvironment
<1>3. CASE Next
  <2>1. CASE Terminated
    BY <1>2, <2>1 DEF Terminated
  <2> QED BY <1>1, <1>3, <2>1, WatchHandler, WatchMonitor, WatchReader, WatchEnvironment DEF Next
<1> QED BY <1>2, <1>3

(***************************************************************************)
(* No websocket to a cluster is left to itself: as long as the backend has *)
(* not closed it, some monitor watches it or is about to be started,       *)
(* however often monitors reconnect and whatever readers and departing     *)
(* clients take out of the map.                                            *)
(***************************************************************************)
THEOREM WebsocketsAreMonitored == Spec => []OpenIsMonitored
<1>1. WatchInv => OpenIsMonitored
  BY DEF WatchInv, Open, Monitored, OpenIsMonitored
<1> QED BY <1>1, Initially, Inductive, WatchInitially, WatchInductive, PTL DEF Spec

-----------------------------------------------------------------------------
(***************************************************************************)
(* SATokenCache, the other part of multiplexer.go, for any number of       *)
(* callers, files and rotations.  To know that an entry is not older than  *)
(* its time one must know it of the token a call is about to store; and    *)
(* that needs the time a call saw never to exceed the file's present time. *)
(***************************************************************************)
StatNotInTheFuture ==
    \A c \in Callers : call[c].stat <= file[call[c].path].modTime

ReadAfterStat ==
    \A c \in Callers :
        call[c].pc \in {"store", "ok"} =>
            /\ call[c].token \in Token
            /\ call[c].token.written >= call[c].stat

TokenInv ==
    /\ TokenTypeOK
    /\ StatNotInTheFuture
    /\ ReadAfterStat
    /\ EntryNotOlderThanItsTime

\* The initial states satisfy the invariant.
LEMMA TokenInitInv == TokenInit => TokenInv
<1> SUFFICES ASSUME TokenInit PROVE TokenInv
    OBVIOUS
<1>1. TokenTypeOK
    BY DEF TokenInit, TokenTypeOK, File, Kinds, Call
<1>2. StatNotInTheFuture
    BY DEF TokenInit, StatNotInTheFuture
<1>3. ReadAfterStat /\ EntryNotOlderThanItsTime
    BY DEF TokenInit, ReadAfterStat, EntryNotOlderThanItsTime
<1> QED
    BY <1>1, <1>2, <1>3 DEF TokenInv

\* Every step of a caller and of the kubelet preserves the invariant.
LEMMA TokenNextInv == TokenInv /\ [TokenNext]_tokenVars => TokenInv'
<1> SUFFICES ASSUME TokenInv, [TokenNext]_tokenVars PROVE TokenInv'
    OBVIOUS
<1> USE DEF TokenInv
<1>1. ASSUME NEW c \in Callers, NEW p \in Paths, Stat(c, p) PROVE TokenInv'
    <2>1. TokenTypeOK'
        BY <1>1 DEF Stat, TokenTypeOK, Call, File
    <2>2. StatNotInTheFuture'
        BY <1>1 DEF Stat, TokenTypeOK, Call, File, StatNotInTheFuture
    <2>3. ReadAfterStat' /\ EntryNotOlderThanItsTime'
        BY <1>1 DEF Stat, TokenTypeOK, Call, ReadAfterStat, EntryNotOlderThanItsTime
    <2> QED BY <2>1, <2>2, <2>3
<1>2. ASSUME NEW c \in Callers, Lookup(c) PROVE TokenInv'
    <2>0. call[c].path \in Paths
        BY DEF TokenTypeOK, Call
    <2>1. TokenTypeOK'
        BY <1>2, <2>0, NullAssumption DEF Lookup, Hit, TokenTypeOK, Call, Entry
    <2>2. StatNotInTheFuture'
        BY <1>2 DEF Lookup, TokenTypeOK, Call, StatNotInTheFuture
    <2>3. ReadAfterStat'
        BY <1>2, <2>0, NullAssumption
        DEF Lookup, Hit, TokenTypeOK, Call, Entry, ReadAfterStat, EntryNotOlderThanItsTime
    <2>4. EntryNotOlderThanItsTime'
        BY <1>2 DEF Lookup, EntryNotOlderThanItsTime
    <2> QED BY <2>1, <2>2, <2>3, <2>4
<1>3. ASSUME NEW c \in Callers, ReadFile(c) PROVE TokenInv'
    <2>0. Content(file[call[c].path]) \in Token
        BY DEF Content, Token, TokenTypeOK, Call, File
    <2>1. TokenTypeOK'
        BY <1>3, <2>0 DEF ReadFile, TokenTypeOK, Call
    <2>2. StatNotInTheFuture'
        BY <1>3 DEF ReadFile, TokenTypeOK, Call, StatNotInTheFuture
    <2>3. ReadAfterStat'
        <3>1. Content(file[call[c].path]).written >= call[c].stat
            BY DEF Content, StatNotInTheFuture, TokenTypeOK, Call, File
        <3> QED
            BY <1>3, <2>0, <3>1 DEF ReadFile, TokenTypeOK, Call, ReadAfterStat
    <2>4. EntryNotOlderThanItsTime'
        BY <1>3 DEF ReadFile, EntryNotOlderThanItsTime
    <2> QED BY <2>1, <2>2, <2>3, <2>4
<1>4. ASSUME NEW c \in Callers, Store(c) PROVE TokenInv'
    <2>0. /\ NewEntry(c) \in Entry
          /\ NewEntry(c).token.written >= NewEntry(c).modTime
        BY <1>4 DEF Store, NewEntry, Entry, TokenTypeOK, Call, ReadAfterStat
    <2>1. TokenTypeOK'
        BY <1>4, <2>0 DEF Store, TokenTypeOK, Call
    <2>2. StatNotInTheFuture' /\ ReadAfterStat'
        BY <1>4 DEF Store, TokenTypeOK, Call, StatNotInTheFuture, ReadAfterStat
    <2>3. EntryNotOlderThanItsTime'
        BY <1>4, <2>0 DEF Store, TokenTypeOK, EntryNotOlderThanItsTime
    <2> QED BY <2>1, <2>2, <2>3
<1>5. ASSUME NEW p \in Paths, Rotate(p) PROVE TokenInv'
    <2>1. TokenTypeOK'
        BY <1>5 DEF Rotate, TokenTypeOK, File
    <2>2. StatNotInTheFuture'
        BY <1>5 DEF Rotate, TokenTypeOK, File, Call, StatNotInTheFuture
    <2>3. ReadAfterStat' /\ EntryNotOlderThanItsTime'
        BY <1>5 DEF Rotate, ReadAfterStat, EntryNotOlderThanItsTime
    <2> QED BY <2>1, <2>2, <2>3
<1>6. CASE UNCHANGED tokenVars
    BY <1>6 DEF tokenVars, TokenTypeOK, StatNotInTheFuture, ReadAfterStat,
                EntryNotOlderThanItsTime
<1> QED
    BY <1>1, <1>2, <1>3, <1>4, <1>5, <1>6 DEF TokenNext

\* The invariant holds in every behaviour of the cache.
LEMMA TokenSpecInv == TokenSpec => []TokenInv
    BY TokenInitInv, TokenNextInv, PTL DEF TokenSpec

\* The variables keep their types; in particular no empty token is cached.
THEOREM TokenTypeCorrect == TokenSpec => []TokenTypeOK
    BY TokenSpecInv, PTL DEF TokenInv

\* No entry of saTokenCache carries a later time than its token.
THEOREM EntriesOrdered == TokenSpec => []EntryNotOlderThanItsTime
    BY TokenSpecInv, PTL DEF TokenInv

\* readServiceAccountToken never returns a token older than its own stat.
THEOREM TokensFresh == TokenSpec => []NeverStale
<1>1. TokenInv => NeverStale
    BY DEF TokenInv, ReadAfterStat, NeverStale
<1> QED
    BY <1>1, TokenSpecInv, PTL

==============================================================================
