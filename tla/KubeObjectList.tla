--------------------------- MODULE KubeObjectList ---------------------------
(***************************************************************************)
(* A list of Kubernetes objects in the browser: the query of               *)
(* useKubeObjectList, its pages (loadMore), the watch that keeps it up to  *)
(* date and KubeList.applyUpdate                                           *)
(* (frontend/src/lib/k8s/api/v2/useKubeObjectList.ts, KubeList.ts).        *)
(*                                                                         *)
(* One request (a cluster and a namespace) of one mounted hook, with the   *)
(* websocket multiplexer enabled.  The API server, external, is a history  *)
(* of snapshots: hist[n] gives the version of every object at resource     *)
(* version n, 0 where it does not exist.  An object stands for its uid and *)
(* for its place in the order of a paged list.  React runs an effect some  *)
(* time after the cache has changed: events of a socket and answers of     *)
(* requests may come in between.  When the last page has come, shouldWatch *)
(* is TRUE one render before listsToWatch follows; the model merges the    *)
(* two renders.                                                            *)
(*                                                                         *)
(* A subscription is named by the version it watches from: its key differs *)
(* from those of the other subscriptions of the list in that alone.  The   *)
(* backend knows the path only, and has one connection for all of them     *)
(* (multiplexer.go, getOrCreateConnection and CloseConnection).            *)
(***************************************************************************)
EXTENDS Naturals, Sequences, SequencesExt

CONSTANTS
    NumObjs,     \* objects the server may ever hold: 1 .. NumObjs
    Limit,       \* the limit of the list requests
    MaxVersion,  \* bound: changes on the server
    MaxFetches,  \* bound: list requests without a continue token
    MaxCloses,   \* bound: losses of the socket
    Undef        \* the JavaScript value of a resource version that is not there

ASSUME BoundsAssumption ==
    /\ {NumObjs, Limit, MaxVersion, MaxFetches, MaxCloses} \subseteq Nat \ {0}
    /\ Undef \notin Nat

VARIABLES
    hist,      \* the server: its snapshots, oldest first
    horizon,   \* the oldest version the server still has
    cache,     \* the cached list of the query, or NoList
    fetch,     \* the list request in flight
    more,      \* the loadMore in flight
    socket,    \* the socket of the WebSocketManager
    stream,    \* the subscription the watch effect made last, or NoStream
    leaked,    \* keys of earlier ones whose cleanup the effect did not know
    timers,    \* keys with the debounce timer of an unsubscribe
    conn,      \* the connection the backend has for the path, or NoConn
    fetches, closes,   \* counters for the bounds
    damaged    \* history: since the last complete answer of a list request, the
               \* cached list met one of the races that Damage names

server == <<hist, horizon>>

watch == <<socket, stream, leaked, timers, conn, closes>>

vars == <<server, cache, fetch, more, watch, fetches, damaged>>

-----------------------------------------------------------------------------
Objs == 1 .. NumObjs

Versions == 1 .. MaxVersion

Now == Len(hist)

Snapshot == [Objs -> 0 .. MaxVersion]

\* A continue token: the snapshot it belongs to and the last object before it.
Token == [rv : Versions, after : Objs]

NoToken == [rv |-> 0, after |-> 0]

Item == [uid : Objs, ver : Versions]

List == [items : Seq(Item), rv : Versions \cup {Undef}, cont : Token \cup {NoToken}]

NoList == [items |-> <<>>, rv |-> 0, cont |-> NoToken]

\* What tells the keys of the list apart: the version of the query.
Froms == Versions \cup {Undef}

(***************************************************************************)
(* waiting: subscribe has not resolved.  kept: it has, and the effect has  *)
(* its cleanup.  failed: it was rejected, and the callback stays.          *)
(***************************************************************************)
Stream == [at : {"waiting", "kept", "failed"}, from : Froms]

NoStream == [at |-> "off", from |-> 0]

\* live: events after pos come.  expired: the server answers with an ERROR event.
Conn == [at : {"live", "expired"}, from : Versions, pos : 0 .. MaxVersion]

NoConn == [at |-> "none", from |-> 0, pos |-> 0]

Request == [at : {"idle", "asked", "answered", "gone"}, token : Token \cup {NoToken},
            list : List \cup {NoList}]

Idle == [at |-> "idle", token |-> NoToken, list |-> NoList]

TypeOK ==
    /\ hist \in Seq(Snapshot) /\ Now \in Versions
    /\ horizon \in 1 .. Now
    /\ cache \in List \cup {NoList}
    /\ fetch \in Request
    /\ more \in Request
    /\ socket \in {"closed", "connecting", "open"}
    /\ stream \in Stream \cup {NoStream}
    /\ leaked \subseteq Froms
    /\ timers \subseteq Froms
    /\ conn \in Conn \cup {NoConn}
    /\ fetches \in 0 .. MaxFetches
    /\ closes \in 0 .. MaxCloses
    /\ damaged \in BOOLEAN

Init ==
    /\ \E held \in SUBSET Objs : hist = << [o \in Objs |-> IF o \in held THEN 1 ELSE 0] >>
    /\ horizon = 1
    /\ cache = NoList
    /\ fetch = Idle
    /\ more = Idle
    /\ socket = "closed"
    /\ stream = NoStream
    /\ leaked = {}
    /\ timers = {}
    /\ conn = NoConn
    /\ fetches = 0
    /\ closes = 0
    /\ damaged = FALSE

-----------------------------------------------------------------------------
(* The API server.                                                         *)

\* A uid is never used again after its deletion.
Change(o) ==
    /\ Now < MaxVersion
    /\ LET used == \E n \in 1 .. Now : hist[n][o] # 0
           exists == hist[Now][o] # 0
       IN  \/ /\ exists \/ ~used
              /\ hist' = Append(hist, [hist[Now] EXCEPT ![o] = Now + 1])
           \/ /\ exists
              /\ hist' = Append(hist, [hist[Now] EXCEPT ![o] = 0])
    /\ UNCHANGED <<horizon, cache, fetch, more, watch, fetches, damaged>>

Compact ==
    /\ horizon < Now
    /\ horizon' = Now
    /\ UNCHANGED <<hist, cache, fetch, more, watch, fetches, damaged>>

\* The objects of snapshot n up to `last', and their versions.
Objects(n, last) == { [uid |-> o, ver |-> hist[n][o]] : o \in {x \in 1 .. last : hist[n][x] # 0} }

\* The last object that a list, or a page, accounts for.
LastOf(list) == IF list.cont = NoToken THEN NumObjs ELSE list.cont.after

(***************************************************************************)
(* The page of snapshot n behind the object `after': the objects in their  *)
(* order, all that are left or as many as the limit allows with a token    *)
(* for the others.                                                         *)
(***************************************************************************)
IsPage(page, n, after) ==
    /\ Range(page.items) = {item \in Objects(n, LastOf(page)) : item.uid > after}
    /\ \A i, j \in DOMAIN page.items : i < j => page.items[i].uid < page.items[j].uid
    /\ page.cont # NoToken =>
          /\ Len(page.items) = Limit /\ Last(page.items).uid = page.cont.after
          /\ \E o \in Objs : o > page.cont.after /\ hist[n][o] # 0

Pages(n, after) ==
    { page \in [items : SeqOf(Objects(n, NumObjs), Limit), rv : {n},
                cont : [rv : {n}, after : Objs] \cup {NoToken}] : IsPage(page, n, after) }

\* The watch event of version n.
EventOf(n) ==
    LET o == CHOOSE x \in Objs : hist[n][x] # hist[n - 1][x]
    IN  [type |-> CASE hist[n][o] = 0 -> "DELETED"
                    [] hist[n - 1][o] = 0 -> "ADDED"
                    [] OTHER -> "MODIFIED",
         uid |-> o, rv |-> n]

-----------------------------------------------------------------------------
(* KubeList.applyUpdate.                                                   *)

\* Mutant: what is older than the list is applied as well.
NeverSkips(list, event) == FALSE

\* Nothing is skipped when one of the two versions is missing.
Skips(list, event) == list.rv # Undef /\ event.rv # Undef /\ event.rv <= list.rv

IndexOf(items, uid) == SelectInSeq(items, LAMBDA item : item.uid = uid)

\* Mutant: an update of an object that is there is appended to the list.
UpdatedAppends(items, event) == Append(items, [uid |-> event.uid, ver |-> event.rv])

Updated(items, event) ==
    LET i == IndexOf(items, event.uid)
        item == [uid |-> event.uid, ver |-> event.rv]
    IN  IF i # 0 THEN [items EXCEPT ![i] = item] ELSE Append(items, item)

Removed(items, event) ==
    LET i == IndexOf(items, event.uid)
    IN  IF i # 0 THEN RemoveAt(items, i) ELSE items

ErrorEvent == [type |-> "ERROR", uid |-> 0, rv |-> Undef]

Applied(list, event) ==
    IF Skips(list, event) THEN list
    ELSE [list EXCEPT !.items = CASE event.type \in {"ADDED", "MODIFIED"} -> Updated(list.items, event)
                                  [] event.type = "DELETED" -> Removed(list.items, event)
                                  [] event.type = "ERROR" -> list.items,
                      !.rv = event.rv]

-----------------------------------------------------------------------------
\* The keys that have a callback.
HeardKeys == leaked \cup (IF stream = NoStream THEN {} ELSE {stream.from})

\* Events of the connection reach the list.
Heard == conn # NoConn /\ conn.from \in HeardKeys

(***************************************************************************)
(* What the list cannot stand: an answer that is older than what a watch   *)
(* has brought already, or than the version a watch starts from.  The next *)
(* event leaves a gap.                                                     *)
(***************************************************************************)
Damage(list) ==
    \/ Heard /\ conn.pos > list.rv
    \/ \E from \in HeardKeys : from # Undef /\ from > list.rv

\* The query is mounted, stale when mounted again, or the network is back.
StartFetch ==
    /\ fetch.at = "idle"
    /\ fetches < MaxFetches
    /\ fetches' = fetches + 1
    /\ fetch' = [Idle EXCEPT !.at = "asked"]
    /\ UNCHANGED <<server, cache, more, watch, damaged>>

AnswerFetch ==
    /\ fetch.at = "asked"
    /\ \E page \in Pages(Now, 0) : fetch' = [fetch EXCEPT !.at = "answered", !.list = page]
    /\ UNCHANGED <<server, cache, more, watch, fetches, damaged>>

\* The result of queryFn replaces what is cached.
FetchDone ==
    /\ fetch.at = "answered"
    /\ cache' = fetch.list
    /\ fetch' = Idle
    /\ damaged' = Damage(fetch.list)
    /\ UNCHANGED <<server, more, watch, fetches>>

\* After its retries the query keeps what it had.
FetchFails ==
    /\ fetch.at \in {"asked", "answered"}
    /\ fetch' = Idle
    /\ UNCHANGED <<server, cache, more, watch, fetches, damaged>>

\* loadMorePromiseRef: one at a time.
MayLoadMore == more.at = "idle"

LoadMore ==
    /\ MayLoadMore
    /\ cache.cont # NoToken
    /\ more' = [Idle EXCEPT !.at = "asked", !.token = cache.cont]
    /\ UNCHANGED <<server, cache, fetch, watch, fetches, damaged>>

AnswerMore ==
    /\ more.at = "asked"
    /\ \/ /\ more.token.rv < horizon
          /\ more' = [more EXCEPT !.at = "gone"]
       \/ /\ more.token.rv >= horizon
          /\ \E page \in Pages(more.token.rv, more.token.after) :
                more' = [more EXCEPT !.at = "answered", !.list = page]
    /\ UNCHANGED <<server, cache, fetch, watch, fetches, damaged>>

\* The page is appended to what the cache holds by then.
WithPage(list, page) == [page EXCEPT !.items = list.items \o page.items]

MoreDone ==
    /\ more.at = "answered"
    /\ cache' = WithPage(cache, more.list)
    /\ damaged' = (damaged \/ cache.cont # more.token \/ Damage(more.list))
    /\ more' = Idle
    /\ UNCHANGED <<server, fetch, watch, fetches>>

\* 410: the token has expired.  invalidateQueries starts the query anew, and
\* a request that is in flight is cancelled.
MoreGone ==
    /\ more.at = "gone"
    /\ fetches < MaxFetches
    /\ fetches' = fetches + 1
    /\ fetch' = [Idle EXCEPT !.at = "asked"]
    /\ more' = Idle
    /\ UNCHANGED <<server, cache, watch, damaged>>

\* Another error: it is shown, and loadMore may be called again.
MoreFails ==
    /\ more.at \in {"asked", "answered"}
    /\ more' = Idle
    /\ UNCHANGED <<server, cache, fetch, watch, fetches, damaged>>

-----------------------------------------------------------------------------
(***************************************************************************)
(* The watch.  shouldWatch, listsToWatch and connections: the version to   *)
(* watch from, or 0.                                                       *)
(***************************************************************************)
WatchFrom == IF cache.cont # NoToken THEN 0 ELSE cache.rv

\* Mutant: the watch starts one version later.
ServedOneLater(from) ==
    IF from = Undef THEN NoConn
    ELSE [at |-> IF from < horizon THEN "expired" ELSE "live", from |-> from, pos |-> from + 1]

\* The connection for a REQUEST.  makeUrl writes "undefined" for a version that
\* is not there, which the server rejects.
Served(from) ==
    IF from = Undef THEN NoConn
    ELSE [at |-> IF from < horizon THEN "expired" ELSE "live", from |-> from, pos |-> from]

\* A REQUEST for one of the keys: the backend keeps the connection that the path
\* has, whatever its query.  Dialling may fail, and another tab may be connected.
RequestFor(keys) ==
    IF conn = NoConn THEN conn' \in {NoConn} \cup {Served(from) : from \in keys}
                     ELSE conn' = conn

\* subscribe: the REQUEST goes out at once over an open socket.
Subscribe(from) ==
    \/ /\ socket = "open"
       /\ stream' = [at |-> "kept", from |-> from]
       /\ RequestFor({from})
       /\ UNCHANGED socket
    \/ /\ socket # "open"
       /\ stream' = [at |-> "waiting", from |-> from]
       /\ socket' = "connecting"
       /\ UNCHANGED conn

\* The cleanup of the effect, which calls the unsubscribe of a subscribe that has
\* resolved: a timer is set when no callback of the key is left.
Cleanup ==
    IF stream.at = "kept"
    THEN /\ timers' = IF stream.from \in leaked THEN timers \ {stream.from} ELSE timers \cup {stream.from}
         /\ UNCHANGED leaked
    ELSE /\ leaked' = IF stream = NoStream THEN leaked ELSE leaked \cup {stream.from}
         /\ UNCHANGED timers

\* The connection of a key without callbacks has run ahead of what the effect
\* subscribes from: its events are missed.
JoinsLate == conn # NoConn /\ conn.from = WatchFrom /\ conn.pos > WatchFrom

\* The effect runs again: cleanup, then subscribe from the version of the list.
WatchEffect ==
    /\ WatchFrom # stream.from
    /\ Cleanup
    /\ \/ WatchFrom = 0 /\ stream' = NoStream /\ UNCHANGED <<socket, conn>>
       \/ WatchFrom # 0 /\ Subscribe(WatchFrom)
    /\ damaged' = (damaged \/ JoinsLate)
    /\ UNCHANGED <<server, cache, fetch, more, fetches, closes>>

\* Another hook of the page subscribes, which is what reopens a closed socket.
OthersSubscribe ==
    /\ socket = "closed"
    /\ socket' = "connecting"
    /\ UNCHANGED <<server, cache, fetch, more, stream, leaked, timers, conn, fetches, closes, damaged>>

\* The socket opens: resubscribeAll requests every active key, in some order, and
\* subscribes that were left behind go on.
SocketOpens ==
    /\ socket = "connecting"
    /\ socket' = "open"
    /\ RequestFor(HeardKeys \cup timers)
    /\ UNCHANGED <<server, cache, fetch, more, stream, leaked, timers, fetches, closes, damaged>>

\* subscribe resolves, at the open event or at a tick of the poller.
SubscribeResolves ==
    /\ stream.at = "waiting"
    /\ socket = "open"
    /\ stream' = [stream EXCEPT !.at = "kept"]
    /\ RequestFor({stream.from})
    /\ UNCHANGED <<server, cache, fetch, more, socket, leaked, timers, fetches, closes, damaged>>

\* subscribe is rejected: the list hook only logs it.
SubscribeRejected ==
    /\ stream.at = "waiting"
    /\ socket = "closed"
    /\ stream' = [stream EXCEPT !.at = "failed"]
    /\ UNCHANGED <<server, cache, fetch, more, socket, leaked, timers, conn, fetches, closes, damaged>>

SocketFails ==
    /\ socket = "connecting"
    /\ socket' = "closed"
    /\ UNCHANGED <<server, cache, fetch, more, stream, leaked, timers, conn, fetches, closes, damaged>>

\* The backend closes the connections of the socket.
SocketCloses ==
    /\ socket = "open"
    /\ closes < MaxCloses
    /\ closes' = closes + 1
    /\ socket' = "closed"
    /\ conn' = NoConn
    /\ UNCHANGED <<server, cache, fetch, more, stream, leaked, timers, fetches, damaged>>

\* The debounce timer: CLOSE, unless the key has a callback again.  It ends the
\* connection of the path, whatever key that is for.
Timeout(from) ==
    /\ from \in timers
    /\ timers' = timers \ {from}
    /\ conn' = IF from \in HeardKeys THEN conn ELSE NoConn
    /\ UNCHANGED <<server, cache, fetch, more, socket, stream, leaked, fetches, closes, damaged>>

\* The server ends a watch at its timeout, and nobody asks for it again.
WatchEnds ==
    /\ conn # NoConn
    /\ conn' = NoConn
    /\ UNCHANGED <<server, cache, fetch, more, socket, stream, leaked, timers, fetches, closes, damaged>>

\* The next message of the connection, and the connection after it.
NextEvent == IF conn.at = "expired" THEN ErrorEvent ELSE EventOf(conn.pos + 1)

Advanced == IF conn.at = "expired" THEN NoConn ELSE [conn EXCEPT !.pos = @ + 1]

MayDeliver == conn.at = "expired" \/ (conn.at = "live" /\ conn.pos < Now)

\* handleUpdate, for the callbacks of the key: none may be left.  It returns early
\* while nothing is cached; a second callback finds the event applied.
Message ==
    /\ MayDeliver
    /\ cache' = IF cache = NoList \/ ~Heard THEN cache ELSE Applied(cache, NextEvent)
    /\ damaged' = (damaged \/ (cache' # cache /\ (NextEvent = ErrorEvent \/ cache.cont # NoToken)))
    /\ conn' = Advanced
    /\ UNCHANGED <<server, fetch, more, socket, stream, leaked, timers, fetches, closes>>

Next ==
    \/ \E o \in Objs : Change(o)
    \/ Compact
    \/ StartFetch \/ AnswerFetch \/ FetchDone \/ FetchFails
    \/ LoadMore \/ AnswerMore \/ MoreDone \/ MoreGone \/ MoreFails
    \/ WatchEffect
    \/ OthersSubscribe \/ SocketOpens \/ SocketFails \/ SocketCloses
    \/ SubscribeResolves \/ SubscribeRejected
    \/ \E from \in Froms : Timeout(from)
    \/ WatchEnds
    \/ Message

(***************************************************************************)
(* React runs the effect of a change, subscribe resolves once the socket   *)
(* is open, timers fire and a connection delivers.  Nothing is assumed of  *)
(* requests, or of a socket that is closed.                                *)
(***************************************************************************)
Fairness ==
    /\ WF_vars(WatchEffect) /\ WF_vars(SubscribeResolves) /\ WF_vars(Message)
    /\ \A from \in Froms : WF_vars(Timeout(from))

Spec == Init /\ [][Next]_vars

FairSpec == Spec /\ Fairness

-----------------------------------------------------------------------------
(***************************************************************************)
(* The cached list is what the server held at the version it names: all of *)
(* it, or the pages up to the token.  Every object is in it once.  This    *)
(* holds although events are repeated after a reconnect and come for keys  *)
(* that were left behind; what breaks it are the races of Damage and of    *)
(* JoinsLate, a loadMore overtaken by a list request, an event for a list  *)
(* that has more pages, and an ERROR event.                                *)
(***************************************************************************)
ListIsASnapshot ==
    (cache # NoList /\ ~damaged) =>
        /\ Range(cache.items) = Objects(cache.rv, LastOf(cache))
        /\ IsInjective(cache.items)

(***************************************************************************)
(* A watch event never takes the list back: an object never gets an older  *)
(* version, and a deleted one does not return.  Messages are repeated by   *)
(* resubscribeAll; the version check of applyUpdate is there for them.     *)
(***************************************************************************)
EventsGoForward ==
    [][fetch' = fetch /\ more' = more /\ ~damaged =>
          \A i \in DOMAIN cache'.items :
             LET item == cache'.items[i]
             IN  item \in Range(cache.items) \/ item.ver > cache.rv]_vars

(***************************************************************************)
(* Two promises the code does not keep; no run checks them.                *)
(***************************************************************************)

(***************************************************************************)
(* useKubeObjectList "watches for changes from the clusters given": when   *)
(* the socket stays open, and the list is complete and was not damaged, it *)
(* ends as what the server holds.  It fails with the first event: the      *)
(* effect runs again, the backend has a connection for the path and does   *)
(* not serve the new key, and the CLOSE of the old key ends it.            *)
(***************************************************************************)
Watched == socket = "open" /\ cache # NoList /\ cache.cont = NoToken /\ ~damaged

CaughtUp == Range(cache.items) = Objects(Now, NumObjs)

WatchedListCatchesUp == <>[]Watched => <>[]CaughtUp

(***************************************************************************)
(* "Always use the latest resource version from the server": the effect    *)
(* never subscribes without a version.  An ERROR event takes it away.      *)
(***************************************************************************)
WatchHasAVersion == stream.from # Undef

=============================================================================
