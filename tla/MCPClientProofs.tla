--------------------------- MODULE MCPClientProofs ---------------------------
(***************************************************************************)
(* Proofs about MCPClient, for any uses, clusters, settings and number of  *)
(* mutations.                                                              *)
(*                                                                         *)
(* The invariant has a part that always holds (Sound) and a part that      *)
(* holds until a reset races with a start (Calm).  A step of the mutation  *)
(* that runs has one of four outcomes, whatever the mutation: it returns,  *)
(* it waits for a start, it closes the client, or it clears the fields and *)
(* perhaps starts a new client.  Each outcome preserves the invariant by a *)
(* lemma of its own.                                                       *)
(***************************************************************************)
EXTENDS MCPClient, SequenceTheorems, FiniteSetTheorems, TLAPS

At == {"queued", "await", "closing", "restart"}

Shown == Clusters \cup {NoCluster}

\* A mutation in the queue, with any number for the client it waits for.
Entry == [req : Requests, at : At, on : Nat, old : Shown]

\* The mutation that runs has come to at.
Holds(at) == queue # <<>> /\ Running.at = at

\* The uses that count for the bound on clients.
Asking == {u \in Uses : use[u].at # "idle"}

Extra == IF Holds("restart") THEN 1 ELSE 0

(***************************************************************************)
(* The types, but with any number for a client.                            *)
(***************************************************************************)
Shape ==
    /\ initialized \in BOOLEAN /\ isInitialized \in BOOLEAN /\ raced \in BOOLEAN
    /\ clusters \in Shown /\ settings \in Settings
    /\ dialogs \subseteq Dialogs
    /\ mutations \in 0 .. MaxMutations
    /\ instance \in Seq(Instance)
    /\ queue \in Seq(Entry)
    /\ use \in [Uses -> [at : {"idle", "waiting", "answered"}, on : Nat]]

\* Only the first mutation has begun; what it refers to exists, and it closes
\* only a client that has been started.
QueueInv ==
    /\ \A j \in DOMAIN queue :
          /\ queue[j].on <= Len(instance)
          /\ j # 1 => queue[j].at = "queued"
          /\ queue[j].at # "queued" => queue[j].on # 0
    /\ Holds("closing") => ~Starting(Running.on)
    /\ Holds("await") => Running.req.kind # "reset"

\* The fields refer to a client that has started and to one that is starting.
FieldInv ==
    /\ client \in 0 .. Len(instance) /\ initializationPromise \in 0 .. Len(instance)
    /\ client # 0 => isInitialized /\ ~Starting(client)
    /\ initializationPromise # 0 => Starting(initializationPromise)
    /\ \A u \in Uses : use[u].on <= Len(instance)

\* Every use and every mutation starts at most one client: a mutation that is
\* still in the queue has not started its own, unless it waits for it.
CountInv ==
    Len(instance) + Len(queue) <= mutations + Cardinality(Asking) + Extra

Sound == Shape /\ QueueInv /\ FieldInv /\ CountInv

-----------------------------------------------------------------------------
Alive(i) == instance[i].status \in {"starting", "up"}

Current(i) ==
    /\ instance[i].settings = settings
    /\ settings \in Dependent => instance[i].cluster = clusters

\* A client that starts is the one that initializationPromise stands for.
OneStart == \A i \in DOMAIN instance : Starting(i) => initializationPromise = i

\* While a mutation waits, nobody but the client it waits for is in the fields.
WaitInv ==
    /\ Holds("closing") => client = Running.on /\ initializationPromise = 0
    /\ Holds("await") \/ Holds("restart") =>
          client \in {0, Running.on} /\ initializationPromise \in {0, Running.on}

\* The client in the fields is current, unless a mutation is about to replace it.
CurrentInv ==
    \A i \in {client, initializationPromise} \ {0} : Alive(i) =>
        \/ Holds("closing")
        \/ /\ Holds("await") /\ Running.req.kind = "clusters"
           /\ instance[i].settings = settings
        \/ Current(i)

\* After the cleanup has begun the fields are empty, or it will empty them.
CleanInv ==
    \/ initialized
    \/ client = 0 /\ initializationPromise = 0
    \/ (Holds("await") \/ Holds("closing")) /\ Running.req.kind = "cleanup"

Calm ==
    /\ OneStart /\ NoOrphan
    /\ initializationPromise # 0 => client = 0
    /\ WaitInv /\ CurrentInv /\ CleanInv

IInv == Sound /\ (~raced => Calm)

-----------------------------------------------------------------------------
(***************************************************************************)
(* How the clients may change: none is forgotten, and a client that has    *)
(* started does not start again.                                           *)
(***************************************************************************)
Grows ==
    /\ instance' \in Seq(Instance)
    /\ Len(instance) <= Len(instance')
    /\ \A i \in 1 .. Len(instance) : Starting(i)' => Starting(i)

\* What a step of the mutation that runs leaves alone, and the types of the rest.
Aside ==
    /\ initialized' \in BOOLEAN /\ raced' \in BOOLEAN
    /\ clusters' \in Shown /\ settings' \in Settings
    /\ UNCHANGED <<dialogs, use, mutations>>

(***************************************************************************)
(* The mutation that runs, its types, and the length of the sequences.     *)
(***************************************************************************)
LEMMA RunningType ==
    ASSUME Sound
    PROVE  /\ Len(queue) \in Nat /\ Len(instance) \in Nat
           /\ DOMAIN queue = 1 .. Len(queue) /\ DOMAIN instance = 1 .. Len(instance)
           /\ queue # <<>> =>
                /\ 1 \in DOMAIN queue /\ Len(queue) >= 1
                /\ Running \in Entry
                /\ Running.on <= Len(instance)
                /\ Running.at # "queued" => Running.on \in 1 .. Len(instance)
           /\ \A i \in 1 .. Len(instance) : instance[i] \in Instance
           /\ \A j \in 1 .. Len(queue) : queue[j] \in Entry
<1>1. /\ Len(queue) \in Nat /\ Len(instance) \in Nat
      /\ DOMAIN queue = 1 .. Len(queue) /\ DOMAIN instance = 1 .. Len(instance)
      /\ \A i \in 1 .. Len(instance) : instance[i] \in Instance
      /\ \A j \in 1 .. Len(queue) : queue[j] \in Entry
  BY LenProperties, ElementOfSeq DEF Sound, Shape
<1>2. ASSUME queue # <<>> PROVE 1 \in DOMAIN queue /\ Len(queue) >= 1
  BY <1>1, <1>2, EmptySeq DEF Sound, Shape
<1> QED BY <1>1, <1>2 DEF Sound, QueueInv, Running, Entry

(***************************************************************************)
(* The number of uses that ask is a number, and bounded.                   *)
(***************************************************************************)
LEMMA AskingBound ==
    /\ IsFiniteSet(Asking) /\ Cardinality(Asking) \in Nat
    /\ Cardinality(Uses) \in Nat /\ Cardinality(Asking) <= Cardinality(Uses)
<1>1. Asking \in SUBSET Uses
  BY DEF Asking
<1> QED BY <1>1, BoundAssumption, FS_Subset, FS_CardinalityType

\* The same after a step.
LEMMA AskingBoundNext == (Cardinality(Asking) \in Nat)'
<1> DEFINE P == Cardinality(Asking) \in Nat
<1>1. P
  BY AskingBound
<1>2. P'
  BY <1>1, PTL
<1> QED BY <1>2

(***************************************************************************)
(* The mutation that runs is taken off the queue: the next one has not     *)
(* begun.                                                                  *)
(***************************************************************************)
LEMMA QueueEnds ==
    ASSUME Sound, Grows, queue # <<>>, queue' = Tail(queue)
    PROVE  /\ queue' \in Seq(Entry)
           /\ QueueInv' /\ Len(queue') = Len(queue) - 1
           /\ \A at \in At \ {"queued"} : ~Holds(at)'
<1>1. /\ queue' \in Seq(Entry)
      /\ Len(queue') = Len(queue) - 1
      /\ \A j \in 1 .. Len(queue') : queue'[j] = queue[j + 1]
  BY HeadTailProperties DEF Sound, Shape
<1>2. /\ Len(queue') \in Nat /\ DOMAIN queue' = 1 .. Len(queue')
      /\ Len(instance') \in Nat
      /\ queue' # <<>> => 1 \in DOMAIN queue'
  BY <1>1, LenProperties, EmptySeq DEF Grows
<1>3. \A j \in DOMAIN queue' : /\ queue'[j].on \in Nat
                               /\ queue'[j].on <= Len(instance') /\ queue'[j].at = "queued"
  <2> SUFFICES ASSUME NEW j \in DOMAIN queue'
               PROVE  /\ queue'[j].on \in Nat
                      /\ queue'[j].on <= Len(instance') /\ queue'[j].at = "queued"
    OBVIOUS
  <2>1. queue'[j] = queue[j + 1] /\ j + 1 \in DOMAIN queue /\ j + 1 # 1
    BY <1>1, <1>2, RunningType
  <2>2. queue[j + 1].on \in Nat /\ queue[j + 1].on <= Len(instance) /\ queue[j + 1].at = "queued"
    BY <2>1, RunningType DEF Sound, QueueInv, Entry
  <2> QED BY <1>2, <2>1, <2>2, RunningType DEF Grows
<1>4. \A at \in At \ {"queued"} : ~Holds(at)'
  BY <1>2, <1>3 DEF Holds, Running, At
<1> QED BY <1>1, <1>2, <1>3, <1>4 DEF QueueInv, At

(***************************************************************************)
(* The mutation that runs goes on to at and waits for the client on.       *)
(***************************************************************************)
LEMMA QueueGoes ==
    ASSUME Sound, Grows, queue # <<>>,
           NEW at \in At \ {"queued"}, NEW on \in 1 .. Len(instance'), Goes(at, on),
           at = "closing" => ~Starting(on)',
           at = "await" => Running.req.kind # "reset"
    PROVE  /\ queue' \in Seq(Entry)
           /\ QueueInv' /\ Len(queue') = Len(queue)
           /\ queue' # <<>> /\ Running'.req = Running.req
           /\ Running'.at = at /\ Running'.on = on
<1> DEFINE r == [req |-> Running.req, at |-> at, on |-> on,
                 old |-> IF Running.at = "queued" THEN clusters ELSE Running.old]
<1>1. queue' = [queue EXCEPT ![1] = r]
  BY DEF Goes, Running
<1>2. Len(instance') \in Nat
  BY LenProperties DEF Grows
<1>3. r \in Entry /\ queue \in Seq(Entry) /\ 1 \in 1 .. Len(queue)
  BY <1>2, RunningType DEF Sound, Shape, Entry
<1>4. /\ queue' \in Seq(Entry) /\ Len(queue') = Len(queue)
      /\ \A j \in 1 .. Len(queue) : queue'[j] = IF j = 1 THEN r ELSE queue[j]
  BY <1>1, <1>3, ExceptSeq
<1>5. DOMAIN queue' = 1 .. Len(queue') /\ queue' # <<>>
  BY <1>3, <1>4, LenProperties, EmptySeq
<1>6. queue'[1] = r
  BY <1>3, <1>4
<1>7. \A j \in DOMAIN queue' :
          /\ queue'[j].on <= Len(instance')
          /\ j # 1 => queue'[j].at = "queued"
          /\ queue'[j].at # "queued" => queue'[j].on # 0
  <2> SUFFICES ASSUME NEW j \in DOMAIN queue'
               PROVE  /\ queue'[j].on <= Len(instance')
                      /\ j # 1 => queue'[j].at = "queued"
                      /\ queue'[j].at # "queued" => queue'[j].on # 0
    OBVIOUS
  <2>1. CASE j = 1
    BY <1>2, <1>6, <2>1
  <2>2. CASE j # 1
    <3>1. queue'[j] = queue[j] /\ j \in DOMAIN queue /\ queue[j] \in Entry
      BY <1>3, <1>4, <1>5, <2>2, RunningType, ElementOfSeq
    <3> QED BY <1>2, <2>2, <3>1, RunningType DEF Sound, QueueInv, Grows, Entry
  <2> QED BY <2>1, <2>2
<1> QED BY <1>4, <1>5, <1>6, <1>7 DEF QueueInv, Holds, Running

(***************************************************************************)
(* A mutation is added at the end: the one that runs is the same.          *)
(***************************************************************************)
LEMMA QueueAdds ==
    ASSUME Sound, NEW req \in Requests, Enqueue(req), instance' = instance
    PROVE  /\ queue' \in Seq(Entry)
           /\ QueueInv' /\ Len(queue') = Len(queue) + 1
           /\ \A at \in At \ {"queued"} : Holds(at)' <=> Holds(at)
           /\ queue # <<>> => Running' = Running
<1> DEFINE r == [req |-> req, at |-> "queued", on |-> 0, old |-> clusters]
<1>1. queue' = Append(queue, r) /\ r \in Entry /\ queue \in Seq(Entry)
  BY DEF Enqueue, Sound, Shape, At, Entry
<1>2. /\ queue' \in Seq(Entry) /\ Len(queue') = Len(queue) + 1
      /\ \A j \in 1 .. Len(queue) : queue'[j] = queue[j]
      /\ queue'[Len(queue) + 1] = r
  BY <1>1, AppendProperties
<1>3. /\ DOMAIN queue' = 1 .. Len(queue) + 1 /\ queue' # <<>>
      /\ queue = <<>> => Len(queue) = 0
  BY <1>2, LenProperties, EmptySeq, RunningType
<1>4. /\ queue # <<>> => queue'[1] = queue[1]
      /\ queue = <<>> => queue'[1] = r
  BY <1>2, <1>3, RunningType
<1>5. \A at \in At \ {"queued"} : Holds(at)' <=> Holds(at)
  BY <1>3, <1>4 DEF Holds, Running
<1>6. \A j \in DOMAIN queue' :
          /\ queue'[j].on <= Len(instance')
          /\ j # 1 => queue'[j].at = "queued"
          /\ queue'[j].at # "queued" => queue'[j].on # 0
  <2> SUFFICES ASSUME NEW j \in DOMAIN queue'
               PROVE  /\ queue'[j].on <= Len(instance')
                      /\ j # 1 => queue'[j].at = "queued"
                      /\ queue'[j].at # "queued" => queue'[j].on # 0
    OBVIOUS
  <2>1. CASE j = Len(queue) + 1
    BY <1>2, <2>1, RunningType
  <2>2. CASE j # Len(queue) + 1
    BY <1>2, <1>3, <2>2, RunningType DEF Sound, QueueInv
  <2> QED BY <2>1, <2>2
<1>7. queue # <<>> => Running' = Running
  BY <1>4 DEF Running
<1>8. /\ Holds("closing")' => ~Starting(Running.on)'
      /\ Holds("await")' => Running'.req.kind # "reset"
  <2>1. ASSUME Holds("closing")' PROVE ~Starting(Running.on)'
    BY <1>5, <1>7, <2>1 DEF At, Holds, Sound, QueueInv, Starting
  <2>2. ASSUME Holds("await")' PROVE Running'.req.kind # "reset"
    BY <1>5, <1>7, <2>2 DEF At, Holds, Sound, QueueInv
  <2> QED BY <2>1, <2>2
<1> QED BY <1>1, <1>2, <1>5, <1>6, <1>7, <1>8 DEF QueueInv

-----------------------------------------------------------------------------
(***************************************************************************)
(* Sound after each outcome of a step of the mutation that runs.           *)
(***************************************************************************)

\* What is left to show once the queue is known.
LEMMA SoundAgain ==
    ASSUME Sound, Aside, Grows, isInitialized' \in BOOLEAN,
           queue' \in Seq(Entry), QueueInv',
           client' \in 0 .. Len(instance'), initializationPromise' \in 0 .. Len(instance'),
           client' # 0 => isInitialized' /\ ~Starting(client)',
           initializationPromise' # 0 => Starting(initializationPromise)',
           Len(instance') + Len(queue') <= Len(instance) + Len(queue) - Extra + Extra'
    PROVE  Sound'
<1>1. Shape'
  BY DEF Sound, Shape, Aside, Grows
<1>2. Len(instance') \in Nat /\ Len(queue') \in Nat
  BY LenProperties DEF Grows
<1>3. FieldInv'
  <2>1. \A u \in Uses : use'[u].on <= Len(instance')
    BY <1>2, RunningType DEF Sound, Shape, FieldInv, Aside, Grows
  <2> QED BY <2>1 DEF FieldInv
<1>4. CountInv'
  <2>1. Cardinality(Asking)' = Cardinality(Asking) /\ mutations' = mutations
    BY DEF Aside, Asking
  <2>2. Extra \in {0, 1} /\ Extra' \in {0, 1}
    BY DEF Extra
  <2>3. Len(instance) + Len(queue) <= mutations + Cardinality(Asking) + Extra
    BY DEF Sound, CountInv
  <2>4. mutations \in Nat
    BY BoundAssumption DEF Sound, Shape
  <2>5. Len(instance) \in Nat /\ Len(queue) \in Nat /\ Cardinality(Asking) \in Nat
    BY RunningType, AskingBound
  <2> HIDE DEF Extra
  <2>6. Len(instance') + Len(queue') <= mutations + Cardinality(Asking) + Extra'
    BY <1>2, <2>2, <2>3, <2>4, <2>5
  <2> QED BY <2>1, <2>6 DEF CountInv
<1> QED BY <1>1, <1>3, <1>4 DEF Sound

\* It returns, or it throws.
LEMMA SoundReturns ==
    ASSUME Sound, Aside, queue # <<>>, NEW threw, Returns(threw)
    PROVE  Sound'
<1>1. /\ queue' = Tail(queue) /\ instance' = instance /\ client' = client
      /\ isInitialized' = isInitialized /\ initializationPromise' = initializationPromise
  BY DEF Returns, Ends
<1>2. Grows
  BY <1>1, RunningType DEF Grows, Sound, Shape, Starting
<1>3. /\ queue' \in Seq(Entry) /\ QueueInv' /\ Len(queue') = Len(queue) - 1
      /\ \A at \in At \ {"queued"} : ~Holds(at)'
  BY <1>1, <1>2, QueueEnds
<1>4. Extra' = 0 /\ Extra \in {0, 1}
  BY <1>3 DEF Extra, At
<1>5. Starting(client)' = Starting(client)
      /\ Starting(initializationPromise)' = Starting(initializationPromise)
  BY <1>1 DEF Starting
<1> QED
  BY <1>1, <1>2, <1>3, <1>4, <1>5, RunningType, SoundAgain DEF Sound, Shape, FieldInv

\* It waits for the start or the close of a client, and the fields stay.
LEMMA SoundGoes ==
    ASSUME Sound, Aside, queue # <<>>, ~Holds("restart"),
           NEW at \in {"await", "closing"}, NEW on \in 1 .. Len(instance), Goes(at, on),
           at = "closing" => ~Starting(on),
           at = "await" => Running.req.kind # "reset",
           UNCHANGED <<client, isInitialized, initializationPromise, instance>>
    PROVE  Sound'
<1>1. Grows
  BY RunningType DEF Grows, Sound, Shape, Starting
<1>2. /\ queue' \in Seq(Entry) /\ QueueInv' /\ Len(queue') = Len(queue)
      /\ queue' # <<>> /\ Running'.at = at
  BY <1>1, QueueGoes DEF At, Starting
<1>3. Extra' = 0 /\ Extra = 0
  BY <1>2 DEF Extra, Holds
<1>4. Starting(client)' = Starting(client)
      /\ Starting(initializationPromise)' = Starting(initializationPromise)
  BY DEF Starting
<1> QED
  BY <1>1, <1>2, <1>3, <1>4, RunningType, SoundAgain DEF Sound, Shape, FieldInv

\* It closes the client.
LEMMA SoundCloses ==
    ASSUME Sound, Aside, queue # <<>>, ~Holds("restart"), client # 0, Closing
    PROVE  Sound'
<1>1. client \in 1 .. Len(instance) /\ ~Starting(client)
  BY RunningType DEF Sound, FieldInv
<1> QED BY <1>1, SoundGoes DEF Closing

\* A client is added to those made so far.
LEMMA StartedType ==
    ASSUME NEW made \in Seq(Instance), NEW s \in Settings, NEW c \in Shown
    PROVE  /\ Started(made, s, c) \in Seq(Instance)
           /\ Len(Started(made, s, c)) = Len(made) + 1
           /\ \A i \in 1 .. Len(made) : Started(made, s, c)[i] = made[i]
           /\ Started(made, s, c)[Len(made) + 1] =
                [status |-> "starting", settings |-> s, cluster |-> c]
<1>1. [status |-> "starting", settings |-> s, cluster |-> c] \in Instance
  BY DEF Instance, Shown
<1> QED BY <1>1, AppendProperties DEF Started

\* It clears the fields; made is what has become of the clients by then.
LEMMA SoundClears ==
    ASSUME Sound, Aside, queue # <<>>, ~Holds("restart"),
           NEW again \in BOOLEAN, NEW made \in Seq(Instance), Len(made) = Len(instance),
           \A i \in 1 .. Len(instance) : made[i].status = "starting" => Starting(i),
           ClearedAnd(again, made)
    PROVE  Sound'
<1>1. client' = 0 /\ isInitialized' \in BOOLEAN
  BY DEF ClearedAnd
<1>2. CASE again /\ ~NothingToStart(settings')
  <2>1. /\ instance' = Started(made, settings', clusters')
        /\ initializationPromise' = Len(instance) + 1
        /\ Goes("restart", Len(instance) + 1)
    BY <1>2 DEF ClearedAnd, Fresh
  <2>2. /\ instance' \in Seq(Instance) /\ Len(instance') = Len(instance) + 1
        /\ \A i \in 1 .. Len(instance) : instance'[i] = made[i]
        /\ instance'[Len(instance) + 1].status = "starting"
    <3>1. settings' \in Settings /\ clusters' \in Shown
      BY DEF Aside
    <3>2. /\ instance' \in Seq(Instance) /\ Len(instance') = Len(made) + 1
          /\ \A i \in 1 .. Len(made) : instance'[i] = made[i]
          /\ instance'[Len(made) + 1] =
                [status |-> "starting", settings |-> settings', cluster |-> clusters']
      BY <2>1, <3>1, StartedType
    <3> QED BY <3>2
  <2>3. Grows
    BY <2>2, RunningType DEF Grows, Starting
  <2>4. /\ queue' \in Seq(Entry) /\ QueueInv' /\ Len(queue') = Len(queue)
        /\ queue' # <<>> /\ Running'.at = "restart"
    BY <2>1, <2>2, <2>3, RunningType, QueueGoes DEF At
  <2>5. Extra = 0 /\ Extra' = 1
    BY <2>4 DEF Extra, Holds
  <2>6. Starting(initializationPromise)'
    BY <2>1, <2>2 DEF Starting
  <2> QED BY <1>1, <2>1, <2>2, <2>3, <2>4, <2>5, <2>6, RunningType, SoundAgain
<1>3. CASE ~(again /\ ~NothingToStart(settings'))
  <2>1. instance' = made /\ initializationPromise' = 0 /\ queue' = Tail(queue)
    BY <1>3 DEF ClearedAnd, Ends
  <2>2. Grows
    BY <2>1, RunningType DEF Grows, Starting
  <2>3. /\ queue' \in Seq(Entry) /\ QueueInv' /\ Len(queue') = Len(queue) - 1
        /\ \A at \in At \ {"queued"} : ~Holds(at)'
    BY <2>1, <2>2, QueueEnds
  <2>4. Extra = 0 /\ Extra' = 0
    BY <2>3 DEF Extra, At
  <2> QED BY <1>1, <2>1, <2>2, <2>3, <2>4, RunningType, SoundAgain
<1> QED BY <1>2, <1>3

-----------------------------------------------------------------------------
(***************************************************************************)
(* Calm after each outcome.                                                *)
(***************************************************************************)
Dead(made) == \A i \in DOMAIN made : made[i].status \notin {"starting", "up"}

\* With empty fields no client runs or starts.
LEMMA NothingAlive ==
    ASSUME Sound, Calm, client = 0, initializationPromise = 0
    PROVE  Dead(instance)
<1> SUFFICES ASSUME NEW i \in DOMAIN instance, Alive(i) PROVE FALSE
  BY DEF Dead, Alive
<1>1. i # 0
  BY RunningType
<1> QED BY <1>1 DEF Calm, OneStart, NoOrphan, Alive, Starting

\* It returns: what is left in the fields must be current.
LEMMA CalmReturns ==
    ASSUME Sound, Calm, queue # <<>>, NEW threw, Returns(threw),
           \A i \in {client, initializationPromise} \ {0} : Alive(i) => Current(i)',
           initialized' \/ (client = 0 /\ initializationPromise = 0)
    PROVE  Calm'
<1>1. /\ queue' = Tail(queue) /\ instance' = instance /\ client' = client
      /\ initializationPromise' = initializationPromise
  BY DEF Returns, Ends
<1>2. Grows
  BY <1>1, RunningType DEF Grows, Sound, Shape, Starting
<1>3. ~Holds("await")' /\ ~Holds("closing")' /\ ~Holds("restart")'
  BY <1>1, <1>2, QueueEnds DEF At
<1>4. OneStart' /\ NoOrphan' /\ (initializationPromise' # 0 => client' = 0)
  BY <1>1 DEF Calm, OneStart, NoOrphan, Starting
<1>5. CurrentInv'
  BY <1>1 DEF CurrentInv, Alive
<1>6. CleanInv' /\ WaitInv'
  BY <1>1, <1>3 DEF CleanInv, WaitInv
<1> QED BY <1>4, <1>5, <1>6 DEF Calm

\* It waits for a start in progress.
LEMMA CalmAwaits ==
    ASSUME Sound, Calm, Holds("queued"), initializationPromise # 0,
           Goes("await", initializationPromise), Running.req.kind # "reset",
           UNCHANGED <<client, isInitialized, initializationPromise, instance>>,
           settings' = settings,
           Running.req.kind = "clusters" \/ clusters' = clusters,
           initialized' \/ Running.req.kind = "cleanup"
    PROVE  Calm'
<1>1. /\ initializationPromise \in 1 .. Len(instance) /\ queue # <<>>
      /\ ~Holds("await") /\ ~Holds("closing") /\ client = 0
  BY RunningType DEF Sound, FieldInv, Holds, Calm
<1>2. Grows
  BY RunningType DEF Grows, Sound, Shape, Starting
<1>3. /\ queue' # <<>> /\ Running'.req = Running.req /\ Running'.at = "await"
      /\ Running'.on = initializationPromise
  BY <1>1, <1>2, QueueGoes DEF At
<1>4. OneStart' /\ NoOrphan' /\ (initializationPromise' # 0 => client' = 0)
  BY DEF Calm, OneStart, NoOrphan, Starting
<1>5. Holds("await")' /\ ~Holds("closing")' /\ ~Holds("restart")'
  BY <1>3 DEF Holds
<1>6. WaitInv' /\ CleanInv'
  BY <1>1, <1>3, <1>5 DEF WaitInv, CleanInv
<1>7. CurrentInv'
  <2> SUFFICES ASSUME Alive(initializationPromise)
               PROVE  \/ /\ Running.req.kind = "clusters"
                         /\ instance[initializationPromise].settings = settings
                      \/ Current(initializationPromise)'
    BY <1>1, <1>3, <1>5 DEF CurrentInv, Alive
  <2>1. Current(initializationPromise)
    BY <1>1 DEF Calm, CurrentInv
  <2> QED BY <2>1 DEF Current
<1> QED BY <1>4, <1>6, <1>7 DEF Calm

\* It closes the client.
LEMMA CalmCloses ==
    ASSUME Sound, Calm, queue # <<>>, client # 0, initializationPromise = 0, Closing,
           initialized' \/ Running.req.kind = "cleanup"
    PROVE  Calm'
<1>1. client \in 1 .. Len(instance) /\ ~Starting(client)
  BY RunningType DEF Sound, FieldInv
<1>2. Grows
  BY RunningType DEF Grows, Sound, Shape, Starting, Closing
<1>3. /\ Goes("closing", client) /\ ~Starting(client)'
      /\ UNCHANGED <<client, initializationPromise, instance>>
  BY <1>1 DEF Closing, Starting
<1>4. /\ queue' # <<>> /\ Running'.req = Running.req /\ Running'.at = "closing"
      /\ Running'.on = client
  BY <1>1, <1>2, <1>3, QueueGoes DEF At
<1>5. OneStart' /\ NoOrphan' /\ (initializationPromise' # 0 => client' = 0)
  BY <1>3 DEF Calm, OneStart, NoOrphan, Starting
<1>6. Holds("closing")' /\ ~Holds("await")' /\ ~Holds("restart")'
  BY <1>4 DEF Holds
<1>7. WaitInv' /\ CleanInv' /\ CurrentInv'
  BY <1>3, <1>4, <1>6 DEF WaitInv, CleanInv, CurrentInv
<1> QED BY <1>5, <1>7 DEF Calm

\* It clears the fields: nothing else may be left, and nothing is started
\* after the cleanup.
LEMMA CalmClears ==
    ASSUME Sound, Aside, queue # <<>>,
           NEW again \in BOOLEAN, NEW made \in Seq(Instance), Len(made) = Len(instance),
           Dead(made), ClearedAnd(again, made), initialized' \/ ~again
    PROVE  Calm'
<1>1. client' = 0 /\ DOMAIN made = 1 .. Len(instance) /\ Len(instance) \in Nat
  BY LenProperties DEF ClearedAnd
<1>2. CASE again /\ ~NothingToStart(settings')
  <2> DEFINE n == Len(instance) + 1
  <2>1. /\ instance' = Started(made, settings', clusters')
        /\ initializationPromise' = n /\ Goes("restart", n)
    BY <1>2 DEF ClearedAnd, Fresh
  <2>2. settings' \in Settings /\ clusters' \in Shown
    BY DEF Aside
  <2>3. /\ instance' \in Seq(Instance) /\ Len(instance') = n
        /\ \A i \in 1 .. Len(instance) : instance'[i] = made[i]
        /\ instance'[n] = [status |-> "starting", settings |-> settings', cluster |-> clusters']
    BY <2>1, <2>2, StartedType
  <2>4. DOMAIN instance' = 1 .. n
    BY <2>3, LenProperties
  <2>5. \A i \in 1 .. n : i # n => instance'[i].status \notin {"starting", "up"}
    BY <1>1, <2>3 DEF Dead
  <2>6. Grows
    BY <1>1, <2>3, <2>5 DEF Grows, Starting
  <2>7. queue' # <<>> /\ Running'.at = "restart" /\ Running'.on = n
    BY <1>1, <2>1, <2>3, <2>6, QueueGoes DEF At
  <2>8. OneStart' /\ NoOrphan'
    BY <2>1, <2>3, <2>4, <2>5 DEF OneStart, NoOrphan, Starting
  <2>9. WaitInv'
    BY <1>1, <2>1, <2>7 DEF WaitInv, Holds
  <2>10. CurrentInv'
    BY <1>1, <2>1, <2>3 DEF CurrentInv, Current
  <2>11. CleanInv'
    BY <1>2 DEF CleanInv
  <2> QED BY <1>1, <2>8, <2>9, <2>10, <2>11 DEF Calm
<1>3. CASE ~(again /\ ~NothingToStart(settings'))
  <2>1. instance' = made /\ initializationPromise' = 0 /\ queue' = Tail(queue)
    BY <1>3 DEF ClearedAnd, Ends
  <2>2. Grows
    BY <1>1, <2>1 DEF Grows, Starting, Dead
  <2>3. ~Holds("await")' /\ ~Holds("closing")' /\ ~Holds("restart")'
    BY <2>1, <2>2, QueueEnds DEF At
  <2>4. OneStart' /\ NoOrphan'
    BY <2>1 DEF Dead, OneStart, NoOrphan, Starting
  <2> QED BY <1>1, <2>1, <2>3, <2>4 DEF Calm, WaitInv, CurrentInv, CleanInv
<1> QED BY <1>2, <1>3

-----------------------------------------------------------------------------
(***************************************************************************)
(* The steps of the mutation that runs.                                    *)
(***************************************************************************)

\* The arguments of the requests.
LEMMA RequestArgs ==
    \A r \in Requests :
        /\ r.kind \in {"reset", "update", "clusters", "cleanup"}
        /\ r.kind = "clusters" => r.arg \in Shown
        /\ r.kind = "update" => r.arg \in Settings
BY DEF Requests, Dialogs, Shown

\* Once its start has settled, no start is in progress, and no other client is
\* in the fields.
LEMMA Settled ==
    ASSUME Sound, Calm, Holds("await") \/ Holds("restart"), ~Starting(Running.on)
    PROVE  initializationPromise = 0 /\ client \in {0, Running.on}
BY DEF Sound, FieldInv, Calm, WaitInv

\* A change of the clusters closes a client that depends on them.
LEMMA ClustersRestarts ==
    ASSUME IInv, Aside, queue # <<>>, ~Holds("restart"),
           UNCHANGED <<initialized, settings, raced>>, ClustersRestart,
           ~raced => /\ initializationPromise = 0
                     /\ client # 0 => initialized
                     /\ client # 0 /\ Alive(client) => instance[client].settings = settings
    PROVE  IInv'
<1>1. CASE client # 0 /\ settings \in Dependent
  <2>1. Closing
    BY <1>1 DEF ClustersRestart
  <2>2. Sound'
    BY <1>1, <2>1, SoundCloses DEF IInv
  <2>3. ~raced => Calm'
    BY <1>1, <2>1, CalmCloses DEF IInv
  <2> QED BY <2>2, <2>3 DEF IInv
<1>2. CASE ~(client # 0 /\ settings \in Dependent)
  <2>1. Returns(FALSE)
    BY <1>2 DEF ClustersRestart
  <2>2. Sound'
    BY <2>1, SoundReturns DEF IInv
  <2>3. ASSUME ~raced PROVE Calm'
    <3>1. \A i \in {client, initializationPromise} \ {0} : Alive(i) => Current(i)'
      BY <1>2, <2>1, <2>3 DEF Current, Returns
    <3>2. initialized' \/ (client = 0 /\ initializationPromise = 0)
      BY <2>3
    <3> QED BY <2>1, <2>3, <3>1, <3>2, CalmReturns DEF IInv
  <2> QED BY <2>2, <2>3 DEF IInv
<1> QED BY <1>1, <1>2

\* The client is closed if there is one, and the fields are cleared if not: the
\* cleanup, an update once the settings are saved, and a reset.
LEMMA ClosesOrClears ==
    ASSUME Sound, Aside, queue # <<>>, ~Holds("restart"), NEW again \in BOOLEAN,
           IF client # 0 THEN Closing ELSE ClearedAnd(again, instance),
           ~raced' => /\ Calm /\ initializationPromise = 0
                      /\ client # 0 => initialized' \/ Running.req.kind = "cleanup"
                      /\ client = 0 => initialized' \/ ~again
    PROVE  IInv'
<1>1. CASE client # 0
  <2>1. Sound'
    BY <1>1, SoundCloses
  <2>2. ~raced' => Calm'
    BY <1>1, CalmCloses
  <2> QED BY <2>1, <2>2 DEF IInv
<1>2. CASE client = 0
  <2>1. /\ instance \in Seq(Instance) /\ ClearedAnd(again, instance)
        /\ \A i \in 1 .. Len(instance) : instance[i].status = "starting" => Starting(i)
    BY <1>2 DEF Sound, Shape, Starting
  <2>2. Sound'
    BY <2>1, SoundClears
  <2>3. ASSUME ~raced' PROVE Calm'
    <3>1. Dead(instance)
      BY <1>2, <2>3, NothingAlive
    <3> QED BY <1>2, <2>1, <2>3, <3>1, CalmClears
  <2> QED BY <2>2, <2>3 DEF IInv
<1> QED BY <1>1, <1>2

\* A mutation begins.
LEMMA BeginStep ==
    ASSUME IInv, Begin
    PROVE  IInv'
<1>1. /\ Sound /\ Holds("queued") /\ queue # <<>> /\ UNCHANGED <<dialogs, use, mutations>>
      /\ ~Holds("restart") /\ ~Holds("await") /\ ~Holds("closing")
  BY DEF IInv, Begin, Holds
<1>2. /\ clusters \in Shown /\ settings \in Settings
      /\ initialized \in BOOLEAN /\ raced \in BOOLEAN
      /\ Running.req \in Requests
  BY <1>1, RunningType DEF Sound, Shape, Entry
<1>3. ~raced => /\ Calm
                /\ \A i \in {client, initializationPromise} \ {0} : Alive(i) => Current(i)
                /\ initialized \/ (client = 0 /\ initializationPromise = 0)
  BY <1>1 DEF IInv, Calm, CurrentInv, CleanInv
<1>4. ASSUME initializationPromise # 0, Goes("await", initializationPromise), Aside,
             Running.req.kind # "reset", UNCHANGED <<settings, raced>>,
             UNCHANGED <<client, isInitialized, initializationPromise, instance>>,
             Running.req.kind = "clusters" \/ clusters' = clusters,
             initialized' = initialized \/ Running.req.kind = "cleanup"
      PROVE  IInv'
  <2>1. initializationPromise \in 1 .. Len(instance)
    BY <1>1, <1>4, RunningType DEF Sound, FieldInv
  <2>2. Sound'
    BY <1>1, <1>4, <2>1, SoundGoes
  <2>3. ASSUME ~raced PROVE Calm'
    <3>1. initialized' \/ Running.req.kind = "cleanup"
      BY <1>3, <1>4, <2>3
    <3> QED BY <1>1, <1>3, <1>4, <2>3, <3>1, CalmAwaits
  <2> QED BY <1>4, <2>2, <2>3 DEF IInv
<1>5. ASSUME NEW threw, Returns(threw), Aside, UNCHANGED <<clusters, settings, raced>>,
             ~raced => initialized' \/ (client = 0 /\ initializationPromise = 0)
      PROVE  IInv'
  <2>1. Sound'
    BY <1>1, <1>5, SoundReturns
  <2>2. ASSUME ~raced PROVE Calm'
    <3>1. \A i \in {client, initializationPromise} \ {0} : Alive(i) => Current(i)'
      BY <1>3, <1>5, <2>2 DEF Current, Returns
    <3> QED BY <1>1, <1>3, <1>5, <2>2, <3>1, CalmReturns
  <2> QED BY <1>5, <2>1, <2>2 DEF IInv
<1>6. CASE BeginCleanup
  <2>1. /\ Running.req.kind = "cleanup" /\ initialized' = FALSE
        /\ UNCHANGED <<clusters, settings, raced>> /\ Aside
    BY <1>1, <1>2, <1>6 DEF BeginCleanup, Aside
  <2>2. CASE ~initialized /\ Returns(FALSE)
    BY <1>3, <1>5, <2>1, <2>2
  <2>3. CASE initialized /\ CleanupWaits
    BY <1>4, <1>6, <2>1, <2>3 DEF BeginCleanup, CleanupWaits
  <2>4. CASE initialized /\ ~CleanupWaits
    <3>1. IF client # 0 THEN Closing ELSE ClearedAnd(FALSE, instance)
      BY <1>6, <2>4 DEF BeginCleanup
    <3>2. initializationPromise = 0
      BY <2>4 DEF CleanupWaits
    <3> QED BY <1>1, <1>3, <2>1, <3>1, <3>2, ClosesOrClears
  <2> QED BY <1>6, <2>2, <2>3, <2>4 DEF BeginCleanup
<1>7. CASE BeginClusters
  <2>1. /\ Running.req.kind = "clusters" /\ UNCHANGED <<initialized, settings, raced>>
        /\ clusters' \in Shown
    BY <1>2, <1>7, RequestArgs DEF BeginClusters, NewClusters
  <2>2. Aside
    BY <1>1, <1>2, <2>1 DEF Aside
  <2>3. CASE ~initialized /\ Returns(TRUE) /\ UNCHANGED clusters
    BY <1>3, <1>5, <2>1, <2>2, <2>3
  <2>4. CASE initialized /\ clusters' = clusters /\ Returns(FALSE)
    BY <1>5, <2>1, <2>2, <2>4
  <2>5. CASE /\ initialized /\ ClustersWaits /\ Goes("await", initializationPromise)
             /\ UNCHANGED <<client, isInitialized, initializationPromise, instance>>
    BY <1>4, <2>1, <2>2, <2>5 DEF ClustersWaits
  <2>6. CASE initialized /\ ~ClustersWaits /\ ClustersRestart
    <3>1. initializationPromise = 0
      BY <2>6 DEF ClustersWaits
    <3>2. ~raced => (client # 0 /\ Alive(client) => instance[client].settings = settings)
      BY <1>3 DEF Current
    <3> QED BY <1>1, <2>1, <2>2, <2>6, <3>1, <3>2, ClustersRestarts
  <2> QED BY <1>7, <2>3, <2>4, <2>5, <2>6 DEF BeginClusters
<1>8. CASE BeginReset
  <2>1. /\ UNCHANGED <<initialized, clusters, settings>>
        /\ raced' = (raced \/ ~initialized \/ \E i \in DOMAIN instance : Starting(i))
        /\ IF client # 0 THEN Closing ELSE ClearedAnd(TRUE, instance)
    BY <1>8 DEF BeginReset
  <2>2. Aside
    BY <1>1, <1>2, <2>1 DEF Aside
  <2>3. ASSUME ~raced'
        PROVE  ~raced /\ initialized /\ initializationPromise = 0
    <3>1. ~raced /\ initialized /\ \A i \in DOMAIN instance : ~Starting(i)
      BY <2>1, <2>3
    <3> QED BY <1>1, <3>1, RunningType DEF Sound, FieldInv
  <2> QED BY <1>1, <1>3, <2>1, <2>2, <2>3, ClosesOrClears
<1>9. CASE BeginUpdate
  <2>1. Running.req.kind = "update" /\ UNCHANGED <<initialized, clusters, raced>>
    BY <1>9 DEF BeginUpdate
  <2>2. CASE initializationPromise # 0
    BY <1>1, <1>2, <1>4, <1>9, <2>1, <2>2 DEF BeginUpdate, Aside
  <2>3. CASE initializationPromise = 0
    <3>1. /\ settings' = Running.req.arg
          /\ IF client # 0 THEN Closing ELSE ClearedAnd(FALSE, instance)
      BY <1>9, <2>3 DEF BeginUpdate, UpdateRestart
    <3>2. Aside
      BY <1>1, <1>2, <2>1, <3>1, RequestArgs DEF Aside
    <3> QED BY <1>1, <1>3, <2>1, <2>3, <3>1, <3>2, ClosesOrClears
  <2> QED BY <2>2, <2>3
<1> QED BY <1>6, <1>7, <1>8, <1>9 DEF Begin

\* It goes on after the start of another caller.
LEMMA ContinueStep ==
    ASSUME IInv, Continue
    PROVE  IInv'
<1> DEFINE failed == instance[Running.on].status = "failed"
<1>1. /\ Sound /\ queue # <<>> /\ Holds("await") /\ ~Holds("restart") /\ ~Holds("closing")
      /\ ~Starting(Running.on)
      /\ UNCHANGED <<initialized, dialogs, use, mutations, raced>>
  BY DEF IInv, Continue, Holds
<1>2. /\ clusters \in Shown /\ settings \in Settings
      /\ initialized \in BOOLEAN /\ raced \in BOOLEAN
      /\ Running.req \in Requests /\ Running.old \in Shown
      /\ Running.req.kind \in {"cleanup", "clusters", "update"}
  BY <1>1, RunningType, RequestArgs DEF Sound, Shape, QueueInv, Entry
<1>3. ~raced => /\ Calm /\ initializationPromise = 0 /\ client \in {0, Running.on}
                /\ client # 0 => initialized \/ Running.req.kind = "cleanup"
  BY <1>1, Settled DEF IInv, Calm, CleanInv
<1>4. ASSUME failed, Returns(TRUE), Aside, Running.req.kind # "cleanup"
      PROVE  IInv'
  <2>1. Sound'
    BY <1>1, <1>4, SoundReturns
  <2>2. ASSUME ~raced PROVE Calm'
    <3>1. \A i \in {client, initializationPromise} \ {0} : ~Alive(i)
      BY <1>3, <1>4, <2>2 DEF Alive
    <3>2. initialized' \/ (client = 0 /\ initializationPromise = 0)
      BY <1>1, <1>3, <1>4, <2>2
    <3> QED BY <1>1, <1>3, <1>4, <2>2, <3>1, <3>2, CalmReturns
  <2> QED BY <1>1, <2>1, <2>2 DEF IInv
<1>5. CASE Running.req.kind = "cleanup"
  <2>1. /\ IF client # 0 THEN Closing ELSE ClearedAnd(FALSE, instance)
        /\ UNCHANGED <<clusters, settings>>
    BY <1>5 DEF Continue
  <2>2. Aside
    BY <1>1, <1>2, <2>1 DEF Aside
  <2> QED BY <1>1, <1>3, <1>5, <2>1, <2>2, ClosesOrClears
<1>6. CASE Running.req.kind = "clusters"
  <2>1. /\ clusters' = IF failed THEN Running.old ELSE clusters
        /\ IF failed THEN Returns(TRUE) ELSE ClustersRestart
        /\ settings' = settings
    BY <1>6 DEF Continue
  <2>2. Aside
    BY <1>1, <1>2, <2>1 DEF Aside
  <2>3. CASE failed
    BY <1>4, <1>6, <2>1, <2>2, <2>3
  <2>4. CASE ~failed
    <3>1. ~raced => (client # 0 /\ Alive(client) => instance[client].settings = settings)
      BY <1>1, <1>3 DEF Calm, CurrentInv, Current
    <3> QED BY <1>1, <1>3, <1>6, <2>1, <2>2, <2>4, <3>1, ClustersRestarts
  <2> QED BY <2>3, <2>4
<1>7. CASE Running.req.kind = "update"
  <2>1. /\ IF failed THEN Returns(TRUE) /\ UNCHANGED settings ELSE UpdateRestart
        /\ clusters' = clusters
    BY <1>7 DEF Continue
  <2>2. Aside
    BY <1>1, <1>2, <1>7, <2>1, RequestArgs DEF Aside, UpdateRestart
  <2>3. CASE failed
    BY <1>4, <1>7, <2>1, <2>2, <2>3
  <2>4. CASE ~failed
    <3>1. IF client # 0 THEN Closing ELSE ClearedAnd(FALSE, instance)
      BY <2>1, <2>4 DEF UpdateRestart
    <3> QED BY <1>1, <1>3, <1>7, <2>2, <3>1, ClosesOrClears
  <2> QED BY <2>3, <2>4
<1> QED BY <1>2, <1>5, <1>6, <1>7

\* A client that is closed, well or not: no other one is alive.
LEMMA ClosedClient ==
    ASSUME Sound, Holds("closing"), NEW status \in {"closed", "broken"}
    PROVE  LET made == [instance EXCEPT ![Running.on].status = status]
           IN  /\ Running.on \in 1 .. Len(instance)
               /\ made \in Seq(Instance) /\ Len(made) = Len(instance)
               /\ \A i \in 1 .. Len(instance) : made[i].status = "starting" => Starting(i)
               /\ made[Running.on].status = status
               /\ Calm => Dead(made)
<1> DEFINE on == Running.on
           r == [instance[on] EXCEPT !.status = status]
           made == [instance EXCEPT ![on].status = status]
<1>1. on \in 1 .. Len(instance) /\ instance \in Seq(Instance)
  BY RunningType DEF Sound, Shape, Holds
<1>2. r \in Instance /\ r.status = status
  BY <1>1, RunningType DEF Instance
<1>3. made = [instance EXCEPT ![on] = r]
  OBVIOUS
<1> HIDE DEF on, r, made
<1>4. /\ made \in Seq(Instance) /\ Len(made) = Len(instance)
      /\ \A i \in 1 .. Len(instance) : made[i] = IF i = on THEN r ELSE instance[i]
  BY <1>1, <1>2, <1>3, ExceptSeq
<1>5. DOMAIN made = 1 .. Len(instance)
  BY <1>4, LenProperties
<1>6. \A i \in 1 .. Len(instance) : made[i].status = "starting" => Starting(i)
  BY <1>2, <1>4 DEF Starting
<1>7. ASSUME Calm PROVE Dead(made)
  <2>1. client = on /\ initializationPromise = 0
    BY <1>7 DEF Calm, WaitInv, on
  <2>2. \A i \in 1 .. Len(instance) :
            i # on => instance[i].status \notin {"starting", "up"}
    BY <1>7, <2>1, RunningType DEF Calm, OneStart, NoOrphan, Starting
  <2> QED BY <1>2, <1>4, <1>5, <2>2 DEF Dead
<1>8. made[on].status = status
  BY <1>1, <1>2, <1>4
<1> QED BY <1>1, <1>4, <1>6, <1>7, <1>8 DEF made, on

\* close() resolves.
LEMMA CloseDoneStep ==
    ASSUME IInv, CloseDone
    PROVE  IInv'
<1> DEFINE made == [instance EXCEPT ![Running.on].status = "closed"]
           again == Running.req.kind # "cleanup"
<1>1. /\ Sound /\ queue # <<>> /\ Holds("closing") /\ ~Holds("restart") /\ ~Holds("await")
      /\ UNCHANGED <<initialized, clusters, settings, dialogs, use, mutations, raced>>
      /\ ClearedAnd(again, made)
  BY DEF IInv, CloseDone, Holds
<1>2. Aside
  BY <1>1 DEF Aside, Sound, Shape
<1>3. /\ made \in Seq(Instance) /\ Len(made) = Len(instance)
      /\ \A i \in 1 .. Len(instance) : made[i].status = "starting" => Starting(i)
      /\ Calm => Dead(made)
      /\ Running.on # 0
  BY <1>1, ClosedClient, RunningType
<1>4. ~raced => Calm /\ (initialized \/ ~again)
  BY <1>1, <1>3 DEF IInv, Calm, WaitInv, CleanInv
<1> HIDE DEF made, again
<1>5. again \in BOOLEAN
  BY DEF again
<1>6. Sound'
  BY <1>1, <1>2, <1>3, <1>5, SoundClears
<1>7. ~raced => Calm'
  BY <1>1, <1>2, <1>3, <1>4, <1>5, CalmClears
<1> QED BY <1>1, <1>6, <1>7 DEF IInv

\* close() rejects: a client that is broken is not alive.
LEMMA CloseFailsStep ==
    ASSUME IInv, CloseFails
    PROVE  IInv'
<1> DEFINE made == [instance EXCEPT ![Running.on].status = "broken"]
<1>1. /\ Sound /\ queue # <<>> /\ Holds("closing") /\ ~Holds("restart") /\ ~Holds("await")
      /\ UNCHANGED <<initialized, settings, dialogs, use, mutations, raced>>
      /\ instance' = made /\ queue' = Tail(queue)
      /\ clusters' = IF Running.req.kind = "clusters" THEN Running.old ELSE clusters
  BY DEF IInv, CloseFails, Holds, Ends
<1>2. \/ client' = 0 /\ isInitialized' = FALSE /\ initializationPromise' = 0
      \/ /\ Running.req.kind # "cleanup"
         /\ UNCHANGED <<client, isInitialized, initializationPromise>>
  BY DEF CloseFails
<1>3. Aside
  BY <1>1, RunningType DEF Aside, Sound, Shape, Entry
<1>4. /\ made \in Seq(Instance) /\ Len(made) = Len(instance)
      /\ \A i \in 1 .. Len(instance) : made[i].status = "starting" => Starting(i)
      /\ \A i \in 1 .. Len(instance) : i # Running.on => made[i] = instance[i]
      /\ Calm => Dead(made)
      /\ Running.on \in 1 .. Len(instance)
  <2>1. \A i \in 1 .. Len(instance) : i # Running.on => made[i] = instance[i]
    BY <1>1, RunningType DEF Sound, Shape
  <2> HIDE DEF made
  <2> QED BY <1>1, <2>1, ClosedClient DEF made
<1> HIDE DEF made
<1>5. Grows
  BY <1>1, <1>4, RunningType DEF Grows, Starting
<1>6. /\ queue' \in Seq(Entry) /\ QueueInv' /\ Len(queue') = Len(queue) - 1
      /\ ~Holds("await")' /\ ~Holds("closing")' /\ ~Holds("restart")'
  BY <1>1, <1>5, QueueEnds DEF At
<1>7. Sound'
  <2>1. Extra = 0 /\ Extra' = 0
    BY <1>1, <1>6 DEF Extra
  <2>2. Len(instance') + Len(queue') <= Len(instance) + Len(queue) - Extra + Extra'
    BY <1>1, <1>4, <1>6, <2>1, RunningType
  <2>3. CASE client' = 0 /\ isInitialized' = FALSE /\ initializationPromise' = 0
    <3>1. client' \in 0 .. Len(instance') /\ initializationPromise' \in 0 .. Len(instance')
      <4>1. Len(instance') \in Nat
        BY <1>1, <1>4, RunningType
      <4> QED BY <2>3, <4>1
    <3>2. isInitialized' \in BOOLEAN
      BY <2>3, Zenon
    <3> QED BY <1>1, <1>3, <1>5, <1>6, <2>2, <2>3, <3>1, <3>2, SoundAgain
  <2>4. CASE UNCHANGED <<client, isInitialized, initializationPromise>>
    <3>1. /\ client' # 0 => isInitialized' /\ ~Starting(client)'
          /\ initializationPromise' # 0 => Starting(initializationPromise)'
      <4>1. client' # 0 => ~Starting(client)'
        BY <1>1, <1>4, <2>4, RunningType DEF Sound, FieldInv, Starting
      <4>2. initializationPromise # 0 => initializationPromise # Running.on
        BY <1>1 DEF Sound, FieldInv, QueueInv
      <4>3. initializationPromise' # 0 => Starting(initializationPromise)'
        BY <1>1, <1>4, <2>4, <4>2, RunningType DEF Sound, FieldInv, Starting
      <4> QED BY <1>1, <2>4, <4>1, <4>3 DEF Sound, FieldInv
    <3>2. /\ client' \in 0 .. Len(instance') /\ initializationPromise' \in 0 .. Len(instance')
          /\ isInitialized' \in BOOLEAN
      BY <1>1, <1>4, <2>4 DEF Sound, Shape, FieldInv
    <3> QED BY <1>1, <1>3, <1>5, <1>6, <2>2, <3>1, <3>2, SoundAgain
  <2> QED BY <1>2, <2>3, <2>4
<1>8. ASSUME ~raced PROVE Calm'
  <2>1. Calm /\ Dead(instance') /\ client = Running.on /\ initializationPromise = 0
    BY <1>1, <1>4, <1>8 DEF IInv, Calm, WaitInv
  <2>2. OneStart' /\ NoOrphan'
    BY <2>1 DEF Dead, OneStart, NoOrphan, Starting
  <2>3. initializationPromise' = 0 /\ client' \in {0, Running.on}
    BY <1>2, <2>1
  <2>4. CurrentInv'
    <3>1. instance'[Running.on].status \notin {"starting", "up"}
      BY <1>1, <1>4, <2>1, LenProperties DEF Dead
    <3> QED BY <2>3, <3>1 DEF CurrentInv, Alive
  <2>5. CleanInv'
    <3>1. initialized \/ client' = 0
      BY <1>1, <1>2, <1>4, <2>1 DEF Calm, CleanInv
    <3> QED BY <1>1, <2>3, <3>1 DEF CleanInv
  <2> QED BY <1>6, <2>2, <2>3, <2>4, <2>5 DEF Calm, WaitInv
<1> QED BY <1>1, <1>7, <1>8 DEF IInv

\* Its own start has settled.
LEMMA RestartedStep ==
    ASSUME IInv, Restarted
    PROVE  IInv'
<1> DEFINE failed == instance[Running.on].status = "failed"
<1>1. /\ Sound /\ queue # <<>> /\ Holds("restart") /\ ~Holds("closing") /\ ~Holds("await")
      /\ ~Starting(Running.on)
      /\ UNCHANGED <<initialized, settings, dialogs, use, mutations, raced>>
      /\ clusters' = IF failed /\ Running.req.kind = "clusters" THEN Running.old ELSE clusters
      /\ Returns(failed)
  BY DEF IInv, Restarted, Holds, Returns
<1>2. Aside
  BY <1>1, RunningType DEF Aside, Sound, Shape, Entry
<1>3. Sound'
  BY <1>1, <1>2, SoundReturns
<1>4. ASSUME ~raced PROVE Calm'
  <2>1. Calm /\ initializationPromise = 0 /\ client \in {0, Running.on}
    BY <1>1, <1>4, Settled DEF IInv
  <2>2. \A i \in {client, initializationPromise} \ {0} : Alive(i) => Current(i)'
    <3> SUFFICES ASSUME NEW i \in {client, initializationPromise} \ {0}, Alive(i)
                 PROVE  Current(i)'
      OBVIOUS
    <3>1. i = Running.on /\ Current(i)
      BY <1>1, <2>1 DEF Calm, CurrentInv
    <3>2. ~failed /\ instance' = instance
      BY <1>1, <3>1 DEF Alive, Returns
    <3> QED BY <1>1, <3>1, <3>2 DEF Current
  <2>3. initialized' \/ (client = 0 /\ initializationPromise = 0)
    BY <1>1, <2>1 DEF Calm, CleanInv
  <2> QED BY <1>1, <2>1, <2>2, <2>3, CalmReturns
<1> QED BY <1>1, <1>3, <1>4 DEF IInv

-----------------------------------------------------------------------------
(***************************************************************************)
(* Uses, starts and requests.                                              *)
(***************************************************************************)

\* Sound after a step that changes neither the queue nor the mutations.
LEMMA SoundBesides ==
    ASSUME Sound, Grows, isInitialized' \in BOOLEAN,
           UNCHANGED <<initialized, clusters, settings, queue, mutations, raced>>,
           dialogs' \subseteq Dialogs,
           use' \in [Uses -> [at : {"idle", "waiting", "answered"}, on : Nat]],
           \A u \in Uses : use'[u].on <= Len(instance'),
           client' \in 0 .. Len(instance'), initializationPromise' \in 0 .. Len(instance'),
           client' # 0 => isInitialized' /\ ~Starting(client)',
           initializationPromise' # 0 => Starting(initializationPromise)',
           Len(instance') - Len(instance) <= Cardinality(Asking)' - Cardinality(Asking)
    PROVE  Sound'
<1>1. Shape'
  BY DEF Sound, Shape, Grows
<1>2. FieldInv'
  BY DEF FieldInv
<1>3. Len(instance') \in Nat /\ Len(instance) \in Nat /\ Len(queue) \in Nat
  BY LenProperties, RunningType DEF Grows
<1>4. QueueInv'
  <2>1. \A j \in DOMAIN queue : queue[j].on \in Nat /\ queue[j].on <= Len(instance')
    BY <1>3, RunningType DEF Sound, QueueInv, Grows, Entry
  <2>2. Holds("closing") => ~Starting(Running.on)'
    BY RunningType DEF Sound, QueueInv, Grows, Holds, Running, Starting
  <2> QED BY <2>1, <2>2 DEF Sound, QueueInv, Holds, Running
<1>5. CountInv'
  <2>1. Extra' = Extra /\ Extra \in {0, 1}
    BY DEF Extra, Holds, Running
  <2>2. Len(instance) + Len(queue) <= mutations + Cardinality(Asking) + Extra
    BY DEF Sound, CountInv
  <2>3. mutations \in Nat /\ Cardinality(Asking) \in Nat /\ Cardinality(Asking)' \in Nat
    BY BoundAssumption, AskingBound, AskingBoundNext DEF Sound, Shape
  <2> HIDE DEF Extra
  <2>4. Len(instance') + Len(queue) <= mutations + Cardinality(Asking)' + Extra
    BY <1>3, <2>1, <2>2, <2>3
  <2> QED BY <2>1, <2>4 DEF CountInv
<1> QED BY <1>1, <1>2, <1>4, <1>5 DEF Sound

\* Calm after a step that changes neither the fields nor where the mutation
\* that runs has come to.
LEMMA CalmBesides ==
    ASSUME Calm,
           UNCHANGED <<initialized, client, initializationPromise, clusters, settings, instance>>,
           \A at \in At \ {"queued"} : Holds(at)' <=> Holds(at),
           queue # <<>> => Running' = Running
    PROVE  Calm'
<1>1. OneStart' /\ NoOrphan' /\ (initializationPromise' # 0 => client' = 0)
  BY DEF Calm, OneStart, NoOrphan, Starting
<1>2. /\ Holds("await")' <=> Holds("await")
      /\ Holds("closing")' <=> Holds("closing")
      /\ Holds("restart")' <=> Holds("restart")
  BY DEF At
<1>3. (Holds("await") \/ Holds("closing") \/ Holds("restart")) => Running' = Running
  BY DEF Holds
<1>4. WaitInv'
  BY <1>2, <1>3 DEF Calm, WaitInv
<1>5. CurrentInv'
  BY <1>2, <1>3 DEF Calm, CurrentInv, Alive, Current
<1>6. CleanInv'
  BY <1>2, <1>3 DEF Calm, CleanInv
<1> QED BY <1>1, <1>4, <1>5, <1>6 DEF Calm

\* A mutation is requested, or a dialog opened or closed.
LEMMA RequestStep ==
    ASSUME IInv,
           UNCHANGED <<initialized, client, isInitialized, initializationPromise, clusters,
                       settings, instance, use, raced>>,
           dialogs' \subseteq Dialogs,
           (\E req \in Requests : Enqueue(req)) \/ UNCHANGED <<mutations, queue>>
    PROVE  IInv'
<1>1. Sound /\ Grows /\ Len(instance) \in Nat /\ Len(queue) \in Nat
  BY RunningType DEF IInv, Grows, Sound, Shape, Starting
<1>2. CASE UNCHANGED <<mutations, queue>>
  <2>1. Sound'
    BY <1>1, <1>2 DEF Sound, Shape, QueueInv, FieldInv, CountInv, Extra, Asking, Holds, Running, Starting
  <2>2. ~raced => Calm'
    BY <1>2, CalmBesides DEF IInv, Holds, Running
  <2> QED BY <2>1, <2>2 DEF IInv
<1>3. ASSUME NEW req \in Requests, Enqueue(req) PROVE IInv'
  <2>1. /\ queue' \in Seq(Entry) /\ QueueInv' /\ Len(queue') = Len(queue) + 1
        /\ \A at \in At \ {"queued"} : Holds(at)' <=> Holds(at)
        /\ queue # <<>> => Running' = Running
    BY <1>1, <1>3, QueueAdds
  <2>2. mutations \in Nat /\ mutations' = mutations + 1 /\ mutations' \in 0 .. MaxMutations
    BY <1>1, <1>3, BoundAssumption DEF Enqueue, Sound, Shape
  <2>3. Shape'
    BY <1>1, <2>1, <2>2 DEF Sound, Shape
  <2>4. FieldInv'
    BY <1>1 DEF Sound, FieldInv, Starting
  <2>5. CountInv'
    <3>1. Extra' = Extra /\ Extra \in {0, 1}
      BY <2>1 DEF Extra, At
    <3>2. Len(instance) + Len(queue) <= mutations + Cardinality(Asking) + Extra
      BY <1>1 DEF Sound, CountInv
    <3>3. Cardinality(Asking)' = Cardinality(Asking) /\ Cardinality(Asking) \in Nat
      BY AskingBound DEF Asking
    <3> HIDE DEF Extra
    <3>4. Len(instance) + (Len(queue) + 1) <= mutations + 1 + Cardinality(Asking) + Extra
      BY <1>1, <2>2, <3>1, <3>2, <3>3
    <3> QED BY <2>1, <2>2, <3>1, <3>3, <3>4 DEF CountInv
  <2>6. ~raced => Calm'
    BY <2>1, CalmBesides DEF IInv
  <2> QED BY <2>1, <2>3, <2>4, <2>5, <2>6 DEF IInv, Sound
<1> QED BY <1>2, <1>3

\* One more use asks.
LEMMA OneMoreAsks ==
    ASSUME Sound, NEW u \in Uses, use[u].at = "idle",
           NEW r \in [at : {"waiting", "answered"}, on : Nat], use' = [use EXCEPT ![u] = r]
    PROVE  /\ use' \in [Uses -> [at : {"idle", "waiting", "answered"}, on : Nat]]
           /\ use'[u] = r /\ \A v \in Uses : v # u => use'[v] = use[v]
           /\ Cardinality(Asking)' = Cardinality(Asking) + 1
<1>1. /\ use' \in [Uses -> [at : {"idle", "waiting", "answered"}, on : Nat]]
      /\ use'[u] = r /\ \A v \in Uses : v # u => use'[v] = use[v]
  BY DEF Sound, Shape
<1>2. Asking' = Asking \cup {u} /\ u \notin Asking
  BY <1>1 DEF Asking
<1>3. Cardinality(Asking \cup {u}) = Cardinality(Asking) + 1
  BY <1>2, AskingBound, FS_AddElement
<1> QED BY <1>1, <1>2, <1>3

\* A use is answered at once, waits for a start in progress, or starts a client.
LEMMA UseStep ==
    ASSUME IInv, NEW u \in Uses, Use(u)
    PROVE  IInv'
<1>1. /\ Sound /\ use[u].at = "idle" /\ ~Due /\ initialized
      /\ UNCHANGED <<initialized, client, clusters, settings, queue, dialogs, mutations, raced>>
  BY DEF IInv, Use
<1>2. /\ use[u] \in [at : {"idle", "waiting", "answered"}, on : Nat]
      /\ \A v \in Uses : use[v].on \in Nat /\ use[v].on <= Len(instance)
      /\ client \in 0 .. Len(instance) /\ initializationPromise \in 0 .. Len(instance)
      /\ Len(instance) \in Nat /\ isInitialized \in BOOLEAN /\ dialogs \subseteq Dialogs
  BY <1>1, RunningType DEF Sound, Shape, FieldInv
<1>3. ASSUME NEW r \in [at : {"waiting", "answered"}, on : Nat], r.on <= Len(instance),
             use' = [use EXCEPT ![u] = r], isInitialized' \in BOOLEAN,
             isInitialized => isInitialized',
             UNCHANGED <<initializationPromise, instance>>
      PROVE  IInv'
  <2>1. /\ use' \in [Uses -> [at : {"idle", "waiting", "answered"}, on : Nat]]
        /\ use'[u] = r /\ \A v \in Uses : v # u => use'[v] = use[v]
        /\ Cardinality(Asking)' = Cardinality(Asking) + 1
    BY <1>1, <1>3, OneMoreAsks
  <2>2. Grows
    BY <1>1, <1>2, <1>3 DEF Grows, Sound, Shape, Starting
  <2>3. \A v \in Uses : use'[v].on <= Len(instance')
    BY <1>2, <1>3, <2>1
  <2>4. Len(instance') - Len(instance) <= Cardinality(Asking)' - Cardinality(Asking)
    BY <1>2, <1>3, <2>1, AskingBound
  <2>5. /\ client' # 0 => isInitialized' /\ ~Starting(client)'
        /\ initializationPromise' # 0 => Starting(initializationPromise)'
    BY <1>1, <1>3 DEF Sound, FieldInv, Starting
  <2>6. Sound'
    BY <1>1, <1>2, <1>3, <2>1, <2>2, <2>3, <2>4, <2>5, SoundBesides
  <2>7. ~raced => Calm'
    BY <1>1, <1>3, CalmBesides DEF IInv, Holds, Running
  <2> QED BY <1>1, <2>6, <2>7 DEF IInv
<1>4. CASE UseReady(u)
  <2> DEFINE r == [use[u] EXCEPT !.at = "answered"]
  <2>1. r \in [at : {"waiting", "answered"}, on : Nat] /\ r.on <= Len(instance)
    BY <1>2
  <2>2. /\ use' = [use EXCEPT ![u] = r] /\ isInitialized' = TRUE
        /\ UNCHANGED <<initializationPromise, instance>>
    BY <1>4 DEF UseReady
  <2> HIDE DEF r
  <2> QED BY <1>3, <2>1, <2>2
<1>5. CASE UseJoins(u)
  <2> DEFINE r == [at |-> "waiting", on |-> initializationPromise]
  <2>1. r \in [at : {"waiting", "answered"}, on : Nat] /\ r.on <= Len(instance)
    BY <1>2
  <2>2. /\ use' = [use EXCEPT ![u] = r]
        /\ UNCHANGED <<isInitialized, initializationPromise, instance>>
    BY <1>5 DEF UseJoins
  <2> HIDE DEF r
  <2> QED BY <1>2, <1>3, <2>1, <2>2
<1>6. CASE UseStarts(u)
  <2> DEFINE n == Len(instance) + 1
             r == [at |-> "waiting", on |-> n]
  <2>1. /\ ~isInitialized /\ initializationPromise = 0
        /\ instance' = Started(instance, settings, clusters)
        /\ initializationPromise' = n /\ use' = [use EXCEPT ![u] = r]
        /\ isInitialized' = isInitialized
    BY <1>6 DEF UseStarts, MayJoin, Fresh
  <2>2. client = 0
    BY <1>1, <2>1 DEF Sound, FieldInv
  <2>3. /\ instance' \in Seq(Instance) /\ Len(instance') = n
        /\ \A i \in 1 .. Len(instance) : instance'[i] = instance[i]
        /\ instance'[n] = [status |-> "starting", settings |-> settings, cluster |-> clusters]
    BY <1>1, <2>1, StartedType DEF Sound, Shape
  <2>4. DOMAIN instance' = 1 .. n
    BY <2>3, LenProperties
  <2>5. Grows
    BY <1>2, <2>3 DEF Grows, Starting
  <2>6. /\ use' \in [Uses -> [at : {"idle", "waiting", "answered"}, on : Nat]]
        /\ use'[u] = r /\ \A v \in Uses : v # u => use'[v] = use[v]
        /\ Cardinality(Asking)' = Cardinality(Asking) + 1
    <3>1. r \in [at : {"waiting", "answered"}, on : Nat]
      BY <1>2
    <3> HIDE DEF r
    <3> QED BY <1>1, <2>1, <3>1, OneMoreAsks
  <2>7. \A v \in Uses : use'[v].on <= Len(instance')
    BY <1>2, <2>3, <2>6
  <2>8. Len(instance') - Len(instance) <= Cardinality(Asking)' - Cardinality(Asking)
    BY <1>2, <2>3, <2>6, AskingBound
  <2>9. Starting(initializationPromise)'
    BY <2>1, <2>3 DEF Starting
  <2>10. Sound'
    <3>1. client' = 0 /\ client' \in 0 .. Len(instance') /\ n \in 0 .. Len(instance')
      BY <1>1, <1>2, <2>2, <2>3
    <3> QED
      BY <1>1, <1>2, <2>1, <2>5, <2>6, <2>7, <2>8, <2>9, <3>1, SoundBesides
  <2>11. ASSUME ~raced PROVE Calm'
    <3>1. Calm /\ Dead(instance)
      BY <1>1, <2>1, <2>2, <2>11, NothingAlive DEF IInv
    <3>2. \A i \in 1 .. n : i # n => instance'[i].status \notin {"starting", "up"}
      BY <1>1, <1>2, <2>3, <3>1, RunningType DEF Dead
    <3>3. OneStart' /\ NoOrphan'
      BY <2>1, <2>3, <2>4, <3>2 DEF OneStart, NoOrphan, Starting
    <3>4. ~Holds("await") /\ ~Holds("restart") /\ ~Holds("closing")
      <4>1. ASSUME Holds("await") \/ Holds("restart") PROVE FALSE
        <5>1. Running.on \in DOMAIN instance /\ Running.on # 0 /\ Starting(Running.on)
          BY <1>1, <4>1, RunningType DEF Holds, Due
        <5> QED BY <2>1, <3>1, <5>1 DEF Calm, OneStart
      <4>2. ASSUME Holds("closing") PROVE FALSE
        <5>1. Running.on # 0
          BY <1>1, <4>2, RunningType DEF Holds
        <5> QED BY <2>2, <3>1, <4>2, <5>1 DEF Calm, WaitInv
      <4> QED BY <4>1, <4>2
    <3>5. ~Holds("await")' /\ ~Holds("restart")' /\ ~Holds("closing")'
      BY <1>1, <3>4 DEF Holds, Running
    <3>6. CurrentInv'
      BY <1>1, <2>1, <2>2, <2>3 DEF CurrentInv, Current
    <3> QED BY <1>1, <2>2, <3>3, <3>5, <3>6 DEF Calm, WaitInv, CleanInv
  <2> QED BY <1>1, <2>10, <2>11 DEF IInv
<1> QED BY <1>4, <1>5, <1>6 DEF Use

\* The uses that wait for i are answered: as many ask as before.
LEMMA AnsweredUses ==
    ASSUME Sound, NEW i, use' = Answered(i)
    PROVE  /\ use' \in [Uses -> [at : {"idle", "waiting", "answered"}, on : Nat]]
           /\ \A u \in Uses : use'[u].on = use[u].on
           /\ Asking' = Asking
<1>1. \A u \in Uses :
        /\ use'[u] \in [at : {"idle", "waiting", "answered"}, on : Nat]
        /\ use'[u].on = use[u].on
        /\ use'[u].at # "idle" <=> use[u].at # "idle"
  <2> SUFFICES ASSUME NEW u \in Uses
               PROVE  /\ use'[u] \in [at : {"idle", "waiting", "answered"}, on : Nat]
                      /\ use'[u].on = use[u].on
                      /\ use'[u].at # "idle" <=> use[u].at # "idle"
    OBVIOUS
  <2>1. use[u] \in [at : {"idle", "waiting", "answered"}, on : Nat]
    BY DEF Sound, Shape
  <2>2. CASE use[u] = [at |-> "waiting", on |-> i]
    BY <2>1, <2>2 DEF Answered
  <2>3. CASE use[u] # [at |-> "waiting", on |-> i]
    BY <2>1, <2>3 DEF Answered
  <2> QED BY <2>2, <2>3
<1>2. use' = [u \in Uses |-> use'[u]]
  BY DEF Answered
<1> QED BY <1>1, <1>2 DEF Asking

\* A start ends, well or not.
LEMMA StartStep ==
    ASSUME IInv, NEW i \in DOMAIN instance, StartDone(i) \/ StartFails(i)
    PROVE  IInv'
<1>1. /\ Sound /\ Starting(i) /\ use' = Answered(i)
      /\ UNCHANGED <<initialized, clusters, settings, queue, dialogs, mutations, raced>>
      /\ \A u \in Uses : use[u].on \in Nat /\ use[u].on <= Len(instance)
      /\ initializationPromise \in 0 .. Len(instance) /\ instance \in Seq(Instance)
      /\ dialogs \subseteq Dialogs
  BY DEF IInv, StartDone, StartFails, Sound, Shape, FieldInv
<1>2. i \in 1 .. Len(instance) /\ Len(instance) \in Nat /\ instance[i] \in Instance
  BY <1>1, RunningType
<1>3. ASSUME NEW status \in {"up", "failed"},
             instance' = [instance EXCEPT ![i].status = status]
      PROVE  /\ Grows /\ Len(instance') = Len(instance) /\ DOMAIN instance' = DOMAIN instance
             /\ \A j \in DOMAIN instance : j # i => instance'[j] = instance[j]
             /\ instance'[i] = [instance[i] EXCEPT !.status = status]
             /\ instance'[i].status = status /\ ~Starting(i)'
  <2> DEFINE r == [instance[i] EXCEPT !.status = status]
  <2>1. r \in Instance /\ r.status = status
    BY <1>2 DEF Instance
  <2>2. instance' = [instance EXCEPT ![i] = r]
    BY <1>3
  <2> HIDE DEF r
  <2>3. /\ instance' \in Seq(Instance) /\ Len(instance') = Len(instance)
        /\ \A j \in 1 .. Len(instance) : instance'[j] = IF j = i THEN r ELSE instance[j]
    BY <1>1, <1>2, <2>1, <2>2, ExceptSeq
  <2>4. DOMAIN instance' = DOMAIN instance /\ DOMAIN instance = 1 .. Len(instance)
    BY <1>1, <2>3, LenProperties
  <2>5. Grows
    BY <1>1, <1>2, <2>1, <2>3 DEF Grows, Starting
  <2>6. instance'[i] = r /\ \A j \in DOMAIN instance : j # i => instance'[j] = instance[j]
    BY <1>2, <2>3, <2>4
  <2> QED BY <2>1, <2>3, <2>4, <2>5, <2>6 DEF r, Starting
<1>4. /\ use' \in [Uses -> [at : {"idle", "waiting", "answered"}, on : Nat]]
      /\ \A u \in Uses : use'[u].on = use[u].on
      /\ Cardinality(Asking)' = Cardinality(Asking)
  BY <1>1, AnsweredUses
<1>5. ASSUME Grows, Len(instance') = Len(instance), isInitialized' \in BOOLEAN,
             client' \in 0 .. Len(instance), initializationPromise' \in 0 .. Len(instance),
             client' # 0 => isInitialized' /\ ~Starting(client)',
             initializationPromise' # 0 => Starting(initializationPromise)'
      PROVE  Sound'
  <2>1. /\ \A u \in Uses : use'[u].on <= Len(instance')
        /\ Len(instance') - Len(instance) <= Cardinality(Asking)' - Cardinality(Asking)
    BY <1>1, <1>2, <1>4, <1>5, AskingBound
  <2> QED BY <1>1, <1>4, <1>5, <2>1, SoundBesides
<1>6. ~raced => Calm /\ initializationPromise = i /\ client = 0
  BY <1>1, <1>2 DEF IInv, Calm, OneStart
<1>7. \A at \in At : (Holds(at)' <=> Holds(at)) /\ Running' = Running
  BY <1>1 DEF Holds, Running
<1>8. CASE StartDone(i)
  <2>1. /\ instance' = [instance EXCEPT ![i].status = "up"] /\ client' = i
        /\ isInitialized' = TRUE
        /\ initializationPromise' = IF initializationPromise = i THEN 0 ELSE initializationPromise
    BY <1>8 DEF StartDone
  <2>2. /\ Grows /\ Len(instance') = Len(instance) /\ DOMAIN instance' = DOMAIN instance
        /\ \A j \in DOMAIN instance : j # i => instance'[j] = instance[j]
        /\ instance'[i] = [instance[i] EXCEPT !.status = "up"]
        /\ instance'[i].status = "up" /\ ~Starting(i)'
    BY <1>3, <2>1
  <2>3. Sound'
    <3>1. client' # 0 => ~Starting(client)'
      BY <2>1, <2>2 DEF Starting
    <3>2. initializationPromise' # 0 => Starting(initializationPromise)'
      BY <1>1, <2>1, <2>2, RunningType DEF Sound, FieldInv, Starting
    <3>3. client' \in 0 .. Len(instance) /\ initializationPromise' \in 0 .. Len(instance)
      BY <1>1, <1>2, <2>1
    <3> QED BY <1>5, <2>1, <2>2, <3>1, <3>2, <3>3
  <2>4. ASSUME ~raced PROVE Calm'
    <3>1. Calm /\ initializationPromise = i /\ client = 0 /\ i # 0
      BY <1>2, <1>6, <2>4
    <3>2. OneStart' /\ NoOrphan'
      BY <1>2, <2>1, <2>2, <3>1, RunningType DEF Calm, OneStart, NoOrphan, Starting
    <3>3. initializationPromise' = 0
      BY <2>1, <3>1
    <3>4. WaitInv'
      <4>1. ~Holds("closing")
        BY <3>1 DEF Calm, WaitInv
      <4>2. Holds("await") \/ Holds("restart") => Running.on = i
        BY <3>1 DEF Calm, WaitInv
      <4> QED BY <1>7, <2>1, <3>3, <4>1, <4>2 DEF WaitInv, At
    <3>5. CurrentInv'
      <4>1. Alive(i)
        BY <1>1 DEF Alive, Starting
      <4>2. /\ instance'[i].settings = instance[i].settings
            /\ instance'[i].cluster = instance[i].cluster
        BY <1>2, <2>2 DEF Instance
      <4> QED
        BY <1>1, <1>7, <2>1, <3>1, <3>3, <4>1, <4>2 DEF Calm, CurrentInv, Current, At
    <3>6. CleanInv'
      BY <1>1, <1>7, <3>1 DEF Calm, CleanInv, At
    <3> QED BY <3>2, <3>3, <3>4, <3>5, <3>6 DEF Calm
  <2> QED BY <1>1, <2>3, <2>4 DEF IInv
<1>9. CASE StartFails(i)
  <2>1. /\ instance' = [instance EXCEPT ![i].status = "failed"] /\ client' = 0
        /\ isInitialized' = FALSE /\ initializationPromise' = 0
    BY <1>9 DEF StartFails
  <2>2. /\ Grows /\ Len(instance') = Len(instance) /\ DOMAIN instance' = DOMAIN instance
        /\ \A j \in DOMAIN instance : j # i => instance'[j] = instance[j]
        /\ instance'[i].status = "failed"
    BY <1>3, <2>1
  <2>3. Sound'
    <3>1. client' \in 0 .. Len(instance) /\ initializationPromise' \in 0 .. Len(instance)
      BY <1>2, <2>1
    <3>2. isInitialized' \in BOOLEAN
      BY <2>1, Zenon
    <3> QED BY <1>5, <2>1, <2>2, <3>1, <3>2
  <2>4. ASSUME ~raced PROVE Calm'
    <3>1. Calm /\ initializationPromise = i /\ client = 0 /\ i # 0
      BY <1>2, <1>6, <2>4
    <3>2. OneStart' /\ NoOrphan'
      BY <1>2, <2>1, <2>2, <3>1, RunningType DEF Calm, OneStart, NoOrphan, Starting
    <3>3. ~Holds("closing")'
      BY <1>7, <3>1 DEF Calm, WaitInv, At
    <3> QED BY <2>1, <3>2, <3>3 DEF Calm, WaitInv, CurrentInv, CleanInv
  <2> QED BY <1>1, <2>3, <2>4 DEF IInv
<1> QED BY <1>8, <1>9

-----------------------------------------------------------------------------
(***************************************************************************)
(* In the beginning there is no client.                                    *)
(***************************************************************************)
LEMMA Initially == Init => IInv
<1> SUFFICES ASSUME Init PROVE IInv
  OBVIOUS
<1>1. /\ queue = <<>> /\ instance = <<>> /\ client = 0 /\ initializationPromise = 0
      /\ initialized = TRUE /\ mutations = 0
      /\ use = [u \in Uses |-> [at |-> "idle", on |-> 0]]
  BY DEF Init
<1>2. /\ Len(instance) = 0 /\ Len(queue) = 0 /\ DOMAIN queue = {} /\ DOMAIN instance = {}
      /\ queue \in Seq(Entry) /\ instance \in Seq(Instance)
  BY <1>1, EmptySeq
<1>3. \A at \in At : ~Holds(at)
  BY <1>1 DEF Holds
<1>4. Shape
  <2>1. initialized \in BOOLEAN /\ isInitialized \in BOOLEAN /\ raced \in BOOLEAN
    BY Zenon DEF Init
  <2> QED BY <1>1, <1>2, <2>1, BoundAssumption DEF Init, Shape, Shown
<1>5. QueueInv /\ FieldInv
  BY <1>1, <1>2, <1>3 DEF QueueInv, FieldInv, At
<1>6. CountInv
  <2>1. Extra = 0
    BY <1>3 DEF Extra, At
  <2> QED BY <1>1, <1>2, <2>1, AskingBound DEF CountInv
<1>7. Calm
  BY <1>1, <1>2, <1>3
  DEF Calm, OneStart, NoOrphan, WaitInv, CurrentInv, CleanInv, At
<1> QED BY <1>4, <1>5, <1>6, <1>7 DEF IInv, Sound

(***************************************************************************)
(* Every step preserves the invariant.                                     *)
(***************************************************************************)
LEMMA Inductive == IInv /\ [Next]_vars => IInv'
<1> SUFFICES ASSUME IInv, [Next]_vars PROVE IInv'
  OBVIOUS
<1>1. Dialogs \subseteq Requests /\ dialogs \subseteq Dialogs
  BY DEF Requests, IInv, Sound, Shape
<1>2. ASSUME NEW d \in Dialogs, Ask(d) PROVE IInv'
  BY <1>1, <1>2, RequestStep DEF Ask
<1>3. ASSUME NEW d \in Dialogs, Confirm(d) PROVE IInv'
  BY <1>1, <1>3, RequestStep DEF Confirm
<1>4. ASSUME NEW r \in Requests \ Dialogs, Request(r) PROVE IInv'
  BY <1>1, <1>4, RequestStep DEF Request
<1>5. CASE UNCHANGED vars
  BY <1>1, <1>5, RequestStep DEF vars
<1> QED
  BY <1>2, <1>3, <1>4, <1>5, UseStep, StartStep, BeginStep, ContinueStep, CloseDoneStep,
     CloseFailsStep, RestartedStep
  DEF Next

(***************************************************************************)
(* The invariant bounds the clients: every use and every mutation starts   *)
(* at most one.                                                            *)
(***************************************************************************)
LEMMA ClientsBounded ==
    ASSUME Sound
    PROVE  1 .. Len(instance) \subseteq Ids
<1>1. Len(instance) + Len(queue) <= mutations + Cardinality(Asking) + Extra
  BY DEF Sound, CountInv
<1>2. /\ Len(instance) \in Nat /\ Len(queue) \in Nat
      /\ Extra \in {0, 1} /\ (Extra = 1 => Len(queue) >= 1)
  BY RunningType DEF Extra, Holds
<1>3. /\ mutations \in Nat /\ mutations <= MaxMutations /\ MaxMutations \in Nat
      /\ Cardinality(Asking) \in Nat /\ Cardinality(Uses) \in Nat
      /\ Cardinality(Asking) <= Cardinality(Uses)
  BY BoundAssumption, AskingBound DEF Sound, Shape
<1>4. Len(instance) <= Cardinality(Uses) + MaxMutations
  BY <1>1, <1>2, <1>3
<1> QED BY <1>2, <1>3, <1>4 DEF Ids

(***************************************************************************)
(* The fields, the queue and the uses keep to their types; in particular   *)
(* the client starts the servers at most once for each use and each        *)
(* mutation, however starts, failures and mutations overlap.               *)
(***************************************************************************)
THEOREM TypeCorrect == Spec => []TypeOK
<1>1. ASSUME Sound PROVE TypeOK
  <2>1. /\ 1 .. Len(instance) \subseteq Ids /\ 0 .. Len(instance) \subseteq Ids \cup {0}
        /\ Len(instance) \in Nat
    BY <1>1, ClientsBounded, RunningType
  <2>2. client \in Ids \cup {0} /\ initializationPromise \in Ids \cup {0}
    BY <1>1, <2>1 DEF Sound, FieldInv
  <2>3. DOMAIN instance \subseteq Ids
    BY <1>1, <2>1, RunningType
  <2>4. queue \in Seq(Mutation)
    <3>1. \A j \in 1 .. Len(queue) : queue[j] \in Mutation
      <4> SUFFICES ASSUME NEW j \in 1 .. Len(queue) PROVE queue[j] \in Mutation
        OBVIOUS
      <4>1. queue[j] \in Entry /\ queue[j].on <= Len(instance)
        BY <1>1, RunningType DEF Sound, QueueInv
      <4>2. queue[j].on \in 0 .. Len(instance)
        BY <2>1, <4>1 DEF Entry
      <4>3. queue[j].on \in Ids \cup {0}
        BY <2>1, <4>2
      <4> QED BY <4>1, <4>3 DEF Entry, Mutation, At, Shown
    <3>2. Len(queue) \in Nat /\ queue \in [1 .. Len(queue) -> Entry]
      BY <1>1, LenProperties DEF Sound, Shape
    <3>3. queue \in [1 .. Len(queue) -> Mutation]
      BY <3>1, <3>2
    <3> QED BY <3>2, <3>3, SeqDef
  <2>5. use \in [Uses -> [at : {"idle", "waiting", "answered"}, on : Ids \cup {0}]]
    <3>1. \A u \in Uses : use[u] \in [at : {"idle", "waiting", "answered"}, on : Ids \cup {0}]
      <4> SUFFICES ASSUME NEW u \in Uses
                   PROVE  use[u] \in [at : {"idle", "waiting", "answered"}, on : Ids \cup {0}]
        OBVIOUS
      <4>1. /\ use[u] \in [at : {"idle", "waiting", "answered"}, on : Nat]
            /\ use[u].on <= Len(instance)
        BY <1>1 DEF Sound, Shape, FieldInv
      <4>2. use[u].on \in 0 .. Len(instance)
        BY <2>1, <4>1
      <4>3. use[u].on \in Ids \cup {0}
        BY <2>1, <4>2
      <4> QED BY <4>1, <4>3
    <3> QED BY <1>1, <3>1 DEF Sound, Shape
  <2> QED BY <1>1, <2>2, <2>3, <2>4, <2>5 DEF TypeOK, Sound, Shape, Shown
<1>2. IInv => TypeOK
  BY <1>1 DEF IInv
<1> QED BY <1>2, Initially, Inductive, PTL DEF Spec

(***************************************************************************)
(* As long as no reset begins during a start or after the cleanup, no      *)
(* client whose servers run is lost.                                       *)
(***************************************************************************)
THEOREM NoClientIsLost == Spec => []NoOrphanUnlessRaced
<1>1. IInv => NoOrphanUnlessRaced
  BY DEF IInv, Calm, NoOrphanUnlessRaced
<1> QED BY <1>1, Initially, Inductive, PTL DEF Spec

(***************************************************************************)
(* When nothing is under way, the client that runs has been started with   *)
(* the settings of the file and, where it matters, the window's cluster.   *)
(***************************************************************************)
THEOREM ClientStaysCurrent == Spec => []ClientIsCurrent
<1>1. IInv => ClientIsCurrent
  <2> SUFFICES ASSUME IInv, queue = <<>>, ~raced, client # 0, instance[client].status = "up"
               PROVE  Current(client)
    BY DEF ClientIsCurrent, Quiet, Current
  <2>1. \A at \in At : ~Holds(at)
    BY DEF Holds
  <2> QED BY <2>1 DEF IInv, Calm, CurrentInv, Alive, At
<1> QED BY <1>1, Initially, Inductive, PTL DEF Spec

(***************************************************************************)
(* After the cleanup no server runs or starts, also when a start was in    *)
(* progress when it began.                                                 *)
(***************************************************************************)
THEOREM CleanupLeavesNothing == Spec => []CleanupIsComplete
<1>1. IInv => CleanupIsComplete
  <2> SUFFICES ASSUME IInv, ~initialized, queue = <<>>, ~raced
               PROVE  Dead(instance)
    BY DEF CleanupIsComplete, CleanedUp, Dead
  <2>1. \A at \in At : ~Holds(at)
    BY DEF Holds
  <2>2. client = 0 /\ initializationPromise = 0
    BY <2>1 DEF IInv, Calm, CleanInv, At
  <2> QED BY <2>2, NothingAlive DEF IInv
<1> QED BY <1>1, Initially, Inductive, PTL DEF Spec

=============================================================================
