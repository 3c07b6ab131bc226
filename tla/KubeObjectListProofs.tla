------------------------ MODULE KubeObjectListProofs ------------------------
(***************************************************************************)
(* KubeObjectList for any number of objects, versions, requests and losses *)
(* of the socket, and any limit of a page: the type invariant, the list as *)
(* a snapshot of the server, and events that never take the list back.     *)
(***************************************************************************)
EXTENDS KubeObjectList, SequenceTheorems, WellFoundedInduction, TLAPS

-----------------------------------------------------------------------------
(* The operators on the items of a list.                                   *)

\* No object is in the list twice.
UniqueUids(items) == \A i, j \in DOMAIN items : items[i].uid = items[j].uid => i = j

\* findIndex: the place of an item with this uid, or 0 when there is none.
LEMMA IndexOfFacts ==
    ASSUME NEW items \in Seq(Item), NEW uid
    PROVE  /\ IndexOf(items, uid) \in 0 .. Len(items)
           /\ IndexOf(items, uid) # 0 => items[IndexOf(items, uid)].uid = uid
           /\ IndexOf(items, uid) = 0 => \A i \in 1 .. Len(items) : items[i].uid # uid
<1> DEFINE I == {i \in 1 .. Len(items) : items[i].uid = uid}
<1>1. Len(items) \in Nat
    BY LenProperties
<1>2. IndexOf(items, uid) = IF I # {} THEN Min(I) ELSE 0
    BY DEF IndexOf, SelectInSeq
<1>3. CASE I = {}
    BY <1>1, <1>2, <1>3
<1>4. CASE I # {}
    <2> DEFINE R == OpToRel(<, Nat)
    <2>1. I \subseteq Nat
        BY <1>1
    <2>2. IsWellFoundedOn(R, Nat)
        BY NatLessThanWellFounded
    <2>3. \A x, y \in Nat : y < x => <<y, x>> \in R
        BY DEF OpToRel
    <2> HIDE DEF R, I
    <2>4. PICK m \in I : \A y \in I : ~ (<<y, m>> \in R)
        BY <1>4, <2>1, <2>2, WFMin
    <2>5. ASSUME NEW y \in I PROVE m <= y
        <3>1. ~ (<<y, m>> \in R)
            BY <2>4
        <3>2. m \in Nat /\ y \in Nat
            BY <2>1
        <3>3. ~ (y < m)
            BY <2>3, <3>1, <3>2
        <3> QED BY <3>2, <3>3
    <2>6. Min(I) \in I
        BY <2>5 DEF Min
    <2> QED BY <1>1, <1>2, <1>4, <2>6 DEF I
<1> QED BY <1>3, <1>4

\* ADDED and MODIFIED: the item takes the place of the one with its uid, or
\* comes at the end.
LEMMA UpdatedFacts ==
    ASSUME NEW items \in Seq(Item), NEW event,
           event.uid \in Objs, event.rv \in Versions
    PROVE  LET new == [uid |-> event.uid, ver |-> event.rv]
           IN  /\ Updated(items, event) \in Seq(Item)
               /\ Range(Updated(items, event)) \subseteq Range(items) \cup {new}
               /\ UniqueUids(items) =>
                     /\ Range(Updated(items, event)) =
                            {item \in Range(items) : item.uid # event.uid} \cup {new}
                     /\ UniqueUids(Updated(items, event))
<1> DEFINE new == [uid |-> event.uid, ver |-> event.rv]
           i == IndexOf(items, event.uid)
<1>1. new \in Item /\ new.uid = event.uid
    BY DEF Item
<1>2. /\ i \in 0 .. Len(items)
      /\ i # 0 => items[i].uid = event.uid
      /\ i = 0 => \A k \in 1 .. Len(items) : items[k].uid # event.uid
    BY IndexOfFacts
<1>3. Updated(items, event) = IF i # 0 THEN [items EXCEPT ![i] = new] ELSE Append(items, new)
    BY DEF Updated
<1>4. Len(items) \in Nat /\ DOMAIN items = 1 .. Len(items)
    BY LenProperties
<1> HIDE DEF new, i
<1>5. CASE i # 0
    <2> DEFINE up == [items EXCEPT ![i] = new]
    <2>1. i \in 1 .. Len(items)
        BY <1>2, <1>4, <1>5
    <2>2. /\ up \in Seq(Item)
          /\ Len(up) = Len(items)
          /\ \A j \in 1 .. Len(items) : up[j] = IF j = i THEN new ELSE items[j]
        BY <1>1, <2>1, ExceptSeq
    <2>3. DOMAIN up = 1 .. Len(items)
        BY <2>2, LenProperties
    <2> HIDE DEF up
    <2>4. Range(up) \subseteq Range(items) \cup {new}
        BY <1>4, <2>2, <2>3 DEF Range
    <2>5. ASSUME UniqueUids(items)
          PROVE  Range(up) = {item \in Range(items) : item.uid # event.uid} \cup {new}
        <3>1. \A j \in 1 .. Len(items) : j # i => items[j].uid # event.uid
            BY <1>2, <1>4, <1>5, <2>1, <2>5 DEF UniqueUids
        <3>2. new \in Range(up)
            BY <2>1, <2>2, <2>3 DEF Range
        <3>3. ASSUME NEW it \in Range(items), it.uid # event.uid PROVE it \in Range(up)
            BY <1>2, <1>4, <1>5, <2>2, <2>3, <3>3 DEF Range
        <3>4. ASSUME NEW it \in Range(up), it # new
              PROVE  it \in Range(items) /\ it.uid # event.uid
            BY <1>4, <2>2, <2>3, <3>1, <3>4 DEF Range
        <3> QED BY <3>2, <3>3, <3>4
    <2>6. ASSUME UniqueUids(items) PROVE UniqueUids(up)
        <3>1. \A j \in 1 .. Len(items) : up[j].uid = items[j].uid
            BY <1>1, <1>2, <1>5, <2>2
        <3> QED BY <1>4, <2>3, <2>6, <3>1 DEF UniqueUids
    <2> QED BY <1>3, <1>5, <2>2, <2>4, <2>5, <2>6 DEF up, new
<1>6. CASE i = 0
    <2> DEFINE up == Append(items, new)
    <2>2. /\ up \in Seq(Item)
          /\ Len(up) = Len(items) + 1
          /\ \A j \in 1 .. Len(items) : up[j] = items[j]
          /\ up[Len(items) + 1] = new
        BY <1>1, AppendProperties
    <2>3. DOMAIN up = 1 .. Len(items) + 1
        BY <2>2, LenProperties
    <2> HIDE DEF up
    <2>4. Range(up) \subseteq Range(items) \cup {new}
        BY <1>4, <2>2, <2>3 DEF Range
    <2>5. Range(up) = {item \in Range(items) : item.uid # event.uid} \cup {new}
        <3>2. new \in Range(up)
            BY <1>4, <2>2, <2>3 DEF Range
        <3>3. ASSUME NEW it \in Range(items) PROVE it \in Range(up) /\ it.uid # event.uid
            BY <1>2, <1>4, <1>6, <2>2, <2>3, <3>3 DEF Range
        <3> QED BY <2>4, <3>2, <3>3
    <2>6. ASSUME UniqueUids(items) PROVE UniqueUids(up)
        <3> SUFFICES ASSUME NEW j \in 1 .. Len(items) + 1, NEW k \in 1 .. Len(items) + 1,
                            up[j].uid = up[k].uid
                     PROVE  j = k
            BY <2>3 DEF UniqueUids
        <3>1. CASE j \in 1 .. Len(items) /\ k \in 1 .. Len(items)
            BY <1>4, <2>2, <2>6, <3>1 DEF UniqueUids
        <3>2. CASE j = Len(items) + 1 /\ k \in 1 .. Len(items)
            BY <1>1, <1>2, <1>6, <2>2, <3>2
        <3>3. CASE k = Len(items) + 1 /\ j \in 1 .. Len(items)
            BY <1>1, <1>2, <1>6, <2>2, <3>3
        <3> QED BY <1>4, <3>1, <3>2, <3>3
    <2> QED BY <1>3, <1>6, <2>2, <2>4, <2>5, <2>6 DEF up, new
<1> QED BY <1>5, <1>6

\* filter: the items but the one at i, in their order.
LEMMA RemoveAtFacts ==
    ASSUME NEW items \in Seq(Item), NEW i \in 1 .. Len(items)
    PROVE  /\ RemoveAt(items, i) \in Seq(Item)
           /\ Len(RemoveAt(items, i)) = Len(items) - 1
           /\ \A j \in 1 .. Len(items) - 1 :
                 RemoveAt(items, i)[j] = IF j < i THEN items[j] ELSE items[j + 1]
<1> DEFINE left == SubSeq(items, 1, i - 1)
           right == SubSeq(items, i + 1, Len(items))
           down == left \o right
<1>1. Len(items) \in Nat
    BY LenProperties
<1>2. \A k \in 1 .. Len(items) : items[k] \in Item
    BY ElementOfSeq
<1>3. /\ left \in Seq(Item)
      /\ Len(left) = i - 1
      /\ \A j \in 1 .. i - 1 : left[j] = items[j]
    <2>1. 1 \in Int /\ i - 1 \in Int /\ \A k \in 1 .. i - 1 : items[k] \in Item
        BY <1>1, <1>2
    <2>2. /\ left \in Seq(Item)
          /\ Len(left) = IF 1 <= i - 1 THEN i - 1 - 1 + 1 ELSE 0
          /\ \A j \in 1 .. i - 1 - 1 + 1 : left[j] = items[1 + j - 1]
        BY <2>1, SubSeqProperties
    <2> HIDE DEF left
    <2> QED BY <1>1, <2>2
<1>4. /\ right \in Seq(Item)
      /\ Len(right) = Len(items) - i
      /\ \A j \in 1 .. Len(items) - i : right[j] = items[i + j]
    <2>1. i + 1 \in Int /\ Len(items) \in Int /\ \A k \in i + 1 .. Len(items) : items[k] \in Item
        BY <1>1, <1>2
    <2>2. /\ right \in Seq(Item)
          /\ Len(right) = IF i + 1 <= Len(items) THEN Len(items) - (i + 1) + 1 ELSE 0
          /\ \A j \in 1 .. Len(items) - (i + 1) + 1 : right[j] = items[i + 1 + j - 1]
        BY <2>1, SubSeqProperties
    <2> HIDE DEF right
    <2>3. Len(right) = Len(items) - i
        BY <1>1, <2>2
    <2>4. ASSUME NEW j \in 1 .. Len(items) - i PROVE right[j] = items[i + j]
        <3>1. j \in 1 .. Len(items) - (i + 1) + 1 /\ i + 1 + j - 1 = i + j
            BY <1>1
        <3> QED BY <2>2, <3>1
    <2> QED BY <2>2, <2>3, <2>4
<1> HIDE DEF left, right
<1>5. /\ down \in Seq(Item)
      /\ Len(down) = Len(left) + Len(right)
      /\ \A j \in 1 .. Len(left) + Len(right) :
            down[j] = IF j <= Len(left) THEN left[j] ELSE right[j - Len(left)]
    BY <1>3, <1>4, ConcatProperties
<1> HIDE DEF down
<1>6. Len(down) = Len(items) - 1
    BY <1>1, <1>3, <1>4, <1>5
<1>7. ASSUME NEW j \in 1 .. Len(items) - 1, j < i PROVE down[j] = items[j]
    <2>1. j \in 1 .. Len(left) + Len(right) /\ j <= Len(left) /\ j \in 1 .. i - 1
        BY <1>1, <1>3, <1>4, <1>7
    <2>2. down[j] = left[j]
        BY <1>5, <2>1
    <2> QED BY <1>3, <2>1, <2>2
<1>8. ASSUME NEW j \in 1 .. Len(items) - 1, ~ (j < i) PROVE down[j] = items[j + 1]
    <2>1. j \in 1 .. Len(left) + Len(right) /\ ~ (j <= Len(left))
        BY <1>1, <1>3, <1>4, <1>8
    <2>2. down[j] = right[j - (i - 1)]
        BY <1>3, <1>5, <2>1
    <2>3. j - (i - 1) \in 1 .. Len(items) - i /\ i + (j - (i - 1)) = j + 1
        BY <1>1, <1>8
    <2> QED BY <1>4, <2>2, <2>3
<1>9. RemoveAt(items, i) = down
    BY DEF RemoveAt, down, left, right
<1> QED BY <1>5, <1>6, <1>7, <1>8, <1>9

\* DELETED: the item with the uid goes, the others stay.
LEMMA RemovedFacts ==
    ASSUME NEW items \in Seq(Item), NEW event
    PROVE  /\ Removed(items, event) \in Seq(Item)
           /\ Range(Removed(items, event)) \subseteq Range(items)
           /\ UniqueUids(items) =>
                 /\ Range(Removed(items, event)) = {item \in Range(items) : item.uid # event.uid}
                 /\ UniqueUids(Removed(items, event))
<1>1. PICK i \in 0 .. Len(items) :
         /\ i = IndexOf(items, event.uid)
         /\ i # 0 => items[i].uid = event.uid
         /\ i = 0 => \A k \in 1 .. Len(items) : items[k].uid # event.uid
    BY IndexOfFacts
<1>2. Removed(items, event) = IF i # 0 THEN RemoveAt(items, i) ELSE items
    BY <1>1 DEF Removed
<1>3. Len(items) \in Nat /\ DOMAIN items = 1 .. Len(items)
    BY LenProperties
<1>4. CASE i # 0
    <2>1. i \in 1 .. Len(items)
        BY <1>3, <1>4
    <2> DEFINE down == RemoveAt(items, i)
    <2>2. /\ down \in Seq(Item)
          /\ Len(down) = Len(items) - 1
          /\ \A j \in 1 .. Len(items) - 1 : down[j] = IF j < i THEN items[j] ELSE items[j + 1]
        BY <2>1, RemoveAtFacts
    <2>3. DOMAIN down = 1 .. Len(items) - 1
        BY <2>2, LenProperties
    <2> HIDE DEF down
    <2>4. Range(down) \subseteq Range(items)
        BY <1>3, <2>1, <2>2, <2>3 DEF Range
    <2>5. ASSUME UniqueUids(items)
          PROVE  Range(down) = {item \in Range(items) : item.uid # event.uid}
        <3>1. \A j \in 1 .. Len(items) : j # i => items[j].uid # event.uid
            BY <1>1, <1>3, <1>4, <2>1, <2>5 DEF UniqueUids
        <3>2. ASSUME NEW j \in 1 .. Len(items) - 1 PROVE down[j].uid # event.uid
            <4>1. CASE j < i
                BY <1>3, <2>1, <2>2, <3>1, <4>1
            <4>2. CASE ~ (j < i)
                <5>1. j + 1 \in 1 .. Len(items) /\ j + 1 # i /\ down[j] = items[j + 1]
                    BY <1>3, <2>1, <2>2, <4>2
                <5> QED BY <3>1, <5>1
            <4> QED BY <4>1, <4>2
        <3>3. ASSUME NEW k \in 1 .. Len(items), items[k].uid # event.uid
              PROVE  items[k] \in Range(down)
            <4>1. k # i
                BY <1>1, <1>4, <3>3
            <4>2. CASE k < i
                <5>1. k \in 1 .. Len(items) - 1 /\ down[k] = items[k]
                    BY <1>3, <2>1, <2>2, <4>2
                <5> QED BY <2>3, <5>1 DEF Range
            <4>3. CASE k > i
                <5>1. k - 1 \in 1 .. Len(items) - 1 /\ ~(k - 1 < i) /\ (k - 1) + 1 = k
                    BY <1>3, <2>1, <4>3
                <5>2. down[k - 1] = items[k]
                    BY <2>2, <5>1
                <5> QED BY <2>3, <5>1, <5>2 DEF Range
            <4> QED BY <1>3, <2>1, <4>1, <4>2, <4>3
        <3> QED BY <1>3, <2>3, <2>4, <3>2, <3>3 DEF Range
    <2>6. ASSUME UniqueUids(items) PROVE UniqueUids(down)
        <3> SUFFICES ASSUME NEW j \in 1 .. Len(items) - 1, NEW k \in 1 .. Len(items) - 1,
                            down[j].uid = down[k].uid
                     PROVE  j = k
            BY <2>3 DEF UniqueUids
        <3> DEFINE from(x) == IF x < i THEN x ELSE x + 1
        <3>1. from(j) \in 1 .. Len(items) /\ from(k) \in 1 .. Len(items)
            BY <1>3, <2>1
        <3>2. down[j] = items[from(j)] /\ down[k] = items[from(k)]
            BY <2>2
        <3>3. from(j) = from(k)
            BY <1>3, <2>6, <3>1, <3>2 DEF UniqueUids
        <3> QED BY <1>3, <2>1, <3>3
    <2> QED BY <1>2, <1>4, <2>2, <2>4, <2>5, <2>6 DEF down
<1>5. CASE i = 0
    <2>1. Removed(items, event) = items
        BY <1>2, <1>5
    <2>2. \A it \in Range(items) : it.uid # event.uid
        BY <1>1, <1>3, <1>5 DEF Range
    <2> QED BY <2>1, <2>2
<1> QED BY <1>4, <1>5

-----------------------------------------------------------------------------
(***************************************************************************)
(* The inductive invariant.                                                *)
(***************************************************************************)

\* A version changes one object: to that version, or it deletes it.  No
\* object has a version of the future.
ChangesOne(n, o) ==
    /\ hist[n][o] # hist[n - 1][o]
    /\ hist[n][o] \in {0, n}
    /\ \A x \in Objs \ {o} : hist[n][x] = hist[n - 1][x]

HistoryOK ==
    /\ \A n \in 1 .. Now : \A o \in Objs : hist[n][o] <= n
    /\ \A n \in 2 .. Now : \E o \in Objs : ChangesOne(n, o)

\* What a page in flight holds, whatever the server does meanwhile.
PageOK(page, n, after) ==
    /\ page \in List
    /\ page.rv = n /\ n \in 1 .. Now
    /\ Range(page.items) = {item \in Objects(n, LastOf(page)) : item.uid > after}
    /\ UniqueUids(page.items)
    /\ page.cont # NoToken => page.cont.rv = n /\ page.cont.after > after

FetchOK == fetch.at = "answered" => PageOK(fetch.list, fetch.list.rv, 0)

MoreOK ==
    /\ more.at \in {"asked", "answered"} => more.token \in Token /\ more.token.rv <= Now
    /\ more.at = "answered" => PageOK(more.list, more.token.rv, more.token.after)

\* The versions in the cached list exist; without damage it has one, and its
\* token is of the same snapshot.
CacheOK ==
    cache # NoList =>
        /\ cache.rv # Undef => cache.rv <= Now
        /\ cache.cont # NoToken => cache.cont.rv <= Now
        /\ ~damaged => cache.rv # Undef /\ (cache.cont # NoToken => cache.cont.rv = cache.rv)

\* A connection is never before the version it was made for.
ConnOK == conn # NoConn => conn.from <= conn.pos

\* A connection whose events reach the list is not ahead of it, and neither is a
\* key that has a callback: the next event is one the list has, or the very next
\* one.
NotAhead ==
    (cache # NoList /\ ~damaged) =>
        /\ Heard => conn.pos <= cache.rv
        /\ \A from \in HeardKeys : from # Undef => from <= cache.rv

\* ListIsASnapshot, with the objects told apart by their uids.
SnapshotOK ==
    (cache # NoList /\ ~damaged) =>
        /\ Range(cache.items) = Objects(cache.rv, LastOf(cache))
        /\ UniqueUids(cache.items)

IInv ==
    /\ TypeOK
    /\ HistoryOK
    /\ FetchOK
    /\ MoreOK
    /\ CacheOK
    /\ ConnOK
    /\ NotAhead
    /\ SnapshotOK

-----------------------------------------------------------------------------
(* The history of the server and what is read from it.                     *)

\* The constants and the history, as the provers use them.
LEMMA HistFacts ==
    ASSUME TypeOK
    PROVE  /\ NumObjs \in Nat \ {0} /\ Limit \in Nat \ {0} /\ MaxVersion \in Nat \ {0}
           /\ Now \in Nat \ {0} /\ Now <= MaxVersion
           /\ DOMAIN hist = 1 .. Now
           /\ \A n \in 1 .. Now : hist[n] \in [Objs -> 0 .. MaxVersion]
<1>1. hist \in Seq(Snapshot) /\ Now \in Versions
    BY DEF TypeOK
<1>2. \A n \in 1 .. Now : hist[n] \in Snapshot
    BY <1>1, ElementOfSeq DEF Now
<1>3. DOMAIN hist = 1 .. Now
    BY <1>1, LenProperties DEF Now
<1> QED BY <1>1, <1>2, <1>3, BoundsAssumption DEF Snapshot, Versions

\* What belongs to a snapshot, item by item.
LEMMA ObjectsFacts ==
    ASSUME TypeOK, NEW n \in 1 .. Now, NEW last \in 1 .. NumObjs
    PROVE  Objects(n, last) = {item \in Item : item.uid <= last /\ item.ver = hist[n][item.uid]}
<1>0. /\ NumObjs \in Nat \ {0} /\ MaxVersion \in Nat \ {0}
      /\ hist[n] \in [Objs -> 0 .. MaxVersion]
    BY HistFacts
<1>1. ASSUME NEW item \in Objects(n, last)
      PROVE  item \in Item /\ item.uid <= last /\ item.ver = hist[n][item.uid]
    <2>1. PICK o \in {x \in 1 .. last : hist[n][x] # 0} : item = [uid |-> o, ver |-> hist[n][o]]
        BY DEF Objects
    <2>2. o \in Objs /\ hist[n][o] \in Versions /\ o <= last
        BY <1>0, <2>1 DEF Objs, Versions
    <2> QED BY <2>1, <2>2 DEF Item
<1>2. ASSUME NEW item \in Item, item.uid <= last, item.ver = hist[n][item.uid]
      PROVE  item \in Objects(n, last)
    <2>1. item.uid \in 1 .. last /\ hist[n][item.uid] # 0
        BY <1>0, <1>2 DEF Item, Objs, Versions
    <2>2. item = [uid |-> item.uid, ver |-> hist[n][item.uid]]
        BY <1>2 DEF Item
    <2> QED BY <2>1, <2>2 DEF Objects
<1> QED BY <1>1, <1>2

\* The last object of a list is an object.
LEMMA LastOfFacts ==
    ASSUME NEW list \in List
    PROVE  LastOf(list) \in 1 .. NumObjs
<1>1. list.cont \in Token \cup {NoToken}
    BY DEF List
<1> QED BY <1>1, BoundsAssumption DEF LastOf, Token, Objs

\* Items of one snapshot that are told apart as values have different uids.
LEMMA InjectiveIsUnique ==
    ASSUME TypeOK, NEW n \in 1 .. Now, NEW last \in 1 .. NumObjs, NEW items,
           Range(items) \subseteq Objects(n, last)
    PROVE  IsInjective(items) <=> UniqueUids(items)
<1>1. \A i \in DOMAIN items : items[i] \in Item /\ items[i].ver = hist[n][items[i].uid]
    BY ObjectsFacts DEF Range
<1>2. ASSUME NEW i \in DOMAIN items, NEW j \in DOMAIN items, items[i].uid = items[j].uid
      PROVE  items[i] = items[j]
    BY <1>1, <1>2 DEF Item
<1> QED BY <1>2 DEF IsInjective, UniqueUids

\* The answer of the server.
LEMMA PagesFacts ==
    ASSUME TypeOK, NEW n \in 1 .. Now, NEW after \in 0 .. NumObjs, NEW page \in Pages(n, after)
    PROVE  PageOK(page, n, after)
<1>0. NumObjs \in Nat \ {0} /\ Limit \in Nat \ {0} /\ MaxVersion \in Nat \ {0}
      /\ Now \in Nat /\ Now <= MaxVersion
    BY HistFacts
<1>1. /\ page \in [items : SeqOf(Objects(n, NumObjs), Limit), rv : {n},
                   cont : [rv : {n}, after : Objs] \cup {NoToken}]
      /\ IsPage(page, n, after)
    BY DEF Pages
<1>2. n \in Versions
    BY <1>0 DEF Versions
<1>3. page.items \in Seq(Item)
    <2>1. PICK m \in 0 .. Limit : page.items \in [1 .. m -> Objects(n, NumObjs)]
        BY <1>1 DEF SeqOf
    <2>2. NumObjs \in 1 .. NumObjs
        BY <1>0
    <2>3. Objects(n, NumObjs) \subseteq Item
        BY <2>2, ObjectsFacts
    <2>4. m \in Nat /\ page.items \in [1 .. m -> Item]
        BY <1>0, <2>1, <2>3
    <2> QED BY <2>4, SeqDef
<1>4. page \in List
    <2>1. page.cont \in Token \cup {NoToken}
        BY <1>1, <1>2 DEF Token
    <2> QED BY <1>1, <1>2, <1>3, <2>1 DEF List
<1>5. UniqueUids(page.items)
    <2>1. Len(page.items) \in Nat /\ DOMAIN page.items = 1 .. Len(page.items)
        BY <1>3, LenProperties
    <2>2. ASSUME NEW i \in DOMAIN page.items PROVE page.items[i].uid \in Nat
        <3>1. page.items[i] \in Item
            BY <1>3, <2>1, ElementOfSeq
        <3> QED BY <1>0, <3>1 DEF Item, Objs
    <2>3. \A i, j \in DOMAIN page.items : i < j => page.items[i].uid < page.items[j].uid
        BY <1>1 DEF IsPage
    <2> SUFFICES ASSUME NEW i \in DOMAIN page.items, NEW j \in DOMAIN page.items,
                        page.items[i].uid = page.items[j].uid, i # j
                 PROVE  FALSE
        BY DEF UniqueUids
    <2>4. i < j \/ j < i
        BY <2>1
    <2>5. page.items[i].uid < page.items[j].uid \/ page.items[j].uid < page.items[i].uid
        BY <2>3, <2>4
    <2> QED BY <2>2, <2>5
<1>6. ASSUME page.cont # NoToken PROVE page.cont.rv = n /\ page.cont.after > after
    <2>1. page.cont.rv = n
        BY <1>1, <1>6
    <2>2. Len(page.items) = Limit /\ Last(page.items).uid = page.cont.after
        BY <1>1, <1>6 DEF IsPage
    <2>3. Last(page.items) \in Range(page.items)
        BY <1>0, <1>3, <2>2, LenProperties DEF Last, Range
    <2>4. Last(page.items).uid > after
        BY <1>1, <2>3 DEF IsPage
    <2> QED BY <2>1, <2>2, <2>4
<1> QED BY <1>1, <1>4, <1>5, <1>6 DEF PageOK, IsPage

\* The watch event of a version: what it says of its object, and that nothing
\* else has changed.
LEMMA EventFacts ==
    ASSUME TypeOK, HistoryOK, NEW n \in 2 .. Now
    PROVE  /\ EventOf(n).uid \in Objs
           /\ EventOf(n).rv = n
           /\ \A x \in Objs : x # EventOf(n).uid => hist[n][x] = hist[n - 1][x]
           /\ \/ EventOf(n).type = "DELETED" /\ hist[n][EventOf(n).uid] = 0
              \/ EventOf(n).type \in {"ADDED", "MODIFIED"} /\ hist[n][EventOf(n).uid] = n
           /\ EventOf(n) # ErrorEvent
<1>0. NumObjs \in Nat \ {0} /\ Now \in Nat /\ Undef \notin Nat
    BY HistFacts, BoundsAssumption
<1> DEFINE o == CHOOSE x \in Objs : hist[n][x] # hist[n - 1][x]
<1>1. PICK c \in Objs : ChangesOne(n, c)
    BY DEF HistoryOK
<1>2. o \in Objs /\ hist[n][o] # hist[n - 1][o]
    BY <1>1 DEF ChangesOne
<1>3. o = c
    BY <1>1, <1>2 DEF ChangesOne
<1>4. EventOf(n) = [type |-> CASE hist[n][o] = 0 -> "DELETED"
                               [] hist[n - 1][o] = 0 -> "ADDED"
                               [] OTHER -> "MODIFIED",
                    uid |-> o, rv |-> n]
    BY DEF EventOf
<1> HIDE DEF o
<1>5. EventOf(n).uid = o /\ EventOf(n).rv = n
    BY <1>4
<1>6. CASE hist[n][o] = 0
    <2>1. EventOf(n).type = "DELETED"
        BY <1>4, <1>2, <1>6
    <2> QED BY <1>0, <1>1, <1>2, <1>3, <1>5, <1>6, <2>1 DEF ChangesOne, ErrorEvent
<1>7. CASE hist[n][o] # 0
    <2>1. EventOf(n).type \in {"ADDED", "MODIFIED"}
        <3>1. CASE hist[n - 1][o] = 0
            BY <1>4, <1>7, <3>1
        <3>2. CASE hist[n - 1][o] # 0
            BY <1>4, <1>7, <3>2
        <3> QED BY <3>1, <3>2
    <2>2. hist[n][o] = n
        BY <1>1, <1>3, <1>7 DEF ChangesOne
    <2> QED BY <1>0, <1>1, <1>2, <1>3, <1>5, <2>1, <2>2 DEF ChangesOne, ErrorEvent
<1> QED BY <1>6, <1>7

-----------------------------------------------------------------------------
(* applyUpdate.                                                            *)

\* Whatever the list, and whether or not the event is skipped, it stays a list
\* with its token, and an item that is new has the version of the event.
LEMMA AppliedFacts ==
    ASSUME TypeOK, HistoryOK, NEW list \in List, NEW n \in 2 .. Now
    PROVE  /\ Applied(list, EventOf(n)) \in List
           /\ Applied(list, EventOf(n)).cont = list.cont
           /\ \/ /\ Applied(list, EventOf(n)) = list
                 /\ list.rv # Undef /\ n <= list.rv
              \/ /\ Applied(list, EventOf(n)).rv = n
                 /\ ~ (list.rv # Undef /\ n <= list.rv)
                 /\ \A item \in Range(Applied(list, EventOf(n)).items) :
                       item \in Range(list.items) \/ item.ver = n
                 /\ (list.rv = n - 1 /\ list.cont = NoToken
                     /\ Range(list.items) = Objects(n - 1, NumObjs) /\ UniqueUids(list.items)) =>
                       /\ Range(Applied(list, EventOf(n)).items) = Objects(n, NumObjs)
                       /\ UniqueUids(Applied(list, EventOf(n)).items)
<1> DEFINE event == EventOf(n)
           new == [uid |-> event.uid, ver |-> event.rv]
<1>1. /\ NumObjs \in Nat \ {0} /\ MaxVersion \in Nat \ {0} /\ Now \in Nat /\ Now <= MaxVersion
      /\ n \in Versions /\ n - 1 \in 1 .. Now /\ n \in 1 .. Now /\ Undef \notin Nat
      /\ NumObjs \in 1 .. NumObjs
      /\ hist[n] \in [Objs -> 0 .. MaxVersion] /\ hist[n - 1] \in [Objs -> 0 .. MaxVersion]
    BY HistFacts, BoundsAssumption DEF Versions
<1>2. /\ event.uid \in Objs
      /\ event.rv = n
      /\ \A x \in Objs : x # event.uid => hist[n][x] = hist[n - 1][x]
      /\ \/ event.type = "DELETED" /\ hist[n][event.uid] = 0
         \/ event.type \in {"ADDED", "MODIFIED"} /\ hist[n][event.uid] = n
    BY EventFacts
<1> HIDE DEF event
<1>3. list.items \in Seq(Item) /\ list.rv \in Versions \cup {Undef}
    BY DEF List
<1>4. Skips(list, event) <=> (list.rv # Undef /\ n <= list.rv)
    BY <1>1, <1>2 DEF Skips, Versions
<1>5. CASE Skips(list, event)
    BY <1>4, <1>5 DEF Applied, event
<1>6. CASE ~Skips(list, event) /\ event.type \in {"ADDED", "MODIFIED"}
    <2> DEFINE up == Updated(list.items, event)
    <2>1. Applied(list, event) = [list EXCEPT !.items = up, !.rv = n]
        BY <1>2, <1>6 DEF Applied
    <2>2. /\ up \in Seq(Item)
          /\ Range(up) \subseteq Range(list.items) \cup {new}
          /\ UniqueUids(list.items) =>
                /\ Range(up) = {item \in Range(list.items) : item.uid # event.uid} \cup {new}
                /\ UniqueUids(up)
        BY <1>1, <1>2, <1>3, UpdatedFacts
    <2> HIDE DEF up
    <2>3. /\ Applied(list, event) \in List
          /\ Applied(list, event).cont = list.cont
          /\ Applied(list, event).rv = n
          /\ Applied(list, event).items = up
        BY <1>1, <2>1, <2>2 DEF List
    <2>4. hist[n][event.uid] = n
        BY <1>2, <1>6
    <2>5. new \in Item /\ new.ver = n /\ new.uid = event.uid
        BY <1>1, <1>2 DEF Item
    <2>6. ASSUME Range(list.items) = Objects(n - 1, NumObjs), UniqueUids(list.items)
          PROVE  Range(up) = Objects(n, NumObjs)
        <3>1. Range(up) = {item \in Objects(n - 1, NumObjs) : item.uid # event.uid} \cup {new}
            BY <2>2, <2>6
        <3> HIDE DEF new
        <3>2. Objects(n - 1, NumObjs) =
                 {item \in Item : item.uid <= NumObjs /\ item.ver = hist[n - 1][item.uid]}
            BY <1>1, ObjectsFacts
        <3>3. Objects(n, NumObjs) =
                 {item \in Item : item.uid <= NumObjs /\ item.ver = hist[n][item.uid]}
            BY <1>1, ObjectsFacts
        <3>4. \A item \in Item : item.uid \in Objs /\ item.uid <= NumObjs
            BY <1>1 DEF Item, Objs
        <3>5. \A item \in Item : item.uid # event.uid => hist[n][item.uid] = hist[n - 1][item.uid]
            BY <1>2, <3>4
        <3>6. \A item \in Item : item.uid = event.uid =>
                 (item.ver = hist[n][item.uid] <=> item = new)
            BY <1>2, <2>4, <2>5 DEF Item, new
        <3> QED BY <2>5, <3>1, <3>2, <3>3, <3>4, <3>5, <3>6
    <2> QED BY <1>4, <1>6, <2>2, <2>3, <2>5, <2>6 DEF event
<1>7. CASE ~Skips(list, event) /\ event.type = "DELETED"
    <2> DEFINE down == Removed(list.items, event)
    <2>1. Applied(list, event) = [list EXCEPT !.items = down, !.rv = n]
        BY <1>2, <1>7 DEF Applied
    <2>2. /\ down \in Seq(Item)
          /\ Range(down) \subseteq Range(list.items)
          /\ UniqueUids(list.items) =>
                /\ Range(down) = {item \in Range(list.items) : item.uid # event.uid}
                /\ UniqueUids(down)
        BY <1>3, RemovedFacts
    <2> HIDE DEF down
    <2>3. /\ Applied(list, event) \in List
          /\ Applied(list, event).cont = list.cont
          /\ Applied(list, event).rv = n
          /\ Applied(list, event).items = down
        BY <1>1, <2>1, <2>2 DEF List
    <2>4. hist[n][event.uid] = 0
        BY <1>2, <1>7
    <2>6. ASSUME Range(list.items) = Objects(n - 1, NumObjs), UniqueUids(list.items)
          PROVE  Range(down) = Objects(n, NumObjs)
        <3>1. Range(down) = {item \in Objects(n - 1, NumObjs) : item.uid # event.uid}
            BY <2>2, <2>6
        <3>2. Objects(n - 1, NumObjs) =
                 {item \in Item : item.uid <= NumObjs /\ item.ver = hist[n - 1][item.uid]}
            BY <1>1, ObjectsFacts
        <3>3. Objects(n, NumObjs) =
                 {item \in Item : item.uid <= NumObjs /\ item.ver = hist[n][item.uid]}
            BY <1>1, ObjectsFacts
        <3>4. \A item \in Item : item.uid \in Objs /\ item.ver # 0
            BY <1>1 DEF Item, Versions
        <3>5. \A item \in Item : item.uid # event.uid => hist[n][item.uid] = hist[n - 1][item.uid]
            BY <1>2, <3>4
        <3>6. \A item \in Item : item.uid = event.uid => item.ver # hist[n][item.uid]
            BY <2>4, <3>4
        <3> QED BY <3>1, <3>2, <3>3, <3>4, <3>5, <3>6
    <2> QED BY <1>4, <1>7, <2>2, <2>3, <2>6 DEF event
<1> QED BY <1>2, <1>5, <1>6, <1>7

\* An ERROR event takes the version of the list and nothing else.
LEMMA ErrorFacts ==
    ASSUME NEW list \in List
    PROVE  /\ Applied(list, ErrorEvent) = [list EXCEPT !.rv = Undef]
           /\ Applied(list, ErrorEvent) \in List
           /\ Applied(list, ErrorEvent).items = list.items
           /\ Applied(list, ErrorEvent).cont = list.cont
           /\ Applied(list, ErrorEvent).rv = Undef
<1>1. ~ Skips(list, ErrorEvent)
    BY DEF Skips, ErrorEvent
<1>2. Applied(list, ErrorEvent) = [list EXCEPT !.items = list.items, !.rv = Undef]
    BY <1>1 DEF Applied, ErrorEvent
<1> QED BY <1>2 DEF List

-----------------------------------------------------------------------------
(* Init, and what a step leaves alone.                                     *)

LEMMA IdleFacts ==
    /\ Idle \in Request
    /\ [Idle EXCEPT !.at = "asked"] \in Request
    /\ Idle.at = "idle" /\ [Idle EXCEPT !.at = "asked"].at = "asked"
    BY DEF Idle, Request

LEMMA NullFacts ==
    /\ NoList \notin List /\ NoStream \notin Stream /\ NoToken \notin Token /\ NoConn \notin Conn
    /\ NoList.cont = NoToken /\ NoList.rv = 0 /\ NoList.items = <<>>
    /\ NoStream.at = "off" /\ NoStream.from = 0
    /\ 0 \notin Froms
<1>1. NoList.rv = 0 /\ NoList.cont = NoToken /\ NoList.items = <<>>
    BY DEF NoList
<1>2. NoStream.at = "off" /\ NoStream.from = 0 /\ NoConn.at = "none"
    BY DEF NoStream, NoConn
<1>3. NoToken.rv = 0
    BY DEF NoToken
<1>4. 0 \notin Versions \cup {Undef}
    BY BoundsAssumption DEF Versions
<1>5. NoList \notin List
    BY <1>1, <1>4 DEF List
<1>6. NoStream \notin Stream /\ NoConn \notin Conn
    BY <1>2 DEF Stream, Conn
<1>7. NoToken \notin Token
    BY <1>3, <1>4 DEF Token
<1> QED BY <1>1, <1>2, <1>4, <1>5, <1>6, <1>7 DEF Froms

LEMMA InitInv == Init => IInv
<1> SUFFICES ASSUME Init PROVE IInv
    OBVIOUS
<1>0. NumObjs \in Nat \ {0} /\ MaxVersion \in Nat \ {0}
      /\ MaxFetches \in Nat \ {0} /\ MaxCloses \in Nat \ {0}
    BY BoundsAssumption
<1>1. PICK held \in SUBSET Objs : hist = << [o \in Objs |-> IF o \in held THEN 1 ELSE 0] >>
    BY DEF Init
<1>2. [o \in Objs |-> IF o \in held THEN 1 ELSE 0] \in Snapshot
    BY <1>0 DEF Snapshot
<1>3. hist \in Seq(Snapshot) /\ Now = 1
    BY <1>1, <1>2 DEF Now
<1>4. TypeOK
    <2>1. damaged \in BOOLEAN
        BY Zenon DEF Init
    <2>2. /\ horizon \in 1 .. Now /\ Now \in Versions
          /\ fetches \in 0 .. MaxFetches /\ closes \in 0 .. MaxCloses
        BY <1>0, <1>3 DEF Init, Versions
    <2>3. fetch \in Request /\ more \in Request
        BY IdleFacts DEF Init
    <2> QED BY <1>3, <2>1, <2>2, <2>3 DEF Init, TypeOK
<1>5. HistoryOK
    BY <1>1, <1>3 DEF HistoryOK
<1>6. FetchOK /\ MoreOK
    BY IdleFacts DEF Init, FetchOK, MoreOK
<1>7. CacheOK /\ SnapshotOK
    BY DEF Init, CacheOK, SnapshotOK
<1>8. ConnOK /\ NotAhead
    BY DEF Init, ConnOK, NotAhead
<1> QED BY <1>4, <1>5, <1>6, <1>7, <1>8 DEF IInv

\* The parts of the invariant that a step of the browser leaves as they are.
LEMMA Frame ==
    ASSUME IInv, UNCHANGED hist
    PROVE  /\ Now' = Now
           /\ HistoryOK'
           /\ UNCHANGED fetch => FetchOK'
           /\ UNCHANGED more => MoreOK'
           /\ UNCHANGED cache /\ (damaged => damaged') => CacheOK' /\ SnapshotOK'
           /\ UNCHANGED conn => ConnOK'
           /\ UNCHANGED <<cache, damaged, stream, leaked, conn>> => NotAhead'
<1>1. Now' = Now
    BY DEF Now
<1>2. HistoryOK'
    BY <1>1 DEF IInv, HistoryOK, ChangesOne
<1>3. ASSUME NEW page, NEW n, NEW after, PageOK(page, n, after) PROVE PageOK(page, n, after)'
    BY <1>1, <1>3 DEF PageOK, Objects
<1>4. ASSUME UNCHANGED fetch PROVE FetchOK'
    BY <1>3, <1>4 DEF IInv, FetchOK
<1>5. ASSUME UNCHANGED more PROVE MoreOK'
    BY <1>1, <1>3, <1>5 DEF IInv, MoreOK
<1>6. ASSUME UNCHANGED cache, damaged => damaged' PROVE CacheOK' /\ SnapshotOK'
    BY <1>1, <1>6 DEF IInv, CacheOK, SnapshotOK, Objects, LastOf
<1>7. ASSUME UNCHANGED conn PROVE ConnOK'
    BY <1>7 DEF IInv, ConnOK
<1>8. ASSUME UNCHANGED <<cache, damaged, stream, leaked, conn>> PROVE NotAhead'
    BY <1>8 DEF IInv, NotAhead, Heard, HeardKeys
<1> QED BY <1>1, <1>2, <1>4, <1>5, <1>6, <1>7, <1>8

-----------------------------------------------------------------------------
(* The API server.                                                         *)

\* What a change adds to the history.
LEMMA ChangeFacts ==
    ASSUME TypeOK, HistoryOK, NEW o \in Objs, Change(o)
    PROVE  /\ hist' \in Seq(Snapshot)
           /\ Now' = Now + 1 /\ Now' \in Versions
           /\ \A n \in 1 .. Now : hist'[n] = hist[n]
           /\ hist'[Now + 1][o] # hist[Now][o]
           /\ hist'[Now + 1][o] \in {0, Now + 1}
           /\ \A x \in Objs \ {o} : hist'[Now + 1][x] = hist[Now][x]
<1>0. /\ NumObjs \in Nat \ {0} /\ MaxVersion \in Nat \ {0}
      /\ Now \in Nat \ {0} /\ Now <= MaxVersion /\ hist \in Seq(Snapshot)
      /\ hist[Now] \in [Objs -> 0 .. MaxVersion]
    BY HistFacts DEF TypeOK
<1>0a. Now < MaxVersion
    BY DEF Change
<1>1. ASSUME NEW v \in {0, Now + 1}, v # hist[Now][o],
             hist' = Append(hist, [hist[Now] EXCEPT ![o] = v])
      PROVE  /\ hist' \in Seq(Snapshot)
             /\ Now' = Now + 1 /\ Now' \in Versions
             /\ \A n \in 1 .. Now : hist'[n] = hist[n]
             /\ hist'[Now + 1][o] # hist[Now][o]
             /\ hist'[Now + 1][o] \in {0, Now + 1}
             /\ \A x \in Objs \ {o} : hist'[Now + 1][x] = hist[Now][x]
    <2> DEFINE snap == [hist[Now] EXCEPT ![o] = v]
    <2>1. snap \in Snapshot /\ snap[o] = v /\ \A x \in Objs \ {o} : snap[x] = hist[Now][x]
        BY <1>0, <1>0a DEF Snapshot
    <2> HIDE DEF snap
    <2>2. /\ hist' \in Seq(Snapshot)
          /\ Len(hist') = Len(hist) + 1
          /\ \A n \in 1 .. Len(hist) : hist'[n] = hist[n]
          /\ hist'[Len(hist) + 1] = snap
        BY <1>0, <1>1, <2>1, AppendProperties DEF snap
    <2>3. Now' = Now + 1 /\ Now' \in Versions
        BY <1>0, <1>0a, <2>2 DEF Now, Versions
    <2> QED BY <1>1, <2>1, <2>2, <2>3 DEF Now
<1>2. hist[Now][o] # Now + 1
    BY <1>0 DEF HistoryOK
<1> QED BY <1>1, <1>2 DEF Change

\* What was known of the past stays known.
LEMMA ChangeInv == ASSUME IInv, NEW o \in Objs, Change(o) PROVE IInv'
<1> USE DEF IInv
<1>0. /\ NumObjs \in Nat \ {0} /\ MaxVersion \in Nat \ {0} /\ Now \in Nat \ {0}
      /\ hist[Now] \in [Objs -> 0 .. MaxVersion]
    BY HistFacts
<1>1. /\ hist' \in Seq(Snapshot)
      /\ Now' = Now + 1 /\ Now' \in Versions
      /\ \A n \in 1 .. Now : hist'[n] = hist[n]
      /\ hist'[Now + 1][o] # hist[Now][o]
      /\ hist'[Now + 1][o] \in {0, Now + 1}
      /\ \A x \in Objs \ {o} : hist'[Now + 1][x] = hist[Now][x]
    BY ChangeFacts
<1>2. UNCHANGED <<horizon, cache, fetch, more, socket, stream, leaked, timers, conn, fetches, closes, damaged>>
    BY DEF Change, watch
<1>3. TypeOK'
    <2>1. horizon' \in 1 .. Now'
        BY <1>0, <1>1, <1>2 DEF TypeOK
    <2> QED BY <1>1, <1>2, <2>1 DEF TypeOK
<1>4. HistoryOK'
    <2>1. ASSUME NEW n \in 1 .. Now', NEW x \in Objs PROVE hist'[n][x] <= n
        <3>1. CASE n \in 1 .. Now
            BY <1>1, <3>1 DEF HistoryOK
        <3>2. CASE n = Now + 1
            <4>1. CASE x = o
                BY <1>0, <1>1, <3>2, <4>1
            <4>2. CASE x # o
                <5>1. hist'[n][x] = hist[Now][x] /\ hist[Now][x] <= Now /\ hist[Now][x] \in Nat
                    BY <1>0, <1>1, <3>2, <4>2 DEF HistoryOK
                <5> QED BY <1>0, <3>2, <5>1
            <4> QED BY <4>1, <4>2
        <3> QED BY <1>0, <1>1, <3>1, <3>2
    <2>2. ASSUME NEW n \in 2 .. Now' PROVE \E x \in Objs : ChangesOne(n, x)'
        <3>1. CASE n \in 2 .. Now
            <4>1. PICK x \in Objs : ChangesOne(n, x)
                BY <3>1 DEF HistoryOK
            <4>2. n \in 1 .. Now /\ n - 1 \in 1 .. Now
                BY <1>0, <3>1
            <4>3. hist'[n] = hist[n] /\ hist'[n - 1] = hist[n - 1]
                BY <1>1, <4>2
            <4>4. ChangesOne(n, x)'
                BY <4>1, <4>3 DEF ChangesOne
            <4> QED BY <4>4
        <3>2. CASE n = Now + 1
            <4>1. n - 1 = Now /\ hist'[Now] = hist[Now]
                BY <1>0, <1>1, <3>2
            <4>2. ChangesOne(n, o)'
                BY <1>1, <3>2, <4>1 DEF ChangesOne
            <4> QED BY <4>2
        <3> QED BY <1>0, <1>1, <3>1, <3>2
    <2> QED BY <2>1, <2>2 DEF HistoryOK
<1>5. ASSUME NEW page, NEW n, NEW after, PageOK(page, n, after) PROVE PageOK(page, n, after)'
    <2>1. n \in 1 .. Now
        BY <1>5 DEF PageOK
    <2>2. hist'[n] = hist[n] /\ n \in 1 .. Now'
        BY <1>0, <1>1, <2>1
    <2> QED BY <1>5, <2>2 DEF PageOK, Objects
<1>6. FetchOK'
    BY <1>2, <1>5 DEF FetchOK
<1>7. MoreOK'
    <2>1. more.token \in Token /\ more.token.rv <= Now => more.token.rv <= Now'
        BY <1>0, <1>1 DEF Token, Versions
    <2> QED BY <1>2, <1>5, <2>1 DEF MoreOK
<1>10. ConnOK' /\ NotAhead'
    BY <1>2 DEF ConnOK, NotAhead, Heard, HeardKeys
<1>8. CASE cache = NoList
    BY <1>2, <1>3, <1>4, <1>6, <1>7, <1>10, <1>8 DEF CacheOK, SnapshotOK
<1>9. CASE cache # NoList
    <2>1. cache \in List /\ cache.rv \in Versions \cup {Undef} /\ cache.cont \in Token \cup {NoToken}
        BY <1>9 DEF TypeOK, List
    <2>2. CacheOK'
        <3>1. cache.rv # Undef => cache.rv <= Now'
            BY <1>0, <1>1, <1>9, <2>1 DEF CacheOK, Versions
        <3>2. cache.cont # NoToken => cache.cont.rv <= Now'
            BY <1>0, <1>1, <1>9, <2>1 DEF CacheOK, Token, Versions
        <3> QED BY <1>2, <1>9, <3>1, <3>2 DEF CacheOK
    <2>3. SnapshotOK'
        <3> SUFFICES ASSUME ~damaged
                     PROVE  /\ Range(cache.items) = Objects(cache.rv, LastOf(cache))'
                            /\ UniqueUids(cache.items)
            BY <1>2 DEF SnapshotOK, LastOf
        <3>1. cache.rv \in 1 .. Now
            BY <1>9, <2>1 DEF CacheOK, Versions
        <3>2. hist'[cache.rv] = hist[cache.rv]
            BY <1>1, <3>1
        <3> QED BY <1>2, <1>9, <3>2 DEF SnapshotOK, Objects, LastOf
    <2> QED BY <1>3, <1>4, <1>6, <1>7, <1>10, <2>2, <2>3
<1> QED BY <1>8, <1>9

LEMMA CompactInv == ASSUME IInv, Compact PROVE IInv'
<1>0. Now \in Nat \ {0} /\ Now' = Now /\ HistoryOK' /\ TypeOK
    BY HistFacts, Frame DEF IInv, Compact
<1>1. horizon' = Now
      /\ UNCHANGED <<hist, cache, fetch, more, socket, stream, leaked, timers, conn, fetches, closes, damaged>>
    BY DEF Compact, watch
<1>2. TypeOK'
    BY <1>0, <1>1 DEF TypeOK
<1>3. FetchOK' /\ MoreOK' /\ CacheOK' /\ SnapshotOK' /\ ConnOK' /\ NotAhead'
    BY <1>1, Frame
<1> QED BY <1>0, <1>2, <1>3 DEF IInv

-----------------------------------------------------------------------------
(* The requests.                                                           *)

\* Steps that change one of the two requests only.
LEMMA RequestInv ==
    ASSUME IInv,
           UNCHANGED <<server, cache, watch, damaged>>,
           fetch' \in Request, more' \in Request, fetches' \in 0 .. MaxFetches,
           FetchOK', MoreOK'
    PROVE  IInv'
<1>1. UNCHANGED <<hist, horizon, socket, stream, leaked, timers, conn, closes>>
    BY DEF server, watch
<1>2. Now' = Now /\ HistoryOK' /\ CacheOK' /\ SnapshotOK' /\ ConnOK' /\ NotAhead'
    BY <1>1, Frame
<1>3. TypeOK'
    BY <1>1, <1>2 DEF IInv, TypeOK
<1> QED BY <1>2, <1>3 DEF IInv

LEMMA StartFetchInv == ASSUME IInv, StartFetch PROVE IInv'
<1>1. fetches' \in 0 .. MaxFetches
    BY BoundsAssumption DEF IInv, TypeOK, StartFetch
<1>2. fetch' \in Request /\ fetch'.at = "asked"
    BY IdleFacts DEF StartFetch
<1>3. more' \in Request
    BY DEF IInv, TypeOK, StartFetch
<1>4. FetchOK'
    BY <1>2 DEF FetchOK
<1>5. MoreOK'
    BY Frame DEF StartFetch, server
<1> QED BY <1>1, <1>2, <1>3, <1>4, <1>5, RequestInv DEF StartFetch

LEMMA AnswerFetchInv == ASSUME IInv, AnswerFetch PROVE IInv'
<1>0. TypeOK /\ UNCHANGED hist /\ 0 \in 0 .. NumObjs /\ Now \in 1 .. Now
    BY HistFacts DEF IInv, AnswerFetch, server
<1>1. PICK page \in Pages(Now, 0) : fetch' = [fetch EXCEPT !.at = "answered", !.list = page]
    BY DEF AnswerFetch
<1>2. PageOK(page, Now, 0)
    BY <1>0, PagesFacts
<1>3. page \in List /\ page.rv = Now
    BY <1>2 DEF PageOK
<1>4. fetch' \in Request /\ fetch'.list = page
    BY <1>0, <1>1, <1>3 DEF TypeOK, Request
<1>5. FetchOK'
    <2>1. PageOK(page, page.rv, 0)'
        BY <1>0, <1>2, <1>3 DEF PageOK, Objects, Now
    <2> QED BY <1>4, <2>1 DEF FetchOK
<1>6. MoreOK' /\ more' \in Request /\ fetches' \in 0 .. MaxFetches
    BY <1>0, Frame DEF AnswerFetch, TypeOK
<1> QED BY <1>4, <1>5, <1>6, RequestInv DEF AnswerFetch

LEMMA FetchFailsInv == ASSUME IInv, FetchFails PROVE IInv'
<1>1. fetch' \in Request /\ fetch'.at = "idle"
    BY IdleFacts DEF FetchFails
<1>2. FetchOK'
    BY <1>1 DEF FetchOK
<1>3. MoreOK' /\ more' \in Request /\ fetches' \in 0 .. MaxFetches
    BY Frame DEF FetchFails, server, IInv, TypeOK
<1> QED BY <1>1, <1>2, <1>3, RequestInv DEF FetchFails

LEMMA LoadMoreInv == ASSUME IInv, LoadMore PROVE IInv'
<1>0. TypeOK /\ UNCHANGED hist
    BY DEF IInv, LoadMore, server
<1>1. cache # NoList /\ cache \in List
    BY <1>0, NullFacts DEF LoadMore, TypeOK
<1>2. cache.cont \in Token /\ cache.cont.rv <= Now
    BY <1>1 DEF LoadMore, List, IInv, CacheOK
<1>3. more' \in Request /\ more'.at = "asked" /\ more'.token = cache.cont
    BY <1>2 DEF LoadMore, Idle, Request
<1>4. MoreOK'
    BY <1>0, <1>2, <1>3 DEF MoreOK, Now
<1>5. FetchOK' /\ fetch' \in Request /\ fetches' \in 0 .. MaxFetches
    BY <1>0, Frame DEF LoadMore, TypeOK
<1> QED BY <1>3, <1>4, <1>5, RequestInv DEF LoadMore

LEMMA AnswerMoreInv == ASSUME IInv, AnswerMore PROVE IInv'
<1>0. TypeOK /\ UNCHANGED hist /\ more.at = "asked"
    BY DEF IInv, AnswerMore, server
<1>1. FetchOK' /\ fetch' \in Request /\ fetches' \in 0 .. MaxFetches
    BY <1>0, Frame DEF AnswerMore, TypeOK
<1>2. more.token \in Token /\ more.token.rv <= Now
    BY <1>0 DEF IInv, MoreOK
<1>3. more.token.rv \in 1 .. Now /\ more.token.after \in 0 .. NumObjs
    BY <1>0, <1>2, HistFacts DEF Token, Versions, Objs
<1>4. CASE more' = [more EXCEPT !.at = "gone"]
    <2>1. more' \in Request /\ more'.at = "gone"
        BY <1>0, <1>4 DEF TypeOK, Request
    <2>2. MoreOK'
        BY <2>1 DEF MoreOK
    <2> QED BY <1>1, <2>1, <2>2, RequestInv DEF AnswerMore
<1>5. ASSUME NEW page \in Pages(more.token.rv, more.token.after),
             more' = [more EXCEPT !.at = "answered", !.list = page]
      PROVE  IInv'
    <2>1. PageOK(page, more.token.rv, more.token.after)
        BY <1>0, <1>3, PagesFacts
    <2>2. page \in List
        BY <2>1 DEF PageOK
    <2>3. more' \in Request /\ more'.list = page /\ more'.token = more.token
        BY <1>0, <1>5, <2>2 DEF TypeOK, Request
    <2>4. PageOK(page, more.token.rv, more.token.after)'
        BY <1>0, <2>1, <2>3 DEF PageOK, Objects, Now
    <2>5. MoreOK'
        BY <1>0, <1>2, <2>3, <2>4 DEF MoreOK, Now
    <2> QED BY <1>1, <2>3, <2>5, RequestInv DEF AnswerMore
<1> QED BY <1>4, <1>5 DEF AnswerMore

LEMMA MoreGoneInv == ASSUME IInv, MoreGone PROVE IInv'
<1>1. fetches' \in 0 .. MaxFetches
    BY BoundsAssumption DEF IInv, TypeOK, MoreGone
<1>2. fetch' \in Request /\ fetch'.at = "asked" /\ more' \in Request /\ more'.at = "idle"
    BY IdleFacts DEF MoreGone
<1>3. FetchOK' /\ MoreOK'
    BY <1>2 DEF FetchOK, MoreOK
<1> QED BY <1>1, <1>2, <1>3, RequestInv DEF MoreGone

LEMMA MoreFailsInv == ASSUME IInv, MoreFails PROVE IInv'
<1>1. more' \in Request /\ more'.at = "idle"
    BY IdleFacts DEF MoreFails
<1>2. MoreOK'
    BY <1>1 DEF MoreOK
<1>3. FetchOK' /\ fetch' \in Request /\ fetches' \in 0 .. MaxFetches
    BY Frame DEF MoreFails, server, IInv, TypeOK
<1> QED BY <1>1, <1>2, <1>3, RequestInv DEF MoreFails

\* What is known of the keys.
LEMMA KeyFacts ==
    ASSUME IInv
    PROVE  /\ HeardKeys \subseteq Froms
           /\ stream # NoStream => stream \in Stream /\ stream.from \in HeardKeys
           /\ conn # NoConn => conn \in Conn /\ conn.from \in Versions /\ conn.pos \in 0 .. MaxVersion
           /\ Froms = Versions \cup {Undef} /\ Undef \notin Nat /\ MaxVersion \in Nat
           /\ Versions \subseteq Nat
<1>1. /\ leaked \subseteq Froms
      /\ stream # NoStream => stream \in Stream
      /\ conn # NoConn => conn \in Conn
    BY DEF IInv, TypeOK
<1>2. stream # NoStream => stream.from \in Froms
    BY <1>1 DEF Stream
<1>3. HeardKeys \subseteq Froms /\ (stream # NoStream => stream.from \in HeardKeys)
    BY <1>1, <1>2 DEF HeardKeys
<1>4. conn # NoConn => conn.from \in Versions /\ conn.pos \in 0 .. MaxVersion
    BY <1>1 DEF Conn
<1>5. Undef \notin Nat /\ MaxVersion \in Nat /\ Versions \subseteq Nat
    BY BoundsAssumption DEF Versions
<1> QED BY <1>1, <1>3, <1>4, <1>5 DEF Froms

\* A list that no watch is ahead of when it is put into the cache.
LEMMA NewListNotAhead ==
    ASSUME IInv, UNCHANGED <<stream, leaked, conn>>, cache' \in List,
           cache'.rv \in Versions, damaged' \/ ~Damage(cache')
    PROVE  NotAhead'
<1> SUFFICES ASSUME ~damaged'
             PROVE  /\ Heard => conn.pos <= cache'.rv
                    /\ \A from \in HeardKeys : from # Undef => from <= cache'.rv
    BY DEF NotAhead, Heard, HeardKeys
<1>1. ~Damage(cache')
    OBVIOUS
<1>2. Heard => ~ (conn.pos > cache'.rv)
    BY <1>1 DEF Damage
<1>3. \A from \in HeardKeys : from # Undef => ~ (from > cache'.rv)
    BY <1>1 DEF Damage
<1>4. cache'.rv \in Nat /\ (Heard => conn.pos \in Nat)
    BY KeyFacts DEF Heard
<1>5. \A from \in HeardKeys : from # Undef => from \in Nat
    BY KeyFacts
<1> QED BY <1>2, <1>3, <1>4, <1>5

\* queryFn has its answer: the list of a snapshot from its first object.
LEMMA FetchDoneInv == ASSUME IInv, FetchDone PROVE IInv'
<1>0. /\ TypeOK /\ UNCHANGED <<hist, horizon, socket, stream, leaked, timers, conn, closes>> /\ Now' = Now /\ HistoryOK' /\ MoreOK'
      /\ MaxVersion \in Nat /\ Now \in Nat /\ Now <= MaxVersion
    BY Frame, HistFacts DEF IInv, FetchDone, server, watch
<1> DEFINE list == fetch.list
<1>1. PageOK(list, list.rv, 0)
    BY DEF FetchDone, IInv, FetchOK
<1>2. cache' = list /\ list \in List
    BY <1>1 DEF FetchDone, PageOK
<1>3. /\ list.rv \in 1 .. Now /\ list.rv \in Versions /\ list.rv # Undef
      /\ list.cont # NoToken => list.cont.rv = list.rv
    BY <1>0, <1>1, BoundsAssumption DEF PageOK, Versions
<1>4. fetch' \in Request /\ fetch'.at = "idle"
    BY IdleFacts DEF FetchDone
<1>5. damaged' = Damage(list)
    BY DEF FetchDone
<1> HIDE DEF list
<1>6. TypeOK'
    <2>1. damaged' \in BOOLEAN
        BY <1>5, Zenon DEF Damage
    <2> QED BY <1>0, <1>2, <1>4, <2>1 DEF FetchDone, TypeOK
<1>7. FetchOK'
    BY <1>4 DEF FetchOK
<1>8. CacheOK'
    BY <1>0, <1>2, <1>3 DEF CacheOK
<1>9. SnapshotOK'
    <2>1. LastOf(list) \in 1 .. NumObjs
        BY <1>2, LastOfFacts
    <2>2. \A item \in Objects(list.rv, LastOf(list)) : item.uid > 0
        BY <1>0, <1>3, <2>1, ObjectsFacts, BoundsAssumption DEF Item, Objs
    <2>3. Range(list.items) = Objects(list.rv, LastOf(list)) /\ UniqueUids(list.items)
        BY <1>1, <2>2 DEF PageOK
    <2> QED BY <1>0, <1>2, <2>3 DEF SnapshotOK, Objects, LastOf
<1>10. ConnOK' /\ NotAhead'
    BY <1>0, <1>2, <1>3, <1>5, Frame, NewListNotAhead
<1> QED BY <1>0, <1>6, <1>7, <1>8, <1>9, <1>10 DEF IInv

\* A page behind the list it was asked for completes the list up to its token.
LEMMA MoreDoneInv == ASSUME IInv, MoreDone PROVE IInv'
<1>0. /\ TypeOK /\ UNCHANGED <<hist, horizon, socket, stream, leaked, timers, conn, closes>> /\ Now' = Now /\ HistoryOK' /\ FetchOK'
      /\ MaxVersion \in Nat /\ Now \in Nat /\ Now <= MaxVersion /\ NumObjs \in Nat
    BY Frame, HistFacts DEF IInv, MoreDone, server, watch
<1> DEFINE page == more.list
           token == more.token
<1>1. PageOK(page, token.rv, token.after) /\ token \in Token
    BY DEF MoreDone, IInv, MoreOK
<1>2. page \in List /\ page.rv = token.rv /\ page.rv \in 1 .. Now /\ page.items \in Seq(Item)
    BY <1>1 DEF PageOK, List
<1>3. cache.items \in Seq(Item)
    <2>1. CASE cache = NoList
        BY <2>1, NullFacts, EmptySeq
    <2>2. CASE cache \in List
        BY <2>2 DEF List
    <2> QED BY <1>0, <2>1, <2>2 DEF TypeOK
<1> DEFINE all == cache.items \o page.items
<1>4. /\ all \in Seq(Item)
      /\ Range(all) = Range(cache.items) \cup Range(page.items)
      /\ Len(all) = Len(cache.items) + Len(page.items)
      /\ \A i \in 1 .. Len(cache.items) + Len(page.items) : all[i] =
            IF i <= Len(cache.items) THEN cache.items[i] ELSE page.items[i - Len(cache.items)]
    <2> HIDE DEF page
    <2>1. Range(all) = Range(cache.items) \cup Range(page.items)
        BY <1>2, <1>3, RangeConcatenation
    <2>2. /\ all \in Seq(Item)
          /\ Len(all) = Len(cache.items) + Len(page.items)
          /\ \A i \in 1 .. Len(cache.items) + Len(page.items) : all[i] =
                IF i <= Len(cache.items) THEN cache.items[i] ELSE page.items[i - Len(cache.items)]
        BY <1>2, <1>3, ConcatProperties
    <2> QED BY <2>1, <2>2
<1>5. cache' = [page EXCEPT !.items = all] /\ more' = Idle
      /\ damaged' = (damaged \/ cache.cont # token \/ Damage(page))
    BY DEF MoreDone, WithPage
<1> HIDE DEF page, token, all
<1>6. cache' \in List /\ cache'.items = all /\ cache'.rv = page.rv /\ cache'.cont = page.cont
    BY <1>2, <1>4, <1>5 DEF List
<1>7. more' \in Request /\ more'.at = "idle"
    BY <1>5, IdleFacts
<1>8. TypeOK'
    <2>1. damaged' \in BOOLEAN
        BY <1>5, Zenon DEF Damage
    <2> QED BY <1>0, <1>6, <1>7, <2>1 DEF MoreDone, TypeOK
<1>9. MoreOK'
    BY <1>7 DEF MoreOK
<1>10. page.rv \in Versions /\ page.rv # Undef
       /\ (page.cont # NoToken => page.cont.rv = page.rv /\ page.cont.after > token.after)
    BY <1>0, <1>1, <1>2, BoundsAssumption DEF PageOK, Versions
<1>11. CacheOK'
    BY <1>0, <1>2, <1>6, <1>10 DEF CacheOK
<1>12. ConnOK' /\ NotAhead'
    <2>1. Damage(cache') <=> Damage(page)
        BY <1>6 DEF Damage
    <2>2. damaged' \/ ~Damage(cache')
        BY <1>5, <2>1
    <2> QED BY <1>0, <1>6, <1>10, <2>2, Frame, NewListNotAhead
<1>13. SnapshotOK'
    <2> SUFFICES ASSUME ~damaged'
                 PROVE  /\ Range(all) = Objects(page.rv, LastOf(page))
                        /\ UniqueUids(all)
        BY <1>0, <1>6 DEF SnapshotOK, Objects, LastOf
    <2>1. ~damaged /\ cache.cont = token
        BY <1>5
    <2>2. token # NoToken /\ cache # NoList
        BY <1>1, <2>1, NullFacts
    <2>3. /\ Range(cache.items) = Objects(cache.rv, LastOf(cache)) /\ UniqueUids(cache.items)
          /\ cache.rv = page.rv /\ LastOf(cache) = token.after
        BY <1>2, <2>1, <2>2 DEF IInv, SnapshotOK, CacheOK, LastOf
    <2>4. LastOf(page) \in 1 .. NumObjs /\ token.after \in 1 .. NumObjs /\ token.after <= LastOf(page)
        <3>1. LastOf(page) \in 1 .. NumObjs /\ token.after \in 1 .. NumObjs
            BY <1>1, <1>2, LastOfFacts DEF Token, Objs
        <3>2. page.cont # NoToken => LastOf(page) = page.cont.after
            BY DEF LastOf
        <3>3. page.cont = NoToken => LastOf(page) = NumObjs
            BY DEF LastOf
        <3> QED BY <1>0, <1>10, <3>1, <3>2, <3>3
    <2>5. Range(page.items) = {item \in Objects(page.rv, LastOf(page)) : item.uid > token.after}
        BY <1>1, <1>2 DEF PageOK
    <2>6. Objects(page.rv, LastOf(page)) =
             {item \in Item : item.uid <= LastOf(page) /\ item.ver = hist[page.rv][item.uid]}
        BY <1>0, <1>2, <2>4, ObjectsFacts
    <2>7. Objects(page.rv, token.after) =
             {item \in Item : item.uid <= token.after /\ item.ver = hist[page.rv][item.uid]}
        BY <1>0, <1>2, <2>4, ObjectsFacts
    <2>8. \A item \in Item : item.uid \in Nat
        BY <1>0 DEF Item, Objs
    <2>9. Range(all) = Objects(page.rv, LastOf(page))
        BY <1>4, <2>3, <2>4, <2>5, <2>6, <2>7, <2>8
    <2>10. \A item \in Range(cache.items) : item.uid \in Nat /\ item.uid <= token.after
        BY <2>3, <2>7, <2>8
    <2>11. \A item \in Range(page.items) : item.uid \in Nat /\ item.uid > token.after
        BY <2>5, <2>6, <2>8
    <2>12. UniqueUids(page.items)
        BY <1>1 DEF PageOK
    <2>13. UniqueUids(all)
        <3>1. /\ Len(cache.items) \in Nat /\ DOMAIN cache.items = 1 .. Len(cache.items)
              /\ Len(page.items) \in Nat /\ DOMAIN page.items = 1 .. Len(page.items)
              /\ DOMAIN all = 1 .. Len(cache.items) + Len(page.items)
            BY <1>2, <1>3, <1>4, LenProperties
        <3> DEFINE L == Len(cache.items)
        <3>2. ASSUME NEW i \in DOMAIN all
              PROVE  \/ i \in DOMAIN cache.items /\ all[i] = cache.items[i]
                     \/ i > L /\ i - L \in DOMAIN page.items /\ all[i] = page.items[i - L]
            <4>0. i \in 1 .. Len(cache.items) + Len(page.items)
                BY <3>1
            <4>1. CASE i <= L
                <5>1. all[i] = cache.items[i]
                    BY <1>4, <4>0, <4>1
                <5>2. i \in 1 .. Len(cache.items)
                    BY <3>1, <4>0, <4>1
                <5> QED BY <3>1, <5>1, <5>2
            <4>2. CASE ~ (i <= L)
                <5>1. all[i] = page.items[i - L]
                    BY <1>4, <4>0, <4>2
                <5>2. \A l, k \in Nat : \A x \in 1 .. l + k : ~ (x <= l) => x > l /\ x - l \in 1 .. k
                    OBVIOUS
                <5>3. i > L /\ i - L \in 1 .. Len(page.items)
                    BY <3>1, <4>0, <4>2, <5>2
                <5> QED BY <3>1, <5>1, <5>3
            <4> QED BY <4>1, <4>2
        <3> SUFFICES ASSUME NEW i \in DOMAIN all, NEW j \in DOMAIN all, all[i].uid = all[j].uid
                     PROVE  i = j
            BY DEF UniqueUids
        <3>3. CASE i \in DOMAIN cache.items /\ all[i] = cache.items[i]
                   /\ j \in DOMAIN cache.items /\ all[j] = cache.items[j]
            BY <2>3, <3>3 DEF UniqueUids
        <3>4. CASE i \in DOMAIN cache.items /\ all[i] = cache.items[i]
                   /\ j - L \in DOMAIN page.items /\ all[j] = page.items[j - L]
            <4>1. all[i] \in Range(cache.items) /\ all[j] \in Range(page.items)
                BY <3>4 DEF Range
            <4>2. all[i].uid <= token.after /\ all[j].uid > token.after /\ all[i].uid \in Nat
                BY <2>10, <2>11, <4>1
            <4> QED BY <2>4, <4>2
        <3>5. CASE j \in DOMAIN cache.items /\ all[j] = cache.items[j]
                   /\ i - L \in DOMAIN page.items /\ all[i] = page.items[i - L]
            <4>1. all[j] \in Range(cache.items) /\ all[i] \in Range(page.items)
                BY <3>5 DEF Range
            <4>2. all[j].uid <= token.after /\ all[i].uid > token.after /\ all[j].uid \in Nat
                BY <2>10, <2>11, <4>1
            <4> QED BY <2>4, <4>2
        <3>6. CASE i - L \in DOMAIN page.items /\ all[i] = page.items[i - L]
                   /\ j - L \in DOMAIN page.items /\ all[j] = page.items[j - L]
            <4>1. i - L = j - L
                BY <2>12, <3>6 DEF UniqueUids
            <4> QED BY <3>1, <4>1
        <3> QED BY <3>2, <3>3, <3>4, <3>5, <3>6
    <2> QED BY <2>9, <2>13
<1> QED BY <1>0, <1>8, <1>9, <1>11, <1>12, <1>13 DEF IInv

-----------------------------------------------------------------------------
(* The watch.                                                              *)

\* Steps that change the socket, the subscriptions and the connection only.
LEMMA WatchInv ==
    ASSUME IInv,
           UNCHANGED <<server, cache, fetch, more, fetches>>,
           socket' \in {"closed", "connecting", "open"}, closes' \in 0 .. MaxCloses,
           stream' \in Stream \cup {NoStream}, leaked' \subseteq Froms, timers' \subseteq Froms,
           conn' \in Conn \cup {NoConn}, damaged' \in BOOLEAN, damaged => damaged',
           ConnOK', NotAhead'
    PROVE  IInv'
<1>1. UNCHANGED <<hist, horizon>>
    BY DEF server
<1>2. Now' = Now /\ HistoryOK' /\ FetchOK' /\ MoreOK' /\ CacheOK' /\ SnapshotOK'
    BY <1>1, Frame
<1>3. TypeOK'
    BY <1>1, <1>2 DEF IInv, TypeOK
<1> QED BY <1>2, <1>3 DEF IInv

\* No key is heard that was not, and the connection stays or ends.
LEMMA FewerKeys ==
    ASSUME IInv, UNCHANGED cache, damaged => damaged', HeardKeys' \subseteq HeardKeys,
           conn' \in {conn, NoConn}
    PROVE  conn' \in Conn \cup {NoConn} /\ ConnOK' /\ NotAhead'
<1>1. conn' \in Conn \cup {NoConn} /\ ConnOK'
    BY DEF IInv, TypeOK, ConnOK
<1>2. Heard' => Heard /\ conn' = conn
    BY DEF Heard
<1> QED BY <1>1, <1>2 DEF IInv, NotAhead

\* A REQUEST: the connection stays, or a new one starts at the version of one of
\* the keys.
LEMMA RequestForFacts ==
    ASSUME IInv, NEW keys \in SUBSET Froms, RequestFor(keys)
    PROVE  /\ conn' \in Conn \cup {NoConn}
           /\ ConnOK'
           /\ \/ conn' = conn
              \/ conn' # NoConn /\ conn'.from \in keys /\ conn'.from # Undef /\ conn'.pos = conn'.from
<1>1. ASSUME NEW from \in keys, from # Undef, conn' = Served(from)
      PROVE  conn' \in Conn /\ conn'.from = from /\ conn'.pos = from
    <2>1. from \in Versions /\ from \in 0 .. MaxVersion
        BY <1>1, KeyFacts DEF Versions
    <2>2. conn' = [at |-> IF from < horizon THEN "expired" ELSE "live", from |-> from, pos |-> from]
        BY <1>1 DEF Served
    <2> QED BY <2>1, <2>2 DEF Conn
<1>2. ASSUME NEW from \in keys, from = Undef PROVE Served(from) = NoConn
    BY <1>2 DEF Served
<1>3. CASE conn' = conn
    BY <1>3 DEF IInv, TypeOK, ConnOK
<1>4. CASE conn' # conn
    <2>1. PICK from \in keys : conn' = Served(from) /\ from # Undef
        BY <1>2, <1>4 DEF RequestFor
    <2>2. conn' \in Conn /\ conn'.from = from /\ conn'.pos = from /\ from \in Nat
        BY <1>1, <2>1, KeyFacts
    <2> QED BY <2>1, <2>2, NullFacts DEF ConnOK
<1> QED BY <1>3, <1>4

\* The subscriptions stay, and a REQUEST goes out for active keys.
LEMMA RequestNotAhead ==
    ASSUME IInv, UNCHANGED <<cache, damaged>>, HeardKeys' = HeardKeys,
           NEW keys \in SUBSET Froms, RequestFor(keys)
    PROVE  conn' \in Conn \cup {NoConn} /\ ConnOK' /\ NotAhead'
<1>1. /\ conn' \in Conn \cup {NoConn} /\ ConnOK'
      /\ \/ conn' = conn
         \/ conn' # NoConn /\ conn'.from \in keys /\ conn'.from # Undef /\ conn'.pos = conn'.from
    BY RequestForFacts
<1>2. NotAhead'
    BY <1>1 DEF IInv, NotAhead, Heard
<1> QED BY <1>1, <1>2

\* The effect subscribes from the version of the list, so never ahead of it; a
\* connection that has run ahead is what JoinsLate tells.
LEMMA WatchEffectInv == ASSUME IInv, WatchEffect PROVE IInv'
<1>0. /\ TypeOK /\ damaged \in BOOLEAN /\ UNCHANGED <<server, cache, fetch, more, fetches, closes>>
      /\ closes' \in 0 .. MaxCloses
    BY DEF WatchEffect, IInv, TypeOK
<1>1. damaged' \in BOOLEAN /\ (damaged => damaged') /\ (JoinsLate => damaged')
    BY <1>0, Zenon DEF WatchEffect, JoinsLate
<1>2. leaked' \subseteq leaked \cup HeardKeys /\ leaked' \subseteq Froms /\ timers' \subseteq Froms
    <2>1. stream # NoStream => stream.from \in HeardKeys /\ stream.from \in Froms
        BY KeyFacts
    <2>2. stream.at = "kept" => stream # NoStream
        BY NullFacts
    <2>3. leaked \subseteq Froms /\ timers \subseteq Froms
        BY <1>0 DEF TypeOK
    <2>4. Cleanup
        BY DEF WatchEffect
    <2> QED BY <2>1, <2>2, <2>3, <2>4 DEF Cleanup
<1>3. leaked' \subseteq HeardKeys
    BY <1>2 DEF HeardKeys
<1>4. CASE WatchFrom = 0
    <2>1. stream' = NoStream /\ UNCHANGED <<socket, conn>>
        BY <1>4, NullFacts DEF WatchEffect
    <2>2. HeardKeys' \subseteq HeardKeys
        BY <1>3, <2>1 DEF HeardKeys
    <2>3. conn' \in Conn \cup {NoConn} /\ ConnOK' /\ NotAhead'
        BY <1>0, <1>1, <2>1, <2>2, FewerKeys
    <2>4. socket' \in {"closed", "connecting", "open"} /\ stream' \in Stream \cup {NoStream}
        BY <1>0, <2>1 DEF TypeOK
    <2> QED BY <1>0, <1>1, <1>2, <2>3, <2>4, WatchInv
<1>5. CASE WatchFrom # 0
    <2>1. WatchFrom = cache.rv /\ cache \in List /\ cache.rv \in Froms
        BY <1>0, <1>5, NullFacts DEF WatchFrom, TypeOK, List, Froms
    <2>2. Subscribe(cache.rv)
        BY <1>5, <2>1 DEF WatchEffect
    <2>3. /\ socket' \in {"closed", "connecting", "open"}
          /\ stream' \in Stream /\ stream'.from = cache.rv
          /\ conn' = conn \/ RequestFor({cache.rv})
        BY <1>0, <2>1, <2>2 DEF Subscribe, Stream, TypeOK
    <2>4. HeardKeys' \subseteq HeardKeys \cup {cache.rv}
        BY <1>3, <2>3 DEF HeardKeys
    <2>5. /\ conn' \in Conn \cup {NoConn} /\ ConnOK'
          /\ conn' = conn \/ (conn' # NoConn /\ conn'.from = cache.rv /\ conn'.pos = cache.rv)
        <3>1. CASE conn' = conn
            BY <3>1, <1>0 DEF TypeOK, IInv, ConnOK
        <3>2. CASE RequestFor({cache.rv})
            BY <2>1, <3>2, RequestForFacts
        <3> QED BY <2>3, <3>1, <3>2
    <2>6. NotAhead'
        <3> SUFFICES ASSUME ~damaged'
                     PROVE  /\ Heard' => conn'.pos <= cache.rv
                            /\ \A from \in HeardKeys' : from # Undef => from <= cache.rv
            BY <1>0 DEF NotAhead
        <3>1. ~damaged /\ ~JoinsLate
            BY <1>1
        <3>2. cache # NoList /\ cache.rv \in Nat
            BY <2>1, <3>1, NullFacts, KeyFacts DEF IInv, CacheOK
        <3>3. (Heard => conn.pos <= cache.rv) /\ \A from \in HeardKeys : from # Undef => from <= cache.rv
            BY <3>1, <3>2 DEF IInv, NotAhead
        <3>4. ASSUME Heard' PROVE conn'.pos <= cache.rv
            <4>1. CASE conn' # NoConn /\ conn'.from = cache.rv /\ conn'.pos = cache.rv
                BY <3>2, <4>1
            <4>2. CASE conn' = conn /\ conn.from \in HeardKeys
                BY <3>3, <3>4, <4>2 DEF Heard
            <4>3. CASE conn' = conn /\ conn.from = cache.rv
                <5>1. conn # NoConn /\ conn.pos \in Nat
                    BY <3>4, <4>3, KeyFacts DEF Heard
                <5>2. ~ (conn.pos > cache.rv)
                    BY <2>1, <3>1, <4>3, <5>1 DEF JoinsLate
                <5> QED BY <3>2, <4>3, <5>1, <5>2
            <4> QED BY <2>4, <2>5, <3>4, <4>1, <4>2, <4>3 DEF Heard
        <3> QED BY <2>4, <3>2, <3>3, <3>4
    <2> QED BY <1>0, <1>1, <1>2, <2>3, <2>5, <2>6, WatchInv
<1> QED BY <1>4, <1>5

LEMMA SocketInv ==
    ASSUME IInv, OthersSubscribe \/ SocketOpens \/ SocketFails \/ SocketCloses
    PROVE  IInv'
<1>1. /\ TypeOK /\ UNCHANGED <<server, cache, fetch, more, stream, leaked, timers, fetches, damaged>>
      /\ socket' \in {"closed", "connecting", "open"}
    BY DEF OthersSubscribe, SocketOpens, SocketFails, SocketCloses, IInv
<1>2. closes' \in 0 .. MaxCloses
    BY <1>1, BoundsAssumption DEF OthersSubscribe, SocketOpens, SocketFails, SocketCloses, TypeOK
<1>3. HeardKeys' = HeardKeys
    BY <1>1 DEF HeardKeys
<1>4. conn' \in Conn \cup {NoConn} /\ ConnOK' /\ NotAhead'
    <2>1. CASE SocketOpens
        <3>1. HeardKeys \cup timers \in SUBSET Froms
            BY <1>1, KeyFacts DEF TypeOK
        <3>2. RequestFor(HeardKeys \cup timers)
            BY <2>1 DEF SocketOpens
        <3> QED BY <1>1, <1>3, <3>1, <3>2, RequestNotAhead
    <2>2. CASE OthersSubscribe \/ SocketFails \/ SocketCloses
        <3>1. conn' \in {conn, NoConn}
            BY <2>2 DEF OthersSubscribe, SocketFails, SocketCloses
        <3> QED BY <1>1, <1>3, <3>1, FewerKeys
    <2> QED BY <2>1, <2>2
<1> QED BY <1>1, <1>2, <1>4, WatchInv DEF TypeOK

\* What the promise of subscribe brings.
LEMMA SubscribeInv == ASSUME IInv, SubscribeResolves \/ SubscribeRejected PROVE IInv'
<1>1. /\ TypeOK /\ UNCHANGED <<server, cache, fetch, more, socket, leaked, timers, fetches, closes, damaged>>
      /\ stream.at = "waiting"
    BY DEF SubscribeResolves, SubscribeRejected, IInv
<1>2. stream # NoStream /\ stream \in Stream
    BY <1>1, NullFacts, KeyFacts
<1>3. stream' \in Stream /\ stream'.from = stream.from
    BY <1>2 DEF SubscribeResolves, SubscribeRejected, Stream
<1>4. HeardKeys' = HeardKeys
    BY <1>1, <1>2, <1>3, NullFacts DEF HeardKeys
<1>5. conn' \in Conn \cup {NoConn} /\ ConnOK' /\ NotAhead'
    <2>1. CASE SubscribeResolves
        <3>1. {stream.from} \in SUBSET Froms /\ RequestFor({stream.from})
            BY <1>2, <2>1, KeyFacts DEF SubscribeResolves
        <3> QED BY <1>1, <1>4, <3>1, RequestNotAhead
    <2>2. CASE SubscribeRejected
        <3>1. conn' \in {conn, NoConn}
            BY <2>2 DEF SubscribeRejected
        <3> QED BY <1>1, <1>4, <3>1, FewerKeys
    <2> QED BY <2>1, <2>2
<1> QED BY <1>1, <1>3, <1>5, WatchInv DEF TypeOK

\* The ends of a connection.
LEMMA EndInv == ASSUME IInv, WatchEnds \/ \E from \in Froms : Timeout(from) PROVE IInv'
<1>1. /\ TypeOK /\ UNCHANGED <<server, cache, fetch, more, socket, stream, leaked, fetches, closes, damaged>>
      /\ timers' \subseteq timers /\ conn' \in {conn, NoConn}
    BY DEF WatchEnds, Timeout, IInv
<1>2. HeardKeys' \subseteq HeardKeys
    BY <1>1 DEF HeardKeys
<1>3. conn' \in Conn \cup {NoConn} /\ ConnOK' /\ NotAhead'
    BY <1>1, <1>2, FewerKeys
<1> QED BY <1>1, <1>3, WatchInv DEF TypeOK

-----------------------------------------------------------------------------
(* The messages.                                                           *)

\* A message while nothing is cached, or for a key without callbacks, changes
\* nothing.
LEMMA MessageUnheard ==
    ASSUME IInv, Message, cache = NoList \/ ~Heard
    PROVE  cache' = cache /\ damaged' = damaged
<1>1. cache' = cache
    BY DEF Message
<1>2. damaged \in BOOLEAN
    BY DEF IInv, TypeOK
<1> QED BY <1>1, <1>2, Zenon DEF Message

\* The ERROR event of a watch that has expired damages the list.
LEMMA MessageExpired ==
    ASSUME IInv, Message, cache # NoList, Heard, conn.at = "expired"
    PROVE  cache' \in List /\ cache'.items = cache.items /\ cache'.rv = Undef
           /\ cache'.cont = cache.cont /\ damaged' = TRUE
<1>1. cache \in List /\ damaged \in BOOLEAN
    BY DEF IInv, TypeOK
<1>2. NextEvent = ErrorEvent
    BY DEF NextEvent
<1>3. cache' = Applied(cache, ErrorEvent)
      /\ damaged' = (damaged \/ (cache' # cache /\ (ErrorEvent = ErrorEvent \/ cache.cont # NoToken)))
    BY <1>2 DEF Message
<1>4. cache' \in List /\ cache'.items = cache.items /\ cache'.rv = Undef /\ cache'.cont = cache.cont
    BY <1>1, <1>3, ErrorFacts
<1>5. damaged \/ cache' # cache
    BY <1>4 DEF IInv, CacheOK
<1>6. damaged' = TRUE
    BY <1>3, <1>5, <1>1, Zenon
<1> QED BY <1>4, <1>6

\* An event of a live watch is one the list has already, or it takes the list
\* to the version of the event, which is the next one when nothing is damaged.
LEMMA MessageLive ==
    ASSUME IInv, Message, cache # NoList, Heard, conn.at # "expired"
    PROVE  /\ conn.at = "live" /\ conn.pos + 1 \in 2 .. Now
           /\ cache' \in List /\ cache'.cont = cache.cont
           /\ \/ cache' = cache /\ damaged' = damaged /\ cache.rv # Undef /\ conn.pos + 1 <= cache.rv
              \/ /\ cache'.rv = conn.pos + 1
                 /\ ~damaged' => ~damaged
                 /\ ~damaged => \A item \in Range(cache'.items) :
                                   item \in Range(cache.items) \/ item.ver > cache.rv
                 /\ ~damaged' => /\ cache.cont = NoToken /\ cache.rv = conn.pos
                                 /\ Range(cache'.items) = Objects(conn.pos + 1, NumObjs)
                                 /\ UniqueUids(cache'.items)
<1> DEFINE n == conn.pos + 1
<1>0. /\ cache \in List /\ damaged \in BOOLEAN /\ TypeOK /\ HistoryOK
      /\ cache.rv \in Versions \cup {Undef}
    BY DEF IInv, TypeOK, List
<1>1. /\ conn # NoConn /\ conn.from \in Versions /\ conn.pos \in Nat
      /\ Now \in Nat /\ Undef \notin Nat /\ MaxVersion \in Nat /\ Versions \subseteq Nat
    BY <1>0, KeyFacts, HistFacts DEF Heard
<1>2. conn.at = "live" /\ conn.pos < Now
    BY DEF Message, MayDeliver
<1>3. n \in 2 .. Now
    <2>1. conn.from <= conn.pos /\ conn.from >= 1 /\ conn.from \in Nat
        BY <1>1 DEF IInv, ConnOK, Versions
    <2> QED BY <1>1, <1>2, <2>1
<1>4. NextEvent = EventOf(n)
    BY <1>2 DEF NextEvent
<1>5. EventOf(n) # ErrorEvent
    BY <1>0, <1>3, EventFacts
<1>6. cache' = Applied(cache, EventOf(n))
      /\ damaged' = (damaged \/ (cache' # cache /\ (EventOf(n) = ErrorEvent \/ cache.cont # NoToken)))
    BY <1>4 DEF Message
<1> HIDE DEF n
<1>7. /\ cache' \in List
      /\ cache'.cont = cache.cont
      /\ \/ /\ cache' = cache
            /\ cache.rv # Undef /\ n <= cache.rv
         \/ /\ cache'.rv = n
            /\ ~ (cache.rv # Undef /\ n <= cache.rv)
            /\ \A item \in Range(cache'.items) : item \in Range(cache.items) \/ item.ver = n
            /\ (cache.rv = n - 1 /\ cache.cont = NoToken
                /\ Range(cache.items) = Objects(n - 1, NumObjs) /\ UniqueUids(cache.items)) =>
                  /\ Range(cache'.items) = Objects(n, NumObjs)
                  /\ UniqueUids(cache'.items)
    BY <1>0, <1>3, <1>6, AppliedFacts
<1>8. CASE cache' = cache /\ cache.rv # Undef /\ n <= cache.rv
    <2>1. ~ (cache' # cache)
        BY <1>8
    <2>2. damaged' = damaged
        BY <1>0, <1>6, <2>1, Zenon
    <2> QED BY <1>2, <1>3, <1>7, <1>8, <2>2 DEF n
<1>9. CASE /\ cache'.rv = n
           /\ ~ (cache.rv # Undef /\ n <= cache.rv)
           /\ \A item \in Range(cache'.items) : item \in Range(cache.items) \/ item.ver = n
           /\ (cache.rv = n - 1 /\ cache.cont = NoToken
               /\ Range(cache.items) = Objects(n - 1, NumObjs) /\ UniqueUids(cache.items)) =>
                 /\ Range(cache'.items) = Objects(n, NumObjs)
                 /\ UniqueUids(cache'.items)
    <2>1. ~damaged' => ~damaged
        BY <1>6, Zenon
    <2>2. ~damaged => cache.rv \in Nat /\ n > cache.rv /\ cache.rv = conn.pos /\ n - 1 = conn.pos
        <3> SUFFICES ASSUME ~damaged
                     PROVE  cache.rv \in Nat /\ n > cache.rv /\ cache.rv = conn.pos /\ n - 1 = conn.pos
            OBVIOUS
        <3>1. cache.rv # Undef /\ conn.pos <= cache.rv
            BY DEF IInv, CacheOK, NotAhead
        <3>2. cache.rv \in Nat
            BY <1>0, <1>1, <3>1
        <3> QED BY <1>1, <1>3, <1>9, <3>1, <3>2 DEF n
    <2>3. ~damaged => \A item \in Range(cache'.items) :
                         item \in Range(cache.items) \/ item.ver > cache.rv
        BY <1>9, <2>2
    <2>4. ASSUME ~damaged'
          PROVE  /\ cache.cont = NoToken /\ cache.rv = conn.pos
                 /\ Range(cache'.items) = Objects(n, NumObjs)
                 /\ UniqueUids(cache'.items)
        <3>1. cache' # cache
            BY <1>3, <1>9, <2>1, <2>2, <2>4
        <3>2. cache.cont = NoToken
            BY <1>6, <2>4, <3>1, Zenon
        <3>3. Range(cache.items) = Objects(cache.rv, NumObjs) /\ UniqueUids(cache.items)
            BY <2>1, <2>4, <3>2 DEF IInv, SnapshotOK, LastOf
        <3> QED BY <1>9, <2>1, <2>2, <2>4, <3>2, <3>3
    <2> QED BY <1>2, <1>3, <1>7, <1>9, <2>1, <2>3, <2>4 DEF n
<1> QED BY <1>7, <1>8, <1>9

\* The list and the connection after a message.
LEMMA MessageInv == ASSUME IInv, Message PROVE IInv'
<1>0. /\ TypeOK /\ cache \in List \cup {NoList} /\ damaged \in BOOLEAN
      /\ UNCHANGED <<hist, horizon, fetch, more, socket, stream, leaked, timers, fetches, closes>>
      /\ Now \in Nat /\ Now <= MaxVersion /\ MaxVersion \in Nat /\ Undef \notin Nat
    BY HistFacts, BoundsAssumption DEF Message, server, IInv, TypeOK
<1>1. Now' = Now /\ HistoryOK' /\ FetchOK' /\ MoreOK'
    BY <1>0, Frame
<1>2. HeardKeys' = HeardKeys
    BY <1>0 DEF HeardKeys
<1>3. conn # NoConn
    BY DEF Message, MayDeliver, NoConn
<1>4. /\ conn' \in Conn \cup {NoConn} /\ ConnOK'
      /\ conn' = NoConn \/ (/\ conn.at # "expired" /\ conn'.from = conn.from /\ conn'.pos = conn.pos + 1
                            /\ conn.pos + 1 \in Nat)
    <2>1. CASE conn.at = "expired"
        BY <2>1 DEF Message, Advanced, ConnOK
    <2>2. CASE conn.at # "expired"
        <3>1. conn' = [conn EXCEPT !.pos = conn.pos + 1] /\ conn.pos < Now
            BY <2>2 DEF Message, Advanced, MayDeliver
        <3>2. conn \in Conn /\ conn.pos \in 0 .. MaxVersion /\ conn.from \in Nat /\ conn.from <= conn.pos
            BY <1>3, KeyFacts DEF IInv, ConnOK
        <3>3. conn.pos + 1 \in 0 .. MaxVersion /\ conn.from <= conn.pos + 1
            BY <1>0, <3>1, <3>2
        <3>4. conn' \in Conn /\ conn'.from = conn.from /\ conn'.pos = conn.pos + 1
            BY <3>1, <3>2, <3>3 DEF Conn
        <3> QED BY <2>2, <3>2, <3>3, <3>4 DEF ConnOK
    <2> QED BY <2>1, <2>2
<1>5. /\ cache' \in List \cup {NoList} /\ damaged' \in BOOLEAN
      /\ CacheOK' /\ SnapshotOK' /\ NotAhead'
    <2>1. CASE cache = NoList \/ ~Heard
        <3>1. UNCHANGED <<cache, damaged>>
            BY <2>1, MessageUnheard
        <3>2. CacheOK' /\ SnapshotOK'
            BY <1>0, <3>1, Frame
        <3>3. cache # NoList => ~Heard'
            BY <1>2, <1>3, <1>4, <2>1 DEF Heard
        <3>4. NotAhead'
            BY <1>2, <3>1, <3>3 DEF IInv, NotAhead
        <3> QED BY <1>0, <3>1, <3>2, <3>4
    <2>2. CASE cache # NoList /\ Heard /\ conn.at = "expired"
        <3>1. cache' \in List /\ cache'.rv = Undef /\ cache'.cont = cache.cont /\ damaged' = TRUE
            BY <2>2, MessageExpired
        <3> QED BY <1>1, <2>2, <3>1 DEF IInv, CacheOK, SnapshotOK, NotAhead
    <2>3. CASE cache # NoList /\ Heard /\ conn.at # "expired"
        <3>0. conn.pos + 1 \in 2 .. Now /\ cache' \in List /\ cache'.cont = cache.cont
            BY <2>3, MessageLive
        <3>1. CASE cache' = cache /\ damaged' = damaged /\ cache.rv # Undef /\ conn.pos + 1 <= cache.rv
            <4>1. CacheOK' /\ SnapshotOK'
                BY <1>0, <3>1, Frame
            <4>2. NotAhead'
                BY <1>2, <1>4, <3>1 DEF IInv, NotAhead, Heard
            <4> QED BY <1>0, <3>1, <4>1, <4>2
        <3>2. CASE /\ cache'.rv = conn.pos + 1
                   /\ ~damaged' => ~damaged
                   /\ ~damaged' => /\ cache.cont = NoToken /\ cache.rv = conn.pos
                                   /\ Range(cache'.items) = Objects(conn.pos + 1, NumObjs)
                                   /\ UniqueUids(cache'.items)
            <4>1. damaged' \in BOOLEAN
                BY Zenon DEF Message
            <4>2. conn.pos + 1 \in Nat /\ conn.pos \in Nat /\ conn.pos + 1 <= Now /\ conn.pos + 1 # Undef
                BY <1>0, <1>3, <3>0, KeyFacts
            <4>3. CacheOK'
                <5>1. cache'.cont # NoToken => cache'.cont.rv <= Now'
                    BY <1>1, <2>3, <3>0 DEF IInv, CacheOK
                <5> QED BY <1>1, <3>0, <3>2, <4>2, <5>1 DEF CacheOK
            <4>4. SnapshotOK'
                <5> SUFFICES ASSUME ~damaged'
                             PROVE  (/\ Range(cache.items) = Objects(cache.rv, LastOf(cache))
                                     /\ UniqueUids(cache.items))'
                    BY DEF SnapshotOK
                <5>1. LastOf(cache)' = NumObjs
                    BY <3>0, <3>2 DEF LastOf
                <5> QED BY <1>0, <3>2, <5>1 DEF Objects
            <4>5. NotAhead'
                <5> SUFFICES ASSUME ~damaged'
                             PROVE  /\ Heard' => conn'.pos <= conn.pos + 1
                                    /\ \A from \in HeardKeys : from # Undef => from <= conn.pos + 1
                    BY <1>2, <3>2 DEF NotAhead
                <5>1. Heard' => conn'.pos <= conn.pos + 1
                    BY <1>4, <4>2 DEF Heard
                <5>2. \A from \in HeardKeys : from # Undef => from <= conn.pos /\ from \in Nat
                    BY <2>3, <3>2, KeyFacts DEF IInv, NotAhead
                <5> QED BY <4>2, <5>1, <5>2
            <4> QED BY <3>0, <4>1, <4>3, <4>4, <4>5
        <3> QED BY <2>3, <3>1, <3>2, MessageLive
    <2> QED BY <2>1, <2>2, <2>3
<1>6. TypeOK'
    BY <1>0, <1>1, <1>4, <1>5 DEF TypeOK
<1> QED BY <1>1, <1>4, <1>5, <1>6 DEF IInv

-----------------------------------------------------------------------------
(* The theorems.                                                           *)

\* Every step of the server, of the requests, of the socket and of the
\* subscriptions preserves the invariant.
LEMMA NextInv == IInv /\ [Next]_vars => IInv'
<1> SUFFICES ASSUME IInv, [Next]_vars PROVE IInv'
    OBVIOUS
<1>1. CASE UNCHANGED vars
    <2>1. UNCHANGED <<hist, horizon, cache, fetch, more, socket, stream, leaked, timers, conn,
                      fetches, closes, damaged>>
        BY <1>1 DEF vars, server, watch
    <2>2. /\ Now' = Now /\ HistoryOK' /\ FetchOK' /\ MoreOK' /\ CacheOK' /\ SnapshotOK'
          /\ ConnOK' /\ NotAhead'
        BY <2>1, Frame
    <2>3. TypeOK'
        BY <2>1, <2>2 DEF IInv, TypeOK
    <2> QED BY <2>2, <2>3 DEF IInv
<1>2. CASE Next
    BY <1>2, ChangeInv, CompactInv, StartFetchInv, AnswerFetchInv, FetchDoneInv, FetchFailsInv,
       LoadMoreInv, AnswerMoreInv, MoreDoneInv, MoreGoneInv, MoreFailsInv,
       WatchEffectInv, SocketInv, SubscribeInv, EndInv, MessageInv DEF Next
<1> QED BY <1>1, <1>2

LEMMA SpecInv == Spec => []IInv
    BY InitInv, NextInv, PTL DEF Spec

(***************************************************************************)
(* The history, the cached list, the requests and the subscriptions keep   *)
(* to their types.                                                         *)
(***************************************************************************)
THEOREM TypeCorrect == Spec => []TypeOK
<1>1. IInv => TypeOK
    BY DEF IInv
<1> QED BY <1>1, SpecInv, PTL

(***************************************************************************)
(* The cached list is what the server held at the version it names, up to  *)
(* its token, whatever refetches, pages, reconnects and subscriptions left *)
(* behind do, unless it met one of the races that the code does not guard  *)
(* against.                                                                *)
(***************************************************************************)
THEOREM CachedListIsASnapshot == Spec => []ListIsASnapshot
<1>1. IInv => ListIsASnapshot
    <2> SUFFICES ASSUME IInv, cache # NoList, ~damaged
                 PROVE  Range(cache.items) = Objects(cache.rv, LastOf(cache)) /\ IsInjective(cache.items)
        BY DEF ListIsASnapshot
    <2>1. Range(cache.items) = Objects(cache.rv, LastOf(cache)) /\ UniqueUids(cache.items)
        BY DEF IInv, SnapshotOK
    <2>2. cache \in List /\ TypeOK
        BY DEF IInv, TypeOK
    <2>3. cache.rv \in 1 .. Now
        BY <2>2, HistFacts DEF IInv, CacheOK, List, Versions
    <2>4. LastOf(cache) \in 1 .. NumObjs
        BY <2>2, LastOfFacts
    <2> QED BY <2>1, <2>2, <2>3, <2>4, InjectiveIsUnique
<1> QED BY <1>1, SpecInv, PTL

(***************************************************************************)
(* An event never takes the list back: what it puts in is newer than the   *)
(* version of the list.                                                    *)
(***************************************************************************)
THEOREM ListGoesForward == Spec => EventsGoForward
<1> DEFINE Forward ==
       fetch' = fetch /\ more' = more /\ ~damaged =>
          \A i \in DOMAIN cache'.items :
             LET item == cache'.items[i]
             IN  item \in Range(cache.items) \/ item.ver > cache.rv
<1>1. ASSUME cache' = cache PROVE Forward
    BY <1>1 DEF Range
<1>2. ASSUME IInv, Message PROVE Forward
    <2>1. CASE cache = NoList \/ ~Heard
        BY <1>1, <1>2, <2>1, MessageUnheard
    <2>2. CASE cache # NoList /\ Heard /\ conn.at = "expired"
        <3>1. cache'.items = cache.items
            BY <1>2, <2>2, MessageExpired
        <3> QED BY <3>1 DEF Range
    <2>3. CASE cache # NoList /\ Heard /\ conn.at # "expired"
        <3>1. cache' = cache \/ (~damaged => \A item \in Range(cache'.items) :
                                    item \in Range(cache.items) \/ item.ver > cache.rv)
            BY <1>2, <2>3, MessageLive
        <3> QED BY <1>1, <3>1 DEF Range
    <2> QED BY <2>1, <2>2, <2>3
<1>3. IInv /\ [Next]_vars => [Forward]_vars
    <2> SUFFICES ASSUME IInv, Next PROVE Forward
        OBVIOUS
    <2>1. ASSUME \/ \E o \in Objs : Change(o)
                 \/ Compact
                 \/ StartFetch \/ AnswerFetch \/ FetchFails
                 \/ LoadMore \/ AnswerMore \/ MoreGone \/ MoreFails
                 \/ WatchEffect
                 \/ OthersSubscribe \/ SocketOpens \/ SocketFails \/ SocketCloses
                 \/ SubscribeResolves \/ SubscribeRejected
                 \/ \E from \in Froms : Timeout(from)
                 \/ WatchEnds
          PROVE  cache' = cache
        BY <2>1 DEF Change, Compact, StartFetch, AnswerFetch, FetchFails, LoadMore, AnswerMore,
           MoreGone, MoreFails, WatchEffect, OthersSubscribe, SocketOpens, SocketFails, SocketCloses,
           SubscribeResolves, SubscribeRejected, Timeout, WatchEnds
    <2>2. ASSUME FetchDone \/ MoreDone PROVE fetch' # fetch \/ more' # more
        BY <2>2, IdleFacts DEF FetchDone, MoreDone
    <2> HIDE DEF Forward
    <2>3. ASSUME fetch' # fetch \/ more' # more PROVE Forward
        BY <2>3 DEF Forward
    <2> QED BY <1>1, <1>2, <2>1, <2>2, <2>3 DEF Next
<1> QED BY <1>3, SpecInv, PTL DEF Spec, EventsGoForward

=============================================================================
