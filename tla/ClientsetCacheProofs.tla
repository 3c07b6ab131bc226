------------------------ MODULE ClientsetCacheProofs ------------------------
(***************************************************************************)
(* ClientsetCache for any number of callers, contexts, tokens and          *)
(* removals: single flight, the separation of users, and the block of a    *)
(* removed context.                                                        *)
(***************************************************************************)
EXTENDS ClientsetCache, TLAPS

(***************************************************************************)
(* OwnClientset needs the same of the entries of the cache, and that a     *)
(* caller about to store has a clientset.                                  *)
(***************************************************************************)
CacheIsOwn ==
    \A k \in Keys : Cached(k) =>
        /\ clientsetCache[k].clientset.ctx = k[1]
        /\ clientsetCache[k].clientset.token = k[2]

StoresClientset == \A c \in Callers : At(c, "store") => call[c].res \in Clientset

IndInv ==
    /\ TypeOK
    /\ SingleFlight
    /\ CacheIsOwn
    /\ StoresClientset
    /\ OwnClientset
    /\ BlockedNotCached

\* A caller's key is a cache key made of its context and its token.
LEMMA KeyFacts ==
    ASSUME TypeOK, NEW c \in Callers
    PROVE  /\ KeyOf(c) \in Keys
           /\ KeyOf(c) = <<call[c].ctx, call[c].token>>
           /\ KeyOf(c)[1] = call[c].ctx /\ KeyOf(c)[2] = call[c].token
    BY DEF TypeOK, Call, KeyOf, CacheKey, Keys

\* What a usable entry holds.
LEMMA UsableFacts ==
    ASSUME TypeOK, CacheIsOwn, NEW k \in Keys, Usable(k)
    PROVE  /\ clientsetCache[k] \in Entry
           /\ clientsetCache[k].clientset \in Clientset
           /\ clientsetCache[k].clientset.ctx = k[1]
           /\ clientsetCache[k].clientset.token = k[2]
    BY NilAssumption DEF TypeOK, CacheIsOwn, Usable, Cached, Entry

\* Marking an entry as used keeps all that is known of the cache.
LEMMA TouchFacts ==
    ASSUME TypeOK, NEW k \in Keys, Usable(k)
    PROVE  /\ Touch(k) \in [Keys -> Entry \cup {Nil}]
           /\ \A j \in Keys : Touch(k)[j] = Nil <=> clientsetCache[j] = Nil
           /\ \A j \in Keys : Touch(k)[j] /= Nil =>
                 Touch(k)[j].clientset = clientsetCache[j].clientset
<1>1. clientsetCache[k] \in Entry
    BY DEF TypeOK, Usable, Cached
<1>2. [clientsetCache[k] EXCEPT !.fresh = TRUE] \in Entry
    BY <1>1 DEF Entry
<1>3. [clientsetCache[k] EXCEPT !.fresh = TRUE].clientset = clientsetCache[k].clientset
    BY <1>1 DEF Entry
<1> QED
    BY <1>1, <1>2, <1>3, NilAssumption DEF Touch, TypeOK, Usable, Cached

\* The initial states satisfy the invariant.
LEMMA InitInv == Init => IndInv
<1> SUFFICES ASSUME Init PROVE IndInv
    OBVIOUS
<1>1. TypeOK
    <2>1. PICK u \in Credentials :
              call = [c \in Callers |-> [pc |-> "idle", ctx |-> u[1], token |-> u[2],
                                        life |-> 0, res |-> Nil]]
        BY DEF Init
    <2>2. u[1] \in Contexts /\ u[2] \in Tokens
        BY CredentialsAssumption
    <2>3. call \in [Callers -> Call]
        BY <2>1, <2>2 DEF Call, Result
    <2> QED
        BY <2>3 DEF Init, TypeOK
<1>2. SingleFlight
    BY <1>1, KeyFacts DEF Init, SingleFlight, Creating
<1>3. CacheIsOwn /\ StoresClientset /\ BlockedNotCached
    BY DEF Init, CacheIsOwn, StoresClientset, BlockedNotCached, Cached, At
<1>4. OwnClientset
    BY NilAssumption DEF Init, OwnClientset
<1> QED
    BY <1>1, <1>2, <1>3, <1>4 DEF IndInv

(***************************************************************************)
(* The steps.  A step that returns or moves one caller without changing    *)
(* its context and token leaves every key as it was.                       *)
(***************************************************************************)
LEMMA GetInv ==
    ASSUME IndInv, NEW c \in Callers, NEW ctx \in Contexts, NEW t \in Tokens,
           GetClientSet(c, ctx, t)
    PROVE  IndInv'
<1> DEFINE key == CacheKey(ctx, t)
           mine == [pc |-> "recheck", ctx |-> ctx, token |-> t,
                    life |-> removals[ctx], res |-> Nil]
<1>0. TypeOK /\ SingleFlight /\ CacheIsOwn /\ StoresClientset /\ OwnClientset
      /\ BlockedNotCached
    BY DEF IndInv
<1>k. key \in Keys /\ key[1] = ctx /\ key[2] = t
    BY DEF CacheKey, Keys
<1>m. mine \in Call
    BY <1>0 DEF Call, TypeOK, Result
<1>i. UNCHANGED <<inFlight, blockedClientsetPrefixes, removals>> /\ ~Creating(c)
    BY DEF GetClientSet, At, Creating
<1>1. CASE Usable(key)
    <2> DEFINE res == clientsetCache[key].clientset
               mine2 == [mine EXCEPT !.pc = "idle", !.res = res]
    <2>1. clientsetCache' = Touch(key) /\ call' = [call EXCEPT ![c] = mine2]
        BY <1>1 DEF GetClientSet
    <2>2. res \in Clientset /\ res.ctx = ctx /\ res.token = t
        BY <1>0, <1>1, <1>k, UsableFacts
    <2>3. mine2 \in Call /\ mine2.pc = "idle" /\ mine2.res = res
          /\ mine2.ctx = ctx /\ mine2.token = t
        BY <1>m, <2>2 DEF Call, Result
    <2> HIDE DEF mine2, res, key
    <2>4. TypeOK'
        BY <1>0, <1>1, <1>i, <1>k, <2>1, <2>3, TouchFacts DEF TypeOK
    <2>5. SingleFlight'
        BY <1>0, <1>i, <2>1, <2>3 DEF SingleFlight, Creating, KeyOf, TypeOK
    <2>6. CacheIsOwn' /\ BlockedNotCached'
        BY <1>0, <1>1, <1>i, <1>k, <2>1, TouchFacts
        DEF CacheIsOwn, BlockedNotCached, Cached
    <2>7. StoresClientset' /\ OwnClientset'
        BY <1>0, <2>1, <2>2, <2>3 DEF StoresClientset, OwnClientset, At, TypeOK
    <2> QED BY <2>4, <2>5, <2>6, <2>7 DEF IndInv
<1>2. CASE ~Usable(key)
    <2>1. /\ clientsetCache' = [clientsetCache EXCEPT ![key] = Nil]
          /\ call' = [call EXCEPT ![c] = mine]
        BY <1>2 DEF GetClientSet
    <2>2. mine.pc = "recheck" /\ mine.res = Nil
        OBVIOUS
    <2> HIDE DEF mine, key
    <2>4. TypeOK'
        BY <1>0, <1>i, <1>k, <1>m, <2>1 DEF TypeOK
    <2>5. SingleFlight'
        BY <1>0, <1>i, <2>1, <2>2 DEF SingleFlight, Creating, KeyOf, TypeOK
    <2>6. CacheIsOwn' /\ BlockedNotCached'
        BY <1>0, <1>i, <2>1 DEF CacheIsOwn, BlockedNotCached, Cached, TypeOK
    <2>7. StoresClientset' /\ OwnClientset'
        BY <1>0, <2>1, <2>2, NilAssumption
        DEF StoresClientset, OwnClientset, At, TypeOK
    <2> QED BY <2>4, <2>5, <2>6, <2>7 DEF IndInv
<1> QED BY <1>1, <1>2

\* The second look at the cache, under the lock, preserves the invariant.
LEMMA RecheckInv ==
    ASSUME IndInv, NEW c \in Callers, Recheck(c)
    PROVE  IndInv'
<1> DEFINE key == KeyOf(c)
<1>0. TypeOK /\ SingleFlight /\ CacheIsOwn /\ StoresClientset /\ OwnClientset
      /\ BlockedNotCached
    BY DEF IndInv
<1>k. key \in Keys /\ key[1] = call[c].ctx /\ key[2] = call[c].token
    BY <1>0, KeyFacts
<1>i. UNCHANGED <<blockedClientsetPrefixes, removals>> /\ ~Creating(c)
    BY DEF Recheck, At, Creating
<1>1. CASE Usable(key)
    <2> DEFINE res == clientsetCache[key].clientset
    <2>1. /\ clientsetCache' = Touch(key) /\ UNCHANGED inFlight
          /\ call' = [call EXCEPT ![c].pc = "idle", ![c].res = res]
        BY <1>1 DEF Recheck, Returns
    <2>2. res \in Clientset /\ res.ctx = call[c].ctx /\ res.token = call[c].token
        BY <1>0, <1>1, <1>k, UsableFacts
    <2> HIDE DEF res, key
    <2>4. TypeOK'
        <3>1. call' \in [Callers -> Call]
            BY <1>0, <2>1, <2>2 DEF TypeOK, Call, Result
        <3> QED BY <1>0, <1>1, <1>i, <1>k, <2>1, <3>1, TouchFacts DEF TypeOK
    <2>5. SingleFlight'
        BY <1>0, <1>i, <2>1 DEF SingleFlight, Creating, KeyOf, TypeOK, Call
    <2>6. CacheIsOwn' /\ BlockedNotCached'
        BY <1>0, <1>1, <1>i, <1>k, <2>1, TouchFacts
        DEF CacheIsOwn, BlockedNotCached, Cached
    <2>7. StoresClientset' /\ OwnClientset'
        BY <1>0, <2>1, <2>2 DEF StoresClientset, OwnClientset, At, TypeOK, Call
    <2> QED BY <2>4, <2>5, <2>6, <2>7 DEF IndInv
<1>2. CASE ~Usable(key) /\ inFlight[key] /= Nil
    <2>1. /\ UNCHANGED <<clientsetCache, inFlight>>
          /\ call' = [call EXCEPT ![c].pc = "wait"]
        BY <1>2 DEF Recheck
    <2> HIDE DEF key
    <2>4. TypeOK'
        BY <1>0, <1>i, <2>1 DEF TypeOK, Call
    <2>5. SingleFlight'
        BY <1>0, <1>i, <2>1 DEF SingleFlight, Creating, KeyOf, TypeOK, Call
    <2>6. CacheIsOwn' /\ BlockedNotCached'
        BY <1>0, <1>i, <2>1 DEF CacheIsOwn, BlockedNotCached, Cached
    <2>7. StoresClientset' /\ OwnClientset'
        BY <1>0, <2>1 DEF StoresClientset, OwnClientset, At, TypeOK, Call
    <2> QED BY <2>4, <2>5, <2>6, <2>7 DEF IndInv
<1>3. CASE ~Usable(key) /\ inFlight[key] = Nil
    <2>1. /\ UNCHANGED clientsetCache
          /\ inFlight' = [inFlight EXCEPT ![key] = c]
          /\ call' = [call EXCEPT ![c].pc = "create"]
        BY <1>3 DEF Recheck
    <2>2. \A d \in Callers : KeyOf(d)' = KeyOf(d)
        BY <1>0, <2>1 DEF KeyOf, TypeOK, Call
    <2>3. \A d \in Callers : Creating(d) => inFlight[KeyOf(d)] /= Nil
        BY <1>0, NilAssumption DEF SingleFlight
    <2>4. TypeOK'
        BY <1>0, <1>i, <2>1 DEF TypeOK, Call
    <2>5. SingleFlight'
        <3>1. \A d \in Callers : Creating(d)' <=> Creating(d) \/ d = c
            BY <1>0, <2>1 DEF Creating, TypeOK, Call
        <3>2. \A d \in Callers : Creating(d) => KeyOf(d) /= key
            BY <2>3, <1>3
        <3>3. \A d \in Callers : KeyOf(d) \in Keys
            BY <1>0, KeyFacts
        <3>4. ASSUME NEW d \in Callers, Creating(d)'
              PROVE  inFlight'[KeyOf(d)'] = d
            BY <1>0, <1>k, <2>1, <2>2, <3>1, <3>2, <3>3, <3>4
               DEF SingleFlight, TypeOK
        <3>5. ASSUME NEW k \in Keys, inFlight'[k] /= Nil
              PROVE  (Creating(inFlight[k]) /\ KeyOf(inFlight[k]) = k)'
            <4>1. CASE k = key
                <5>1. inFlight'[k] = c
                    BY <1>0, <1>k, <2>1, <4>1 DEF TypeOK
                <5>2. Creating(c)' /\ KeyOf(c)' = k
                    BY <2>2, <3>1, <4>1
                <5> QED
                    BY <5>1, <5>2 DEF Creating, KeyOf
            <4>2. CASE k /= key
                <5>1. inFlight'[k] = inFlight[k] /\ inFlight[k] \in Callers
                    BY <1>0, <2>1, <3>5, <4>2 DEF TypeOK
                <5>2. Creating(inFlight[k]) /\ KeyOf(inFlight[k]) = k
                    BY <1>0, <3>5, <5>1 DEF SingleFlight
                <5>3. PICK d \in Callers : d = inFlight[k]
                    BY <5>1
                <5>4. Creating(d)' /\ KeyOf(d)' = k
                    BY <2>2, <3>1, <5>2, <5>3
                <5> QED
                    BY <5>1, <5>3, <5>4 DEF Creating, KeyOf
            <4> QED BY <4>1, <4>2
        <3> QED
            BY <3>4, <3>5 DEF SingleFlight
    <2>6. CacheIsOwn' /\ BlockedNotCached'
        BY <1>0, <1>i, <2>1 DEF CacheIsOwn, BlockedNotCached, Cached
    <2>7. StoresClientset' /\ OwnClientset'
        BY <1>0, <2>1 DEF StoresClientset, OwnClientset, At, TypeOK, Call
    <2> QED BY <2>4, <2>5, <2>6, <2>7 DEF IndInv
<1> QED BY <1>1, <1>2, <1>3

\* So does the creation of a clientset by the caller that owns the flight.
LEMMA CreateInv ==
    ASSUME IndInv, NEW c \in Callers, Create(c)
    PROVE  IndInv'
<1> DEFINE cs == [ctx |-> call[c].ctx, token |-> call[c].token, life |-> call[c].life]
<1>0. TypeOK /\ SingleFlight /\ CacheIsOwn /\ StoresClientset /\ OwnClientset
      /\ BlockedNotCached
    BY DEF IndInv
<1>c. cs \in Clientset /\ cs.ctx = call[c].ctx /\ cs.token = call[c].token
    BY <1>0 DEF TypeOK, Call, Clientset
<1>d. \/ call' = [call EXCEPT ![c].pc = "store", ![c].res = cs]
      \/ call' = [call EXCEPT ![c].pc = "finish", ![c].res = Error]
    BY DEF Create
<1>e. Creating(c) /\ UNCHANGED <<clientsetCache, inFlight, blockedClientsetPrefixes,
                                removals>>
    BY DEF Create, At, Creating
<1> HIDE DEF cs
<1>1. TypeOK'
    BY <1>0, <1>c, <1>d, <1>e DEF TypeOK, Call, Result
<1>2. SingleFlight'
    <2>1. \A d \in Callers : /\ call'[d].ctx = call[d].ctx
                             /\ call'[d].token = call[d].token
        BY <1>0, <1>d DEF TypeOK, Call
    <2>2. \A d \in Callers : Creating(d)' <=> Creating(d)
        BY <1>0, <1>d, <1>e DEF TypeOK, Call, Creating
    <2> QED
        BY <1>0, <1>e, <2>1, <2>2 DEF SingleFlight, Creating, KeyOf, TypeOK
<1>3. CacheIsOwn' /\ BlockedNotCached'
    BY <1>0, <1>e DEF CacheIsOwn, BlockedNotCached, Cached
<1>4. StoresClientset' /\ OwnClientset'
    BY <1>0, <1>c, <1>d, NilAssumption
    DEF StoresClientset, OwnClientset, At, TypeOK, Call
<1> QED BY <1>1, <1>2, <1>3, <1>4 DEF IndInv

\* So does the storing of the new clientset, which a block prevents.
LEMMA StoreInv ==
    ASSUME IndInv, NEW c \in Callers, Store(c)
    PROVE  IndInv'
<1> DEFINE key == KeyOf(c)
<1>0. TypeOK /\ SingleFlight /\ CacheIsOwn /\ StoresClientset /\ OwnClientset
      /\ BlockedNotCached
    BY DEF IndInv
<1>k. key \in Keys /\ key[1] = call[c].ctx /\ key[2] = call[c].token
    BY <1>0, KeyFacts
<1>e. Creating(c) /\ UNCHANGED <<inFlight, blockedClientsetPrefixes, removals>>
    BY DEF Store, At, Creating
<1>f. /\ call[c].res \in Clientset
      /\ call[c].res.ctx = call[c].ctx /\ call[c].res.token = call[c].token
    BY <1>0 DEF Store, StoresClientset, OwnClientset
<1>1. CASE Usable(key)
    <2> DEFINE res == clientsetCache[key].clientset
    <2>1. /\ clientsetCache' = Touch(key)
          /\ call' = [call EXCEPT ![c].pc = "finish", ![c].res = res]
        BY <1>1 DEF Store
    <2>2. res \in Clientset /\ res.ctx = call[c].ctx /\ res.token = call[c].token
        BY <1>0, <1>1, <1>k, UsableFacts
    <2> HIDE DEF res, key
    <2>3. call' \in [Callers -> Call]
        BY <1>0, <2>1, <2>2 DEF TypeOK, Call, Result
    <2>4. TypeOK'
        BY <1>0, <1>1, <1>e, <1>k, <2>1, <2>3, TouchFacts DEF TypeOK
    <2>5. SingleFlight'
        BY <1>0, <1>e, <2>1 DEF SingleFlight, Creating, KeyOf, TypeOK, Call
    <2>6. CacheIsOwn' /\ BlockedNotCached'
        BY <1>0, <1>1, <1>e, <1>k, <2>1, TouchFacts
        DEF CacheIsOwn, BlockedNotCached, Cached
    <2>7. StoresClientset' /\ OwnClientset'
        BY <1>0, <2>1, <2>2 DEF StoresClientset, OwnClientset, At, TypeOK, Call
    <2> QED BY <2>4, <2>5, <2>6, <2>7 DEF IndInv
<1>2. CASE ~Usable(key)
    <2> DEFINE entry == [clientset |-> call[c].res, fresh |-> TRUE]
    <2>1. call' = [call EXCEPT ![c].pc = "finish"]
        BY <1>2 DEF Store
    <2>2. \/ UNCHANGED clientsetCache
          \/ /\ blockedClientsetPrefixes[PrefixOf(key)] = "no"
             /\ clientsetCache' = [clientsetCache EXCEPT ![key] = entry]
        BY <1>2 DEF Store
    <2>3. entry \in Entry /\ entry.clientset = call[c].res
        BY <1>f DEF Entry
    <2> HIDE DEF entry, key
    <2>4. TypeOK'
        BY <1>0, <1>e, <2>1, <2>2, <2>3 DEF TypeOK, Call
    <2>5. SingleFlight'
        BY <1>0, <1>e, <2>1 DEF SingleFlight, Creating, KeyOf, TypeOK, Call
    <2>6. CacheIsOwn'
        BY <1>0, <1>f, <1>k, <2>2, <2>3 DEF CacheIsOwn, Cached, TypeOK
    <2>7. BlockedNotCached'
        BY <1>0, <1>e, <2>2 DEF BlockedNotCached, Cached, TypeOK
    <2>8. StoresClientset' /\ OwnClientset'
        BY <1>0, <2>1 DEF StoresClientset, OwnClientset, At, TypeOK, Call
    <2> QED BY <2>4, <2>5, <2>6, <2>7, <2>8 DEF IndInv
<1> QED BY <1>1, <1>2

\* So does the end of a flight, which frees its key.
LEMMA FinishInv ==
    ASSUME IndInv, NEW c \in Callers, Finish(c)
    PROVE  IndInv'
<1> DEFINE key == KeyOf(c)
           waits(w) == At(w, "wait") /\ KeyOf(w) = key
           new(w) == IF waits(w)
                     THEN [call[w] EXCEPT !.pc = "woken", !.res = call[c].res]
                     ELSE IF w = c THEN [call[c] EXCEPT !.pc = "idle"] ELSE call[w]
<1>0. TypeOK /\ SingleFlight /\ CacheIsOwn /\ StoresClientset /\ OwnClientset
      /\ BlockedNotCached
    BY DEF IndInv
<1>k. key \in Keys /\ \A w \in Callers : KeyOf(w) \in Keys
    BY <1>0, KeyFacts
<1>e. /\ Creating(c) /\ At(c, "finish")
      /\ UNCHANGED <<clientsetCache, blockedClientsetPrefixes, removals>>
      /\ inFlight' = [inFlight EXCEPT ![key] = Nil]
      /\ call' = [w \in Callers |-> new(w)]
    BY DEF Finish, At, Creating
<1>n. \A w \in Callers :
        /\ new(w) \in Call
        /\ new(w).ctx = call[w].ctx /\ new(w).token = call[w].token
        /\ waits(w) => new(w).pc = "woken" /\ new(w).res = call[c].res
        /\ w = c => new(w).pc = "idle"
        /\ ~waits(w) => new(w).res = call[w].res
        /\ (~waits(w) /\ w /= c) => new(w) = call[w]
    BY <1>0, <1>e DEF TypeOK, Call, At
<1>w. \A w \in Callers :
        waits(w) => call[w].ctx = call[c].ctx /\ call[w].token = call[c].token
    BY <1>0 DEF KeyOf, CacheKey
<1>x. \A w \in Callers : waits(w) => ~Creating(w)
    BY DEF At, Creating
<1> HIDE DEF new, waits, key
<1>1. TypeOK'
    BY <1>0, <1>e, <1>n DEF TypeOK
<1>2. \A w \in Callers : KeyOf(w)' = KeyOf(w)
    BY <1>e, <1>n DEF KeyOf
<1>3. \A w \in Callers : Creating(w)' <=> Creating(w) /\ w /= c
    BY <1>e, <1>n, <1>x DEF Creating
<1>4. \A w \in Callers : Creating(w) /\ KeyOf(w) = key => w = c
    BY <1>0, <1>e DEF SingleFlight, key
<1>5. SingleFlight'
    <2>1. ASSUME NEW w \in Callers, Creating(w)'
          PROVE  inFlight'[KeyOf(w)'] = w
        BY <1>0, <1>k, <1>e, <1>2, <1>3, <1>4, <2>1 DEF SingleFlight, TypeOK
    <2>2. ASSUME NEW k \in Keys, inFlight'[k] /= Nil
          PROVE  (Creating(inFlight[k]) /\ KeyOf(inFlight[k]) = k)'
        <3>1. k /= key /\ inFlight'[k] = inFlight[k] /\ inFlight[k] \in Callers
            BY <1>0, <1>e, <2>2 DEF TypeOK
        <3>2. Creating(inFlight[k]) /\ KeyOf(inFlight[k]) = k
            BY <1>0, <2>2, <3>1 DEF SingleFlight
        <3>3. PICK d \in Callers : d = inFlight[k]
            BY <3>1
        <3>4. Creating(d)' /\ KeyOf(d)' = k
            BY <1>2, <1>3, <3>1, <3>2, <3>3 DEF key
        <3> QED
            BY <3>1, <3>3, <3>4 DEF Creating, KeyOf
    <2> QED BY <2>1, <2>2 DEF SingleFlight
<1>6. CacheIsOwn' /\ BlockedNotCached'
    BY <1>0, <1>e DEF CacheIsOwn, BlockedNotCached, Cached
<1>7. StoresClientset'
    BY <1>0, <1>e, <1>n DEF StoresClientset, At
<1>8. OwnClientset'
    BY <1>0, <1>e, <1>n, <1>w DEF OwnClientset
<1> QED BY <1>1, <1>5, <1>6, <1>7, <1>8 DEF IndInv

\* So does the wake-up of a caller that waited for another's flight.
LEMMA WakeInv ==
    ASSUME IndInv, NEW c \in Callers, Wake(c)
    PROVE  IndInv'
<1>0. TypeOK /\ SingleFlight /\ CacheIsOwn /\ StoresClientset /\ OwnClientset
      /\ BlockedNotCached
    BY DEF IndInv
<1>e. /\ ~Creating(c)
      /\ UNCHANGED <<clientsetCache, inFlight, blockedClientsetPrefixes, removals>>
      /\ call' = [call EXCEPT ![c].pc = "idle", ![c].res = call[c].res]
    BY DEF Wake, Returns, At, Creating
<1>1. TypeOK'
    BY <1>0, <1>e DEF TypeOK, Call
<1>2. SingleFlight'
    BY <1>0, <1>e DEF SingleFlight, Creating, KeyOf, TypeOK, Call
<1>3. CacheIsOwn' /\ BlockedNotCached'
    BY <1>0, <1>e DEF CacheIsOwn, BlockedNotCached, Cached
<1>4. StoresClientset' /\ OwnClientset'
    BY <1>0, <1>e DEF StoresClientset, OwnClientset, At, TypeOK, Call
<1> QED BY <1>1, <1>2, <1>3, <1>4 DEF IndInv

(***************************************************************************)
(* Evictions, the janitor and the passing of time leave the callers alone: *)
(* they shrink the cache, and only an eviction blocks a context.           *)
(***************************************************************************)
LEMMA ShrinkInv ==
    ASSUME IndInv,
           UNCHANGED <<inFlight, call>>,
           removals' \in [Contexts -> Nat],
           blockedClientsetPrefixes' \in [Contexts -> {"no", "young", "old"}],
           clientsetCache' \in [Keys -> Entry \cup {Nil}],
           \A k \in Keys : clientsetCache'[k] /= Nil =>
              /\ clientsetCache[k] /= Nil
              /\ clientsetCache'[k].clientset = clientsetCache[k].clientset
              /\ blockedClientsetPrefixes'[PrefixOf(k)] /= "no" =>
                    blockedClientsetPrefixes[PrefixOf(k)] /= "no"
    PROVE  IndInv'
<1>0. TypeOK /\ SingleFlight /\ CacheIsOwn /\ StoresClientset /\ OwnClientset
      /\ BlockedNotCached
    BY DEF IndInv
<1>1. TypeOK'
    BY <1>0 DEF TypeOK
<1>2. SingleFlight' /\ StoresClientset' /\ OwnClientset'
    BY <1>0 DEF SingleFlight, StoresClientset, OwnClientset, Creating, KeyOf, At
<1>3. CacheIsOwn' /\ BlockedNotCached'
    BY <1>0 DEF CacheIsOwn, BlockedNotCached, Cached
<1> QED BY <1>1, <1>2, <1>3 DEF IndInv

\* Every step preserves the invariant.
LEMMA NextInv == IndInv /\ [Next]_vars => IndInv'
<1> SUFFICES ASSUME IndInv, [Next]_vars PROVE IndInv'
    OBVIOUS
<1>t. TypeOK
    BY DEF IndInv
<1>1. ASSUME NEW c \in Callers, CallerStep(c) PROVE IndInv'
    BY <1>1, RecheckInv, CreateInv, StoreInv, FinishInv, WakeInv DEF CallerStep
<1>2. ASSUME NEW p \in Contexts, EvictClientsetsForCluster(p) PROVE IndInv'
    <2>1. /\ clientsetCache' \in [Keys -> Entry \cup {Nil}]
          /\ blockedClientsetPrefixes' \in [Contexts -> {"no", "young", "old"}]
          /\ removals' \in [Contexts -> Nat]
        BY <1>2, <1>t DEF EvictClientsetsForCluster, TypeOK
    <2>2. ASSUME NEW k \in Keys, clientsetCache'[k] /= Nil
          PROVE  /\ clientsetCache'[k] = clientsetCache[k]
                 /\ k[1] /= p
        BY <1>2, <2>2 DEF EvictClientsetsForCluster, HasPrefix
    <2>3. \A k \in Keys : k[1] /= p =>
            blockedClientsetPrefixes'[PrefixOf(k)] = blockedClientsetPrefixes[PrefixOf(k)]
        BY <1>2, <1>t DEF EvictClientsetsForCluster, PrefixOf, Keys, TypeOK
    <2>4. UNCHANGED <<inFlight, call>>
        BY <1>2 DEF EvictClientsetsForCluster
    <2> QED
        BY <2>1, <2>2, <2>3, <2>4, ShrinkInv
<1>3. ASSUME NEW active \in SUBSET Contexts, ClearBlocked(active) PROVE IndInv'
    <2>1. /\ clientsetCache' \in [Keys -> Entry \cup {Nil}]
          /\ blockedClientsetPrefixes' \in [Contexts -> {"no", "young", "old"}]
          /\ removals' \in [Contexts -> Nat]
        BY <1>3, <1>t DEF ClearBlocked, TypeOK
    <2>2. \A k \in Keys : blockedClientsetPrefixes'[PrefixOf(k)] /= "no" =>
            blockedClientsetPrefixes[PrefixOf(k)] /= "no"
        BY <1>3 DEF ClearBlocked, PrefixOf, Keys
    <2> QED
        BY <1>3, <2>1, <2>2, ShrinkInv DEF ClearBlocked
<1>4. ASSUME Janitor PROVE IndInv'
    <2>1. /\ clientsetCache' \in [Keys -> Entry \cup {Nil}]
          /\ blockedClientsetPrefixes' \in [Contexts -> {"no", "young", "old"}]
          /\ removals' \in [Contexts -> Nat]
        BY <1>4, <1>t DEF Janitor, TypeOK
    <2>2. \A k \in Keys : blockedClientsetPrefixes'[PrefixOf(k)] /= "no" =>
            blockedClientsetPrefixes[PrefixOf(k)] /= "no"
        BY <1>4 DEF Janitor, PrefixOf, Keys
    <2>3. \A k \in Keys : clientsetCache'[k] /= Nil =>
            clientsetCache'[k] = clientsetCache[k]
        BY <1>4 DEF Janitor
    <2> QED
        BY <1>4, <2>1, <2>2, <2>3, ShrinkInv DEF Janitor
<1>5. ASSUME NEW k \in Keys, EntryExpires(k) PROVE IndInv'
    <2>1. clientsetCache[k] \in Entry
        BY <1>5, <1>t DEF EntryExpires, Usable, Cached, TypeOK
    <2>2. /\ [clientsetCache[k] EXCEPT !.fresh = FALSE] \in Entry
          /\ [clientsetCache[k] EXCEPT !.fresh = FALSE].clientset
                = clientsetCache[k].clientset
        BY <2>1 DEF Entry
    <2>3. clientsetCache' = [clientsetCache EXCEPT
                               ![k] = [clientsetCache[k] EXCEPT !.fresh = FALSE]]
        BY <1>5 DEF EntryExpires
    <2>4. clientsetCache' \in [Keys -> Entry \cup {Nil}]
        BY <1>t, <2>2, <2>3 DEF TypeOK
    <2>5. \A j \in Keys : clientsetCache'[j] /= Nil =>
            /\ clientsetCache[j] /= Nil
            /\ clientsetCache'[j].clientset = clientsetCache[j].clientset
        BY <1>t, <2>1, <2>2, <2>3, NilAssumption DEF TypeOK
    <2>6. UNCHANGED <<inFlight, blockedClientsetPrefixes, call, removals>>
        BY <1>5 DEF EntryExpires
    <2> QED
        BY <1>t, <2>4, <2>5, <2>6, ShrinkInv DEF TypeOK
<1>6. ASSUME NEW p \in Contexts, BlockAges(p) PROVE IndInv'
    <2>1. /\ clientsetCache' \in [Keys -> Entry \cup {Nil}]
          /\ blockedClientsetPrefixes' \in [Contexts -> {"no", "young", "old"}]
          /\ removals' \in [Contexts -> Nat]
        BY <1>6, <1>t DEF BlockAges, TypeOK
    <2>2. \A k \in Keys : blockedClientsetPrefixes'[PrefixOf(k)] /= "no" =>
            blockedClientsetPrefixes[PrefixOf(k)] /= "no"
        BY <1>6, <1>t DEF BlockAges, PrefixOf, Keys, TypeOK
    <2> QED
        BY <1>6, <2>1, <2>2, ShrinkInv DEF BlockAges
<1>7. CASE UNCHANGED vars
    BY <1>7 DEF vars, IndInv, TypeOK, SingleFlight, CacheIsOwn, StoresClientset,
                OwnClientset, BlockedNotCached, Creating, KeyOf, Cached, At
<1>8. ASSUME NEW c \in Callers, NEW u \in Credentials, GetClientSet(c, u[1], u[2])
      PROVE  IndInv'
    <2>1. u[1] \in Contexts /\ u[2] \in Tokens
        BY CredentialsAssumption
    <2> QED
        BY <1>8, <2>1, GetInv
<1> QED
    BY <1>1, <1>2, <1>3, <1>4, <1>5, <1>6, <1>7, <1>8 DEF Next

\* The invariant holds in every behaviour of the cache.
LEMMA SpecInv == Spec => []IndInv
    BY InitInv, NextInv, PTL DEF Spec

\* The variables keep their types.
THEOREM TypeCorrect == Spec => []TypeOK
    BY SpecInv, PTL DEF IndInv

\* At most one clientset is created at a time for a key, whatever the number
\* of callers of GetClientSet.
THEOREM CreationIsSingleFlight == Spec => []SingleFlight
    BY SpecInv, PTL DEF IndInv

\* GetClientSet never gives a caller the clientset of another user.
THEOREM UsersAreSeparate == Spec => []OwnClientset
    BY SpecInv, PTL DEF IndInv

\* No creation under way re-caches a clientset of a blocked context.
THEOREM EvictionSticks == Spec => []BlockedNotCached
    BY SpecInv, PTL DEF IndInv
=============================================================================
