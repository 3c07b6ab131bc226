--------------------------- MODULE ClientsetCache ---------------------------
(***************************************************************************)
(* The cache of authorization clientsets                                   *)
(* (backend/pkg/k8cache/authorization.go).                                 *)
(*                                                                         *)
(* Every request that goes through the response cache is authorized with a *)
(* clientset for the user's context and token.  GetClientSet keeps the     *)
(* clientsets in a map, creates at most one at a time for a key            *)
(* (`inFlight'), and lets the other callers wait for it.  When a context   *)
(* is removed its clientsets are evicted and the context is blocked, so    *)
(* that a creation under way cannot put one back.  A janitor removes what  *)
(* has not been used for clientsetTTL.                                     *)
(*                                                                         *)
(* All maps are guarded by mu: a critical section is a step.  Time is      *)
(* abstracted to whether clientsetTTL has elapsed since an entry was last  *)
(* used or a context was blocked.                                          *)
(***************************************************************************)
EXTENDS Naturals

CONSTANTS
    Callers,       \* goroutines that call GetClientSet
    Contexts,      \* Headlamp context keys
    Tokens,        \* bearer tokens
    Credentials,   \* the pairs of context and token that requests carry: the key of a
                   \* stateless context holds a user ID and comes with that user's token
    Extends,       \* pairs <<c, d>>: the key c is d, a NUL and a user ID
    Nil,           \* no entry, no caller, no result
    Error,         \* the result of a failed creation
    MaxEvictions   \* bound: how often one context is removed

ASSUME ExtendsAssumption == Extends \subseteq Contexts \X Contexts
ASSUME CredentialsAssumption == Credentials \subseteq Contexts \X Tokens
ASSUME BoundAssumption == MaxEvictions \in Nat

VARIABLES
    clientsetCache,            \* cache key -> entry or Nil
    inFlight,                  \* cache key -> the caller that creates, or Nil
    blockedClientsetPrefixes,  \* context -> not blocked, young or old block
    call,                      \* caller -> its call of GetClientSet
    removals                   \* context -> how often it has been removed

vars == <<clientsetCache, inFlight, blockedClientsetPrefixes, call, removals>>

-----------------------------------------------------------------------------
(***************************************************************************)
(* A cache key is the context key, a NUL and the token.  The operator has  *)
(* to keep users apart who share a context.                                *)
(***************************************************************************)
Keys == Contexts \X Tokens

\* Mutant of CacheKey: the token is forgotten.
CacheKeyWithoutToken(ctx, token) == <<ctx, CHOOSE t \in Tokens : TRUE>>

CacheKey(ctx, token) == <<ctx, token>>

\* strings.HasPrefix(key, prefix + NUL): also true of the keys of a stateless
\* context, whose key extends the prefix by a NUL and the user ID.
HasPrefix(key, prefix) == key[1] = prefix \/ <<key[1], prefix>> \in Extends

\* clientsetCachePrefixFromCacheKey: what precedes the last NUL.
PrefixOf(key) == key[1]

(***************************************************************************)
(* A clientset remembers for whom it was made, and of which life of the    *)
(* context: removals[ctx] when GetClientSet was called with the context.   *)
(***************************************************************************)
Clientset == [ctx : Contexts, token : Tokens, life : Nat]

Entry == [clientset : Clientset, fresh : BOOLEAN]

ASSUME NilAssumption ==
    /\ Nil \notin Entry \cup Clientset \cup Callers
    /\ Error \notin Clientset
    /\ Error /= Nil

Result == Clientset \cup {Error, Nil}

Call == [pc : {"idle", "recheck", "create", "store", "finish", "wait", "woken"},
         ctx : Contexts, token : Tokens, life : Nat, res : Result]

KeyOf(c) == CacheKey(call[c].ctx, call[c].token)

At(c, pc) == call[c].pc = pc

Cached(key) == clientsetCache[key] /= Nil

Usable(key) == Cached(key) /\ clientsetCache[key].fresh

\* The caller returns res and is idle again.
Returns(c, res) == [call EXCEPT ![c].pc = "idle", ![c].res = res]

\* lastUsed = now
Touch(key) == [clientsetCache EXCEPT ![key].fresh = TRUE]

-----------------------------------------------------------------------------
Init ==
    /\ clientsetCache = [k \in Keys |-> Nil]
    /\ inFlight = [k \in Keys |-> Nil]
    /\ blockedClientsetPrefixes = [p \in Contexts |-> "no"]
    /\ \E u \in Credentials :
          call = [c \in Callers |-> [pc |-> "idle", ctx |-> u[1], token |-> u[2],
                                    life |-> 0, res |-> Nil]]
    /\ removals = [p \in Contexts |-> 0]

(***************************************************************************)
(* GetClientSet begins with getCachedClientSet, which also deletes an      *)
(* expired entry.                                                          *)
(***************************************************************************)
GetClientSet(c, ctx, token) ==
    LET key  == CacheKey(ctx, token)
        mine == [pc |-> "recheck", ctx |-> ctx, token |-> token,
                 life |-> removals[ctx], res |-> Nil]
    IN
    /\ At(c, "idle")
    /\ \/ /\ Usable(key)
          /\ clientsetCache' = Touch(key)
          /\ call' = [call EXCEPT ![c] = [mine EXCEPT
                        !.pc = "idle", !.res = clientsetCache[key].clientset]]
       \/ /\ ~Usable(key)
          /\ clientsetCache' = [clientsetCache EXCEPT ![key] = Nil]
          /\ call' = [call EXCEPT ![c] = mine]
    /\ UNCHANGED <<inFlight, blockedClientsetPrefixes, removals>>

\* Mutant of Recheck: inFlight is not looked up.
RecheckIgnoringFlight(c) ==
    LET key == KeyOf(c) IN
    /\ At(c, "recheck")
    /\ \/ /\ Usable(key)
          /\ clientsetCache' = Touch(key)
          /\ call' = Returns(c, clientsetCache[key].clientset)
          /\ UNCHANGED inFlight
       \/ /\ ~Usable(key)
          /\ inFlight' = [inFlight EXCEPT ![key] = c]
          /\ call' = [call EXCEPT ![c].pc = "create"]
          /\ UNCHANGED clientsetCache
    /\ UNCHANGED <<blockedClientsetPrefixes, removals>>

\* Under the lock: use what has appeared meanwhile, wait for the creator, or
\* become the creator.
Recheck(c) ==
    LET key == KeyOf(c) IN
    /\ At(c, "recheck")
    /\ \/ /\ Usable(key)
          /\ clientsetCache' = Touch(key)
          /\ call' = Returns(c, clientsetCache[key].clientset)
          /\ UNCHANGED inFlight
       \/ /\ ~Usable(key) /\ inFlight[key] /= Nil
          /\ call' = [call EXCEPT ![c].pc = "wait"]
          /\ UNCHANGED <<clientsetCache, inFlight>>
       \/ /\ ~Usable(key) /\ inFlight[key] = Nil
          /\ inFlight' = [inFlight EXCEPT ![key] = c]
          /\ call' = [call EXCEPT ![c].pc = "create"]
          /\ UNCHANGED clientsetCache
    /\ UNCHANGED <<blockedClientsetPrefixes, removals>>

\* createAndCacheClientSet, outside the lock: the creator may fail.
Create(c) ==
    LET cs == [ctx |-> call[c].ctx, token |-> call[c].token, life |-> call[c].life]
    IN
    /\ At(c, "create")
    /\ \/ call' = [call EXCEPT ![c].pc = "store", ![c].res = cs]
       \/ call' = [call EXCEPT ![c].pc = "finish", ![c].res = Error]
    /\ UNCHANGED <<clientsetCache, inFlight, blockedClientsetPrefixes, removals>>

\* Mutant of Store: the block is not looked at.
StoreIgnoringBlock(c) ==
    LET key == KeyOf(c) IN
    /\ At(c, "store")
    /\ clientsetCache' = [clientsetCache EXCEPT ![key] =
                            [clientset |-> call[c].res, fresh |-> TRUE]]
    /\ call' = [call EXCEPT ![c].pc = "finish"]
    /\ UNCHANGED <<inFlight, blockedClientsetPrefixes, removals>>

\* createAndCacheClientSet, under the lock: an entry found is preferred, and
\* nothing is cached for a blocked context.
Store(c) ==
    LET key == KeyOf(c) IN
    /\ At(c, "store")
    /\ \/ /\ Usable(key)
          /\ clientsetCache' = Touch(key)
          /\ call' = [call EXCEPT ![c].pc = "finish",
                                  ![c].res = clientsetCache[key].clientset]
       \/ /\ ~Usable(key)
          /\ blockedClientsetPrefixes[PrefixOf(key)] /= "no"
          /\ call' = [call EXCEPT ![c].pc = "finish"]
          /\ UNCHANGED clientsetCache
       \/ /\ ~Usable(key)
          /\ blockedClientsetPrefixes[PrefixOf(key)] = "no"
          /\ clientsetCache' = [clientsetCache EXCEPT ![key] =
                                  [clientset |-> call[c].res, fresh |-> TRUE]]
          /\ call' = [call EXCEPT ![c].pc = "finish"]
    /\ UNCHANGED <<inFlight, blockedClientsetPrefixes, removals>>

(***************************************************************************)
(* finishInFlightClientset: the result is put on the entry, the key leaves *)
(* inFlight and waitCh is closed.  The fields of the entry are not written *)
(* again, so each waiter has its result from this step on.  The creator    *)
(* returns.                                                                *)
(***************************************************************************)
\* Mutant of Finish: an error is returned without waking anybody.
FinishForgetsWaiters(c) ==
    LET key == KeyOf(c) IN
    /\ At(c, "finish")
    /\ inFlight' = [inFlight EXCEPT ![key] = Nil]
    /\ call' = [w \in Callers |->
         IF At(w, "wait") /\ KeyOf(w) = key /\ call[c].res /= Error
         THEN [call[w] EXCEPT !.pc = "woken", !.res = call[c].res]
         ELSE IF w = c THEN [call[c] EXCEPT !.pc = "idle"] ELSE call[w]]
    /\ UNCHANGED <<clientsetCache, blockedClientsetPrefixes, removals>>

Finish(c) ==
    LET key == KeyOf(c) IN
    /\ At(c, "finish")
    /\ inFlight' = [inFlight EXCEPT ![key] = Nil]
    /\ call' = [w \in Callers |->
         IF At(w, "wait") /\ KeyOf(w) = key
         THEN [call[w] EXCEPT !.pc = "woken", !.res = call[c].res]
         ELSE IF w = c THEN [call[c] EXCEPT !.pc = "idle"] ELSE call[w]]
    /\ UNCHANGED <<clientsetCache, blockedClientsetPrefixes, removals>>

\* waitForInFlightClientset returns.
Wake(c) ==
    /\ At(c, "woken")
    /\ call' = Returns(c, call[c].res)
    /\ UNCHANGED <<clientsetCache, inFlight, blockedClientsetPrefixes, removals>>

-----------------------------------------------------------------------------
\* EvictClientsetsForCluster, when a context has been removed.
EvictClientsetsForCluster(p) ==
    /\ removals[p] < MaxEvictions
    /\ removals' = [removals EXCEPT ![p] = @ + 1]
    /\ blockedClientsetPrefixes' = [blockedClientsetPrefixes EXCEPT ![p] = "young"]
    /\ clientsetCache' = [k \in Keys |->
                            IF HasPrefix(k, p) THEN Nil ELSE clientsetCache[k]]
    /\ UNCHANGED <<inFlight, call>>

\* clearBlockedClientsetPrefixesForActiveContexts
ClearBlocked(active) ==
    /\ blockedClientsetPrefixes' = [p \in Contexts |->
         IF p \in active THEN "no" ELSE blockedClientsetPrefixes[p]]
    /\ UNCHANGED <<clientsetCache, inFlight, call, removals>>

\* hasClientsetActivityForPrefix, given what is left of the cache.
Activity(cached, p) ==
    \E k \in Keys : HasPrefix(k, p) /\ (cached[k] /= Nil \/ inFlight[k] /= Nil)

\* evictExpiredClientsets with pruneBlockedClientsetPrefixesLocked.
Janitor ==
    LET kept == [k \in Keys |-> IF Usable(k) THEN clientsetCache[k] ELSE Nil] IN
    /\ clientsetCache' = kept
    /\ blockedClientsetPrefixes' = [p \in Contexts |->
         IF blockedClientsetPrefixes[p] = "old" /\ ~Activity(kept, p)
         THEN "no" ELSE blockedClientsetPrefixes[p]]
    /\ UNCHANGED <<inFlight, call, removals>>

\* clientsetTTL elapses.
EntryExpires(k) ==
    /\ Usable(k)
    /\ clientsetCache' = [clientsetCache EXCEPT ![k].fresh = FALSE]
    /\ UNCHANGED <<inFlight, blockedClientsetPrefixes, call, removals>>

BlockAges(p) ==
    /\ blockedClientsetPrefixes[p] = "young"
    /\ blockedClientsetPrefixes' = [blockedClientsetPrefixes EXCEPT ![p] = "old"]
    /\ UNCHANGED <<clientsetCache, inFlight, call, removals>>

-----------------------------------------------------------------------------
CallerStep(c) == Recheck(c) \/ Create(c) \/ Store(c) \/ Finish(c) \/ Wake(c)

Next ==
    \/ \E c \in Callers, u \in Credentials : GetClientSet(c, u[1], u[2])
    \/ \E c \in Callers : CallerStep(c)
    \/ \E p \in Contexts : EvictClientsetsForCluster(p)
    \/ \E active \in SUBSET Contexts : ClearBlocked(active)
    \/ Janitor
    \/ \E k \in Keys : EntryExpires(k)
    \/ \E p \in Contexts : BlockAges(p)

Spec == Init /\ [][Next]_vars

\* A goroutine that is not blocked runs; creating a clientset ends.
FairSpec == Spec /\ \A c \in Callers : WF_vars(CallerStep(c))

-----------------------------------------------------------------------------
(***************************************************************************)
(* Type invariant.                                                         *)
(***************************************************************************)
TypeOK ==
    /\ clientsetCache \in [Keys -> Entry \cup {Nil}]
    /\ inFlight \in [Keys -> Callers \cup {Nil}]
    /\ blockedClientsetPrefixes \in [Contexts -> {"no", "young", "old"}]
    /\ call \in [Callers -> Call]
    /\ removals \in [Contexts -> Nat]

Creating(c) == call[c].pc \in {"create", "store", "finish"}

(***************************************************************************)
(* Single flight: for each key at most one caller creates, and it is the   *)
(* one inFlight knows; a key is in flight only while its creator works.    *)
(***************************************************************************)
SingleFlight ==
    /\ \A c \in Callers : Creating(c) => inFlight[KeyOf(c)] = c
    /\ \A k \in Keys : inFlight[k] /= Nil =>
          Creating(inFlight[k]) /\ KeyOf(inFlight[k]) = k

(***************************************************************************)
(* A caller is only ever given a clientset of its own context and its own  *)
(* token: from the cache, from a creator it waited for, or from a creation *)
(* of its own.  A request is authorized as the user who sent it.           *)
(***************************************************************************)
OwnClientset ==
    \A c \in Callers :
        call[c].res \in Clientset =>
            call[c].res.ctx = call[c].ctx /\ call[c].res.token = call[c].token

(***************************************************************************)
(* While a context is blocked none of its clientsets is cached, also when  *)
(* one was being created at the time of the eviction.                      *)
(***************************************************************************)
BlockedNotCached ==
    \A k \in Keys : blockedClientsetPrefixes[PrefixOf(k)] /= "no" => ~Cached(k)

(***************************************************************************)
(* "blockedClientsetPrefixes holds context keys whose clientsets must not  *)
(* be re-cached after context removal."  What is cached belongs to the     *)
(* present life of its context.                                            *)
(***************************************************************************)
RemovedNotRecached ==
    \A k \in Keys : Cached(k) => clientsetCache[k].clientset.life = removals[PrefixOf(k)]

(***************************************************************************)
(* Every call of GetClientSet returns, also to those who wait for another  *)
(* caller's creation, whether it succeeds or fails.                        *)
(***************************************************************************)
CallsReturn == \A c \in Callers : call[c].pc /= "idle" ~> call[c].pc = "idle"
=============================================================================
