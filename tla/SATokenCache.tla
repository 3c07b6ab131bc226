---------------------------- MODULE SATokenCache ----------------------------
(***************************************************************************)
(* The service-account token cache of the websocket multiplexer            *)
(* (backend/cmd/multiplexer.go, readServiceAccountToken).                  *)
(*                                                                         *)
(* Several goroutines call readServiceAccountToken(path) at the same time  *)
(* while the kubelet rotates the token files.  The lock saTokenMu covers   *)
(* the map only: the stat, the lookup, the read of the file and the store  *)
(* are four separate steps, and a rotation or a whole other call may fall  *)
(* between any two of them.                                                *)
(*                                                                         *)
(* A file is described by its modification time and by the token in it.    *)
(* A token carries the modification time the file had when it was written  *)
(* (`written') and a serial number, so that two rotations within one tick  *)
(* of the file system's clock give different tokens with equal times.      *)
(***************************************************************************)
EXTENDS Naturals

CONSTANTS
    Callers,    \* goroutines that call readServiceAccountToken
    Paths,      \* token files
    NoToken,    \* no token read yet
    NoEntry,    \* no entry in the map
    MaxTime,    \* bound: the last modification time
    MaxSerial   \* bound: the number of rotations of one file

ASSUME BoundsAssumption == MaxTime \in Nat /\ MaxSerial \in Nat

VARIABLES
    file,          \* path -> what is on disk
    saTokenCache,  \* path -> the entry of the map, or NoEntry
    call           \* caller -> its call in progress, or its last result

tokenVars == <<file, saTokenCache, call>>

-----------------------------------------------------------------------------
Token == [written : Nat, serial : Nat]

\* A file may be absent or empty for a moment while it is replaced.
Kinds == {"token", "empty", "missing"}

File == [kind : Kinds, modTime : Nat, serial : Nat]

Content(f) == [written |-> f.modTime, serial |-> f.serial]

\* saTokenCacheEntry: the token and the time the stat of the same call saw.
Entry == [token : Token, modTime : Nat]

ASSUME NullAssumption == NoToken \notin Token /\ NoEntry \notin Entry

(***************************************************************************)
(* The local variables of a call.  pc: idle before the first call; stat    *)
(* after os.Stat; read when the lookup missed; store when the file has     *)
(* been read; ok and error when the call has returned.                     *)
(***************************************************************************)
Call == [pc : {"idle", "stat", "read", "store", "ok", "error"},
         path : Paths, stat : Nat, token : Token \cup {NoToken}]

Returned(c) == call[c].pc \in {"idle", "ok", "error"}

-----------------------------------------------------------------------------
TokenInit ==
    /\ file \in [Paths -> [kind : Kinds, modTime : {0}, serial : {0}]]
    /\ saTokenCache = [p \in Paths |-> NoEntry]
    /\ call \in [Callers -> [pc : {"idle"}, path : Paths, stat : {0},
                             token : {NoToken}]]

\* os.Stat(path): the modification time, or an error when there is no file.
Stat(c, p) ==
    /\ Returned(c)
    /\ call' = [call EXCEPT ![c] =
                  [pc    |-> IF file[p].kind = "missing" THEN "error" ELSE "stat",
                   path  |-> p,
                   stat  |-> file[p].modTime,
                   token |-> NoToken]]
    /\ UNCHANGED <<file, saTokenCache>>

\* Mutant of Hit: any entry will do.
HitWithoutTime(entry, time) == entry /= NoEntry

\* The entry found under the read lock is used when it carries the very
\* modification time that the stat returned.
Hit(entry, time) == entry /= NoEntry /\ entry.modTime = time

Lookup(c) ==
    LET entry == saTokenCache[call[c].path] IN
    /\ call[c].pc = "stat"
    /\ call' = IF Hit(entry, call[c].stat)
               THEN [call EXCEPT ![c].pc = "ok", ![c].token = entry.token]
               ELSE [call EXCEPT ![c].pc = "read"]
    /\ UNCHANGED <<file, saTokenCache>>

\* os.ReadFile, with the errors for a missing and for an empty file.
ReadFile(c) ==
    LET f == file[call[c].path] IN
    /\ call[c].pc = "read"
    /\ call' = IF f.kind = "token"
               THEN [call EXCEPT ![c].pc = "store", ![c].token = Content(f)]
               ELSE [call EXCEPT ![c].pc = "error"]
    /\ UNCHANGED <<file, saTokenCache>>

\* The new entry: the token read, under the time of the stat before it.
NewEntry(c) == [token |-> call[c].token, modTime |-> call[c].stat]

Store(c) ==
    /\ call[c].pc = "store"
    /\ saTokenCache' = [saTokenCache EXCEPT ![call[c].path] = NewEntry(c)]
    /\ call' = [call EXCEPT ![c].pc = "ok"]
    /\ UNCHANGED file

(***************************************************************************)
(* The kubelet, outside the program: the file is removed, truncated or     *)
(* replaced by a new token.  Time never goes back; it may stand still      *)
(* between two rotations.                                                  *)
(***************************************************************************)
Rotate(p) ==
    \E kind \in Kinds, tick \in {0, 1} :
        /\ file[p].serial < MaxSerial
        /\ file[p].modTime + tick <= MaxTime
        /\ file' = [file EXCEPT ![p] = [kind    |-> kind,
                                        modTime |-> file[p].modTime + tick,
                                        serial  |-> file[p].serial + 1]]
        /\ UNCHANGED <<saTokenCache, call>>

TokenNext ==
    \/ \E c \in Callers, p \in Paths : Stat(c, p)
    \/ \E c \in Callers : Lookup(c)
    \/ \E c \in Callers : ReadFile(c)
    \/ \E c \in Callers : Store(c)
    \/ \E p \in Paths : Rotate(p)

TokenSpec == TokenInit /\ [][TokenNext]_tokenVars

-----------------------------------------------------------------------------
(***************************************************************************)
(* Type invariant.                                                         *)
(***************************************************************************)
TokenTypeOK ==
    /\ file \in [Paths -> File]
    /\ saTokenCache \in [Paths -> Entry \cup {NoEntry}]
    /\ call \in [Callers -> Call]

(***************************************************************************)
(* readServiceAccountToken promises a token "refreshed when the file's     *)
(* mtime changes": a call that returns never returns a token written       *)
(* before the modification time that its own stat saw, whatever older      *)
(* calls stored in the meantime.                                           *)
(***************************************************************************)
NeverStale ==
    \A c \in Callers :
        call[c].pc = "ok" => call[c].token.written >= call[c].stat

(***************************************************************************)
(* Why: no entry of saTokenCache carries a modification time later than    *)
(* its token, because a call stats the file before it reads it.  A stat    *)
(* after the read would let a rotation in between brand an old token as    *)
(* new, and every later call would serve it.                               *)
(***************************************************************************)
EntryNotOlderThanItsTime ==
    \A p \in Paths :
        saTokenCache[p] /= NoEntry =>
            saTokenCache[p].token.written >= saTokenCache[p].modTime
=============================================================================
