--------------------------- MODULE SecureStorage ---------------------------
(***************************************************************************)
(* The encrypted plugin storage of the desktop app                         *)
(* (app/electron/secureStorage.ts).                                        *)
(*                                                                         *)
(* The main process answers one IPC call at a time.  Reading the file and  *)
(* checking the limits is one step; the write is the sequence open, write, *)
(* fsync, rename, each of which may fail or be the last thing before a     *)
(* crash.  A page load registers the plugin namespaces once and gets one   *)
(* capability for each; a capability is identified here by the page load   *)
(* and the namespace, because randomBytes never repeats one.               *)
(*                                                                         *)
(* Names, keys and values are valid ones; an invalid one is refused before *)
(* anything is read and changes nothing.  Encryption (Electron's           *)
(* safeStorage) is external: it is available or not, call by call.         *)
(* The rename is taken as atomic, as it is on POSIX file systems.          *)
(***************************************************************************)
EXTENDS Naturals, FiniteSets

CONSTANTS
    Namespaces,      \* plugin namespaces that may be registered
    LocalKeys,       \* plugin-local keys
    Values,          \* plaintext values
    NoValue,         \* an absent entry
    Torn,            \* contents of a file whose data did not reach the disk
    NoOp,            \* no call in progress
    MaxNamespaces,   \* MAX_NAMESPACES
    MaxEntries,      \* MAX_ENTRIES_PER_NAMESPACE
    MaxLoads         \* bound: page loads

ASSUME LimitsAssumption ==
    MaxNamespaces \in Nat /\ MaxEntries \in Nat /\ MaxLoads \in Nat

ASSUME ValuesAssumption == NoValue \notin Values

Entries == Namespaces \X LocalKeys

Map == [Entries -> Values \cup {NoValue}]

ASSUME DistinctAssumption == Torn \notin Map

VARIABLES
    file,      \* secure-storage.json: contents, and whether they are on the disk
    durable,   \* the file a crash may bring back: the last one whose name is on the disk
    tmp,       \* the temporary file of the call in progress
    op,        \* the call in progress: the map it writes and how far it is
    registrationAllowed,
    namespaceByCapability,  \* the capabilities: [load, ns]
    page       \* the main frame: which load, trusted document or not, navigating or not

vars == <<file, durable, tmp, op, registrationAllowed, namespaceByCapability, page>>

handlers == <<registrationAllowed, namespaceByCapability, page>>

-----------------------------------------------------------------------------
File == [contents : Map \cup {Torn}, synced : BOOLEAN]

EmptyMap == [e \in Entries |-> NoValue]

\* Before the first save there is no file, which reads as an empty store.
NoFile == [contents |-> EmptyMap, synced |-> TRUE]

Capability == [load : Nat, ns : Namespaces]

Op == [entry : Entries, value : Values \cup {NoValue}, pc : {"write", "fsync", "rename"}]

TypeOK ==
    /\ file \in File
    /\ durable \in File
    /\ tmp \in File
    /\ op \in Op \cup {NoOp}
    /\ registrationAllowed \in BOOLEAN
    /\ namespaceByCapability \subseteq Capability
    /\ page \in [load : Nat, trusted : BOOLEAN, navigating : BOOLEAN]

Init ==
    /\ file = NoFile
    /\ durable = NoFile
    /\ tmp = NoFile
    /\ op = NoOp
    /\ registrationAllowed = TRUE
    /\ namespaceByCapability = {}
    /\ page = [load |-> 0, trusted |-> TRUE, navigating |-> FALSE]

-----------------------------------------------------------------------------
(***************************************************************************)
(* Capabilities.                                                           *)
(***************************************************************************)
\* fromMainWindow: the main frame shows the Headlamp document.
FromMainWindow == page.trusted

\* SECURE_STORAGE_REGISTER: once per page load.
Register(S) ==
    /\ op = NoOp
    /\ FromMainWindow
    /\ registrationAllowed
    /\ registrationAllowed' = FALSE
    /\ namespaceByCapability' = IF Cardinality(S) > MaxNamespaces
                                THEN {}
                                ELSE {[load |-> page.load, ns |-> n] : n \in S}
    /\ UNCHANGED <<file, durable, tmp, op, page>>

\* Mutant: what the previous page registered stays valid until the new one is there.
KeepsCapabilities == namespaceByCapability

ForgetCapabilities == {}

\* did-start-navigation of the main frame to another document.
StartNavigation ==
    /\ op = NoOp
    /\ ~page.navigating
    /\ registrationAllowed' = FALSE
    /\ namespaceByCapability' = ForgetCapabilities
    /\ page' = [page EXCEPT !.navigating = TRUE]
    /\ UNCHANGED <<file, durable, tmp, op>>

\* did-frame-navigate: the new document is there.
FrameNavigate(trusted) ==
    /\ op = NoOp
    /\ page.navigating
    /\ page.load < MaxLoads
    /\ page' = [load |-> page.load + 1, trusted |-> trusted, navigating |-> FALSE]
    /\ registrationAllowed' = trusted
    /\ namespaceByCapability' = ForgetCapabilities
    /\ UNCHANGED <<file, durable, tmp, op>>

\* The navigation ends without a document (a download, an empty answer).
NavigationAborted ==
    /\ op = NoOp
    /\ page.navigating
    /\ page' = [page EXCEPT !.navigating = FALSE]
    /\ UNCHANGED <<file, durable, tmp, op, registrationAllowed, namespaceByCapability>>

\* setupSecureStorageHandlers for a window that replaces the main window.
Recreate ==
    /\ op = NoOp
    /\ page.load < MaxLoads
    /\ page' = [load |-> page.load + 1, trusted |-> TRUE, navigating |-> FALSE]
    /\ registrationAllowed' = TRUE
    /\ namespaceByCapability' = {}
    /\ UNCHANGED <<file, durable, tmp, op>>

-----------------------------------------------------------------------------
(***************************************************************************)
(* The store.                                                              *)
(***************************************************************************)
Stored(m) == {e \in Entries : m[e] # NoValue}

StoredOf(m, ns) == {e \in Stored(m) : e[1] = ns}

StoredNamespaces(m) == {e[1] : e \in Stored(m)}

\* Mutant: the namespace limit is compared too late by one.
WithinLimitsLate(m, e) ==
    /\ StoredOf(m, e[1]) = {} => Cardinality(StoredNamespaces(m)) <= MaxNamespaces
    /\ m[e] = NoValue => Cardinality(StoredOf(m, e[1])) < MaxEntries

\* The two limits of save.
WithinLimits(m, e) ==
    /\ StoredOf(m, e[1]) = {} => Cardinality(StoredNamespaces(m)) < MaxNamespaces
    /\ m[e] = NoValue => Cardinality(StoredOf(m, e[1])) < MaxEntries

\* storedKey: the namespace is the one of the capability.
EntryOf(c, k) == <<c.ns, k>>

\* The complete snapshot the call is going to write.
Snapshot(e, v) == [file.contents EXCEPT ![e] = v]

\* save, up to the open of the temporary file.  A read that fails, encryption
\* that is not available or a limit end the call with nothing changed.
Save(c, k, v) ==
    /\ op = NoOp
    /\ FromMainWindow
    /\ c \in namespaceByCapability
    /\ file.contents # Torn
    /\ WithinLimits(file.contents, EntryOf(c, k))
    /\ op' = [entry |-> EntryOf(c, k), value |-> v, pc |-> "write"]
    /\ tmp' = [contents |-> EmptyMap, synced |-> FALSE]
    /\ UNCHANGED <<file, durable, handlers>>

\* delete, up to the open of the temporary file; an absent entry is a success.
Delete(c, k) ==
    /\ op = NoOp
    /\ FromMainWindow
    /\ c \in namespaceByCapability
    /\ file.contents # Torn
    /\ file.contents[EntryOf(c, k)] # NoValue
    /\ op' = [entry |-> EntryOf(c, k), value |-> NoValue, pc |-> "write"]
    /\ tmp' = [contents |-> EmptyMap, synced |-> FALSE]
    /\ UNCHANGED <<file, durable, handlers>>

WriteTmp ==
    /\ op # NoOp
    /\ op.pc = "write"
    /\ tmp' = [contents |-> Snapshot(op.entry, op.value), synced |-> FALSE]
    /\ op' = [op EXCEPT !.pc = "fsync"]
    /\ UNCHANGED <<file, durable, handlers>>

\* Mutant: the write is not flushed before the rename.
FlushedLater(f) == f

Flushed(f) == [f EXCEPT !.synced = TRUE]

FsyncTmp ==
    /\ op # NoOp
    /\ op.pc = "fsync"
    /\ tmp' = Flushed(tmp)
    /\ op' = [op EXCEPT !.pc = "rename"]
    /\ UNCHANGED <<file, durable, handlers>>

RenameTmp ==
    /\ op # NoOp
    /\ op.pc = "rename"
    /\ file' = tmp
    /\ op' = NoOp
    /\ tmp' = NoFile
    /\ UNCHANGED <<durable, handlers>>

\* Any step of the write throws; the destination is as it was.  What a failing
\* write or fsync leaves of the temporary file is dropped: it has a name of its
\* own, and nothing reads it.
WriteFails ==
    /\ op # NoOp
    /\ op' = NoOp
    /\ tmp' = NoFile
    /\ UNCHANGED <<file, durable, handlers>>

(***************************************************************************)
(* The machine.  The operating system writes data and names back when it   *)
(* likes; the code does not fsync the directory, so a rename becomes       *)
(* durable only then.  A crash loses unsynced contents, and may bring back *)
(* the file of the last durable name.  The app starts again with a new     *)
(* window.                                                                 *)
(***************************************************************************)
WriteBack ==
    /\ file' = [file EXCEPT !.synced = TRUE]
    /\ durable' = file'
    /\ UNCHANGED <<tmp, op, handlers>>

AfterCrash(f) == [contents |-> IF f.synced THEN f.contents ELSE Torn, synced |-> TRUE]

Crash ==
    /\ page.load < MaxLoads
    /\ file' \in {AfterCrash(file), durable}
    /\ durable' = file'
    /\ op' = NoOp
    /\ tmp' = NoFile
    /\ page' = [load |-> page.load + 1, trusted |-> TRUE, navigating |-> FALSE]
    /\ registrationAllowed' = TRUE
    /\ namespaceByCapability' = {}

Next ==
    \/ \E S \in SUBSET Namespaces : Register(S)
    \/ StartNavigation
    \/ \E trusted \in BOOLEAN : FrameNavigate(trusted)
    \/ NavigationAborted
    \/ Recreate
    \/ \E c \in namespaceByCapability, k \in LocalKeys :
          Delete(c, k) \/ \E v \in Values : Save(c, k, v)
    \/ WriteTmp
    \/ FsyncTmp
    \/ RenameTmp
    \/ WriteFails
    \/ WriteBack
    \/ Crash

Spec == Init /\ [][Next]_vars

-----------------------------------------------------------------------------
(***************************************************************************)
(* The shared file never holds more namespaces, nor one namespace more     *)
(* entries, than save allows, whatever the order of saves, deletes and     *)
(* crashes that bring an older file back.                                  *)
(***************************************************************************)
LimitsHold ==
    file.contents # Torn =>
        /\ Cardinality(StoredNamespaces(file.contents)) <= MaxNamespaces
        /\ \A ns \in Namespaces : Cardinality(StoredOf(file.contents, ns)) <= MaxEntries

(***************************************************************************)
(* "Electron ... forgets all tokens when main-frame navigation starts": a  *)
(* capability that the handlers accept was issued to the document that is  *)
(* in the main frame now, that document is Headlamp's own, and it is not   *)
(* on its way out.                                                         *)
(***************************************************************************)
CapabilitiesOfThisPage ==
    \A c \in namespaceByCapability :
        c.load = page.load /\ page.trusted /\ ~page.navigating

(***************************************************************************)
(* The store is a durable map: one call changes one entry of the           *)
(* namespace of its capability and leaves every other plugin's entries     *)
(* alone, a failed or interrupted call changes nothing, and a crash        *)
(* anywhere in writeSecureStorageFile never leaves a partial file.         *)
(***************************************************************************)
Promise == INSTANCE DurableMap WITH data <- file.contents, stable <- durable.contents

ImplementsDurableMap == Promise!Spec

=============================================================================
