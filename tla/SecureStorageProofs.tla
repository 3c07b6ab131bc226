------------------------ MODULE SecureStorageProofs ------------------------
(***************************************************************************)
(* Proofs about SecureStorage, for any namespaces, keys, values and        *)
(* limits: its invariants, and that it implements DurableMap.              *)
(***************************************************************************)
EXTENDS SecureStorage, FiniteSetTheorems, TLAPS

\* The file and the one a crash brings back are complete and on the disk.
FilesComplete ==
    /\ file.contents \in Map /\ file.synced = TRUE
    /\ durable.contents \in Map /\ durable.synced = TRUE

\* What the temporary file holds at each step of a write.
TmpIsSnapshot ==
    op # NoOp =>
        /\ op.pc \in {"fsync", "rename"} => tmp.contents = Snapshot(op.entry, op.value)
        /\ op.pc = "rename" => tmp.synced = TRUE

\* The document in the main frame may register only while it stays there.
RegistrationOfThisPage == registrationAllowed => page.trusted /\ ~page.navigating

SafetyInv ==
    TypeOK /\ FilesComplete /\ TmpIsSnapshot /\ RegistrationOfThisPage /\ CapabilitiesOfThisPage

-----------------------------------------------------------------------------
\* A snapshot of one more entry is a map.
LEMMA SnapshotIsMap ==
    ASSUME file.contents \in Map, NEW e \in Entries, NEW v \in Values \cup {NoValue}
    PROVE  Snapshot(e, v) \in Map
BY DEF Snapshot, Map

LEMMA EmptyMapIsMap == EmptyMap \in Map
BY DEF EmptyMap, Map

LEMMA NoFileIsFile == NoFile \in File /\ NoFile.contents \in Map /\ NoFile.synced = TRUE
BY EmptyMapIsMap DEF NoFile, File

LEMMA InitSafety == Init => SafetyInv
BY NoFileIsFile DEF Init, SafetyInv, TypeOK, FilesComplete, TmpIsSnapshot,
                    RegistrationOfThisPage, CapabilitiesOfThisPage

\* The steps of the handlers leave the files alone.
LEMMA HandlersSafety ==
    ASSUME SafetyInv,
           \/ \E S \in SUBSET Namespaces : Register(S)
           \/ StartNavigation
           \/ \E trusted \in BOOLEAN : FrameNavigate(trusted)
           \/ NavigationAborted
           \/ Recreate
    PROVE  SafetyInv'
<1> USE DEF SafetyInv, TypeOK, FilesComplete, TmpIsSnapshot, RegistrationOfThisPage,
            CapabilitiesOfThisPage, Snapshot
<1>1. ASSUME NEW S \in SUBSET Namespaces, Register(S) PROVE SafetyInv'
  <2>1. namespaceByCapability' \subseteq {[load |-> page.load, ns |-> n] : n \in S}
    BY <1>1 DEF Register
  <2>2. namespaceByCapability' \subseteq Capability
    BY <2>1 DEF Capability
  <2>3. \A c \in namespaceByCapability' : c.load = page.load
    BY <2>1
  <2> QED BY <1>1, <2>2, <2>3 DEF Register
<1>2. CASE StartNavigation
  BY <1>2 DEF StartNavigation, ForgetCapabilities
<1>3. ASSUME NEW trusted \in BOOLEAN, FrameNavigate(trusted) PROVE SafetyInv'
  BY <1>3 DEF FrameNavigate, ForgetCapabilities
<1>4. CASE NavigationAborted
  BY <1>4 DEF NavigationAborted
<1>5. CASE Recreate
  BY <1>5 DEF Recreate
<1> QED BY <1>1, <1>2, <1>3, <1>4, <1>5

\* The steps of the store and of the machine.
LEMMA StoreSafety ==
    ASSUME SafetyInv,
           \/ \E c \in namespaceByCapability, k \in LocalKeys :
                 Delete(c, k) \/ \E v \in Values : Save(c, k, v)
           \/ WriteTmp \/ FsyncTmp \/ RenameTmp \/ WriteFails \/ WriteBack \/ Crash
    PROVE  SafetyInv'
<1> USE DEF SafetyInv, TypeOK, FilesComplete, TmpIsSnapshot, RegistrationOfThisPage,
            CapabilitiesOfThisPage
<1>0. EmptyMap \in Map
  BY EmptyMapIsMap
<1>1. ASSUME NEW c \in namespaceByCapability, NEW k \in LocalKeys,
             NEW v \in Values \cup {NoValue}, Save(c, k, v) \/ (v = NoValue /\ Delete(c, k))
      PROVE  SafetyInv'
  <2>1. EntryOf(c, k) \in Entries
    BY <1>1 DEF EntryOf, Entries, Capability
  <2>a. op' = [entry |-> EntryOf(c, k), value |-> v, pc |-> "write"]
    BY <1>1 DEF Save, Delete
  <2>b. tmp' = [contents |-> EmptyMap, synced |-> FALSE]
    BY <1>1 DEF Save, Delete
  <2>2. op' \in Op /\ op'.pc = "write" /\ tmp' \in File
    BY <1>0, <2>1, <2>a, <2>b DEF Op, File
  <2> QED BY <1>1, <2>2 DEF Save, Delete, handlers
<1>2. CASE WriteTmp
  <2>1. op \in Op /\ op.entry \in Entries /\ op.value \in Values \cup {NoValue}
    BY <1>2 DEF WriteTmp, Op
  <2>2. Snapshot(op.entry, op.value) \in Map
    BY <2>1, SnapshotIsMap
  <2>3. op' \in Op /\ op'.pc = "fsync" /\ op'.entry = op.entry /\ op'.value = op.value
    BY <1>2, <2>1 DEF WriteTmp, Op
  <2>4. tmp' \in File /\ tmp'.contents = Snapshot(op.entry, op.value)
    BY <1>2, <2>2 DEF WriteTmp, File
  <2>5. TmpIsSnapshot'
    BY <1>2, <2>3, <2>4 DEF WriteTmp, Snapshot
  <2> QED BY <1>2, <2>3, <2>4, <2>5 DEF WriteTmp, handlers
<1>3. CASE FsyncTmp
  <2>1. op' \in Op /\ op'.entry = op.entry /\ op'.value = op.value
    BY <1>3 DEF FsyncTmp, Op
  <2>2. tmp' \in File /\ tmp'.contents = tmp.contents /\ tmp'.synced = TRUE
    BY <1>3 DEF FsyncTmp, Flushed, File
  <2>3. TmpIsSnapshot'
    BY <1>3, <2>1, <2>2 DEF FsyncTmp, Snapshot
  <2> QED BY <1>3, <2>1, <2>2, <2>3 DEF FsyncTmp, handlers
<1>4. CASE RenameTmp
  <2>1. op \in Op /\ op.entry \in Entries /\ op.value \in Values \cup {NoValue}
    BY <1>4 DEF RenameTmp, Op
  <2>2. tmp.contents \in Map /\ tmp.synced = TRUE
    BY <1>4, <2>1, SnapshotIsMap DEF RenameTmp
  <2> QED BY <1>4, <2>2, NoFileIsFile DEF RenameTmp, handlers
<1>5. CASE WriteFails
  BY <1>5, NoFileIsFile DEF WriteFails, handlers
<1>6. CASE WriteBack
  <2>1. file' \in File /\ file'.contents = file.contents /\ file'.synced = TRUE
    BY <1>6 DEF WriteBack, File
  <2>2. TmpIsSnapshot'
    BY <1>6, <2>1 DEF WriteBack, Snapshot
  <2> QED BY <1>6, <2>1, <2>2 DEF WriteBack, handlers
<1>7. CASE Crash
  <2>1. file' \in File /\ file'.contents \in Map /\ file'.synced = TRUE
    BY <1>7 DEF Crash, AfterCrash, File
  <2>2. page' \in [load : Nat, trusted : BOOLEAN, navigating : BOOLEAN] /\ page'.trusted /\ ~page'.navigating
    BY <1>7 DEF Crash
  <2> QED BY <1>7, <2>1, <2>2, NoFileIsFile DEF Crash
<1> QED BY <1>1, <1>2, <1>3, <1>4, <1>5, <1>6, <1>7

LEMMA NextSafety == SafetyInv /\ [Next]_vars => SafetyInv'
<1> SUFFICES ASSUME SafetyInv, [Next]_vars PROVE SafetyInv'
  OBVIOUS
<1>1. CASE Next
  BY <1>1, HandlersSafety, StoreSafety DEF Next
<1>2. CASE UNCHANGED vars
  BY <1>2 DEF vars, SafetyInv, TypeOK, FilesComplete, TmpIsSnapshot, RegistrationOfThisPage,
              CapabilitiesOfThisPage, Snapshot
<1> QED BY <1>1, <1>2

LEMMA SafetyHolds == Spec => []SafetyInv
BY InitSafety, NextSafety, PTL DEF Spec

(***************************************************************************)
(* Files, calls and capabilities have their types.                         *)
(***************************************************************************)
THEOREM TypeCorrect == Spec => []TypeOK
BY SafetyHolds, PTL DEF SafetyInv

(***************************************************************************)
(* A capability the handlers accept belongs to the document in the main    *)
(* frame, which is Headlamp's own and not on its way out.                  *)
(***************************************************************************)
THEOREM CapabilitiesAreOfThisPage == Spec => []CapabilitiesOfThisPage
BY SafetyHolds, PTL DEF SafetyInv

-----------------------------------------------------------------------------
(***************************************************************************)
(* The limits.  A namespace or an entry more is one element more, so what  *)
(* save has checked is enough; it stays true while the call is in progress *)
(* because nothing else changes the file then.                             *)
(***************************************************************************)
Bounded(m) ==
    /\ IsFiniteSet(StoredNamespaces(m)) /\ Cardinality(StoredNamespaces(m)) <= MaxNamespaces
    /\ \A ns \in Namespaces :
          IsFiniteSet(StoredOf(m, ns)) /\ Cardinality(StoredOf(m, ns)) <= MaxEntries

LimitsInv ==
    /\ Bounded(file.contents)
    /\ Bounded(durable.contents)
    /\ op # NoOp /\ op.value # NoValue => WithinLimits(file.contents, op.entry)

\* One element more, and only if there is room.
LEMMA OneMore ==
    ASSUME NEW S, NEW T, NEW x, NEW n \in Nat, IsFiniteSet(S), Cardinality(S) <= n,
           T \subseteq S \cup {x}, x \in T => x \in S \/ Cardinality(S) < n
    PROVE  IsFiniteSet(T) /\ Cardinality(T) <= n
<1>1. Cardinality(S) \in Nat
  BY FS_CardinalityType
<1>2. CASE T \subseteq S
  BY <1>1, <1>2, FS_Subset, FS_CardinalityType
<1>3. CASE ~(T \subseteq S)
  <2>1. x \in T /\ x \notin S
    BY <1>3
  <2>2. IsFiniteSet(S \cup {x}) /\ Cardinality(S \cup {x}) = Cardinality(S) + 1
    BY <2>1, FS_AddElement
  <2>3. IsFiniteSet(T) /\ Cardinality(T) <= Cardinality(S \cup {x})
    BY <2>2, FS_Subset
  <2>4. Cardinality(T) \in Nat
    BY <2>3, FS_CardinalityType
  <2> QED BY <1>1, <2>1, <2>2, <2>3, <2>4
<1> QED BY <1>2, <1>3

LEMMA BoundedAfter ==
    ASSUME NEW m \in Map, Bounded(m), NEW e \in Entries, NEW v \in Values \cup {NoValue},
           v # NoValue => WithinLimits(m, e)
    PROVE  Bounded([m EXCEPT ![e] = v])
<1> DEFINE n == [m EXCEPT ![e] = v]
<1>1. Stored(n) \subseteq Stored(m) \cup {e} /\ (e \in Stored(n) => v # NoValue)
  BY DEF Stored, Map
<1>2. IsFiniteSet(StoredNamespaces(n)) /\ Cardinality(StoredNamespaces(n)) <= MaxNamespaces
  <2>1. StoredNamespaces(n) \subseteq StoredNamespaces(m) \cup {e[1]}
    BY <1>1 DEF StoredNamespaces
  <2>2. e[1] \in StoredNamespaces(n) =>
            e[1] \in StoredNamespaces(m) \/ Cardinality(StoredNamespaces(m)) < MaxNamespaces
    <3> SUFFICES ASSUME e[1] \in StoredNamespaces(n), e[1] \notin StoredNamespaces(m)
                 PROVE  Cardinality(StoredNamespaces(m)) < MaxNamespaces
      OBVIOUS
    <3>1. PICK d \in Stored(n) : d[1] = e[1]
      BY DEF StoredNamespaces
    <3>2. d \notin Stored(m)
      BY <3>1 DEF StoredNamespaces
    <3>3. d = e /\ v # NoValue
      BY <1>1, <3>1, <3>2
    <3>4. StoredOf(m, e[1]) = {}
      BY DEF StoredOf, StoredNamespaces
    <3> QED BY <3>3, <3>4 DEF WithinLimits
  <2> HIDE DEF n
  <2> QED BY <2>1, <2>2, OneMore, LimitsAssumption DEF Bounded
<1>3. ASSUME NEW ns \in Namespaces
      PROVE  IsFiniteSet(StoredOf(n, ns)) /\ Cardinality(StoredOf(n, ns)) <= MaxEntries
  <2>1. StoredOf(n, ns) \subseteq StoredOf(m, ns) \cup {e}
    BY <1>1 DEF StoredOf
  <2>2. e \in StoredOf(n, ns) => e \in StoredOf(m, ns) \/ Cardinality(StoredOf(m, ns)) < MaxEntries
    <3> SUFFICES ASSUME e \in StoredOf(n, ns), e \notin StoredOf(m, ns)
                 PROVE  Cardinality(StoredOf(m, ns)) < MaxEntries
      OBVIOUS
    <3>1. v # NoValue /\ e[1] = ns /\ m[e] = NoValue
      BY <1>1 DEF StoredOf, Stored
    <3> QED BY <3>1 DEF WithinLimits
  <2> HIDE DEF n
  <2> QED BY <2>1, <2>2, OneMore, LimitsAssumption DEF Bounded
<1> QED BY <1>2, <1>3 DEF Bounded

LEMMA InitLimits == Init => LimitsInv
<1> SUFFICES ASSUME Init PROVE LimitsInv
  OBVIOUS
<1>1. Stored(EmptyMap) = {}
  BY DEF Stored, EmptyMap
<1>2. StoredNamespaces(EmptyMap) = {} /\ \A ns \in Namespaces : StoredOf(EmptyMap, ns) = {}
  BY <1>1 DEF StoredNamespaces, StoredOf
<1>3. IsFiniteSet({}) /\ Cardinality({}) = 0
  BY FS_EmptySet
<1>4. Bounded(EmptyMap)
  BY <1>2, <1>3, LimitsAssumption DEF Bounded
<1> QED BY <1>4 DEF Init, NoFile, LimitsInv

LEMMA NextLimits == SafetyInv /\ LimitsInv /\ [Next]_vars => LimitsInv'
<1> SUFFICES ASSUME SafetyInv, LimitsInv, [Next]_vars PROVE LimitsInv'
  OBVIOUS
<1> USE DEF LimitsInv
<1>1. CASE \/ \E S \in SUBSET Namespaces : Register(S)
           \/ StartNavigation
           \/ \E trusted \in BOOLEAN : FrameNavigate(trusted)
           \/ NavigationAborted
           \/ Recreate
           \/ UNCHANGED vars
  <2>1. UNCHANGED <<file, durable, op>>
    BY <1>1 DEF Register, StartNavigation, FrameNavigate, NavigationAborted, Recreate, vars
  <2> QED BY <2>1
<1>2. ASSUME NEW c \in namespaceByCapability, NEW k \in LocalKeys,
             Delete(c, k) \/ \E v \in Values : Save(c, k, v)
      PROVE  LimitsInv'
  <2>1. UNCHANGED <<file, durable>>
    BY <1>2 DEF Save, Delete
  <2>2. op'.value # NoValue => WithinLimits(file.contents, op'.entry)
    BY <1>2 DEF Save, Delete
  <2> QED BY <2>1, <2>2
<1>3. CASE WriteTmp \/ FsyncTmp
  <2>1. op \in Op
    BY <1>3 DEF WriteTmp, FsyncTmp, SafetyInv, TypeOK
  <2>2. op'.value = op.value /\ op'.entry = op.entry
    BY <1>3, <2>1 DEF WriteTmp, FsyncTmp, Op
  <2>3. UNCHANGED <<file, durable>> /\ op # NoOp
    BY <1>3 DEF WriteTmp, FsyncTmp
  <2> QED BY <2>2, <2>3
<1>4. CASE RenameTmp
  <2>1. op \in Op /\ op.entry \in Entries /\ op.value \in Values \cup {NoValue} /\ op # NoOp
    BY <1>4 DEF RenameTmp, SafetyInv, TypeOK, Op
  <2>2. file'.contents = Snapshot(op.entry, op.value)
    BY <1>4 DEF RenameTmp, SafetyInv, TmpIsSnapshot
  <2>3. file.contents \in Map
    BY DEF SafetyInv, FilesComplete
  <2>4. Bounded([file.contents EXCEPT ![op.entry] = op.value])
    BY <2>1, <2>3, BoundedAfter
  <2> QED BY <1>4, <2>2, <2>4 DEF RenameTmp, Snapshot
<1>5. CASE WriteFails
  BY <1>5 DEF WriteFails
<1>6. CASE WriteBack
  <2>1. file'.contents = file.contents /\ durable'.contents = file.contents /\ op' = op
    BY <1>6 DEF WriteBack, SafetyInv, TypeOK, File
  <2> QED BY <2>1
<1>7. CASE Crash
  <2>1. file'.contents \in {file.contents, durable.contents} /\ durable'.contents = file'.contents
    BY <1>7 DEF Crash, AfterCrash, SafetyInv, FilesComplete
  <2>2. op' = NoOp
    BY <1>7 DEF Crash
  <2> QED BY <2>1, <2>2
<1> QED BY <1>1, <1>2, <1>3, <1>4, <1>5, <1>6, <1>7 DEF Next

(***************************************************************************)
(* The limits of save hold for the file at all times, for any limits and   *)
(* any set of plugins and keys.                                            *)
(***************************************************************************)
THEOREM FileWithinLimits == Spec => []LimitsHold
<1>1. LimitsInv => LimitsHold
  BY DEF LimitsInv, Bounded, LimitsHold
<1> QED BY InitLimits, NextLimits, SafetyHolds, <1>1, PTL DEF Spec

-----------------------------------------------------------------------------
(***************************************************************************)
(* The refinement.  Only the rename, the write-back and the crash are      *)
(* visible; what the rename installs is the snapshot of the file as it is  *)
(* now, since one call is in progress at a time.                           *)
(***************************************************************************)
LEMMA StepRefines == SafetyInv /\ [Next]_vars => [Promise!Next]_(Promise!vars)
<1> SUFFICES ASSUME SafetyInv, [Next]_vars PROVE [Promise!Next]_(Promise!vars)
  OBVIOUS
<1>1. CASE UNCHANGED <<file, durable>>
  BY <1>1 DEF Promise!vars
<1>2. CASE RenameTmp
  <2>1. op.entry \in Entries /\ op.value \in Values \cup {NoValue}
    BY <1>2 DEF RenameTmp, SafetyInv, TypeOK, Op
  <2>2. file'.contents = [file.contents EXCEPT ![op.entry] = op.value]
    BY <1>2 DEF RenameTmp, SafetyInv, TmpIsSnapshot, Snapshot
  <2>3. durable' = durable
    BY <1>2 DEF RenameTmp
  <2>4. Promise!Assign(op.entry, op.value)
    BY <2>2, <2>3 DEF Promise!Assign
  <2> QED BY <2>1, <2>4 DEF Promise!Next
<1>3. CASE WriteBack
  <2>1. file'.contents = file.contents /\ durable'.contents = file.contents
    BY <1>3 DEF WriteBack, SafetyInv, TypeOK, File
  <2> QED BY <2>1 DEF Promise!Next, Promise!Persist
<1>4. CASE Crash
  <2>1. file'.contents \in {file.contents, durable.contents} /\ durable'.contents = file'.contents
    BY <1>4 DEF Crash, AfterCrash, SafetyInv, FilesComplete
  <2> QED BY <2>1 DEF Promise!Next, Promise!Crash
<1>5. CASE ~(RenameTmp \/ WriteBack \/ Crash)
  <2>1. UNCHANGED <<file, durable>>
    BY <1>5 DEF Next, vars, Register, StartNavigation, FrameNavigate, NavigationAborted,
                Recreate, Delete, Save, WriteTmp, FsyncTmp, WriteFails
  <2> QED BY <1>1, <2>1
<1> QED BY <1>2, <1>3, <1>4, <1>5

(***************************************************************************)
(* The store implements the durable map: whatever fails and whenever the   *)
(* machine crashes, one call changes one entry completely or nothing.      *)
(***************************************************************************)
THEOREM StoreIsADurableMap == Spec => ImplementsDurableMap
<1>1. Init => Promise!Init
  BY DEF Init, NoFile, EmptyMap, Promise!Init
<1> QED BY <1>1, StepRefines, SafetyHolds, PTL DEF Spec, ImplementsDurableMap, Promise!Spec

=============================================================================
