---------------------------- MODULE StoreProofs ----------------------------
(***************************************************************************)
(* Proofs about the two stores an agent keeps on disk.  Identity: for      *)
(* every set of keys and devices, every bound of the counter and every set *)
(* of outcomes of the file replacement.  Queue: for every set of sequence  *)
(* numbers, bodies and limits.                                             *)
(***************************************************************************)
EXTENDS Identity, Queue, FiniteSetTheorems, TLAPS

(* A missing identity.json is not a valid one. *)
LEMMA NoFileIsNotPersisted == NoFile \notin Persisted
BY IdentityAssumption DEF NoFile, Persisted

(* Raising the counter of a valid record gives a valid record. *)
LEMMA NextRecord ==
    ASSUME NEW r \in Persisted, r.sequence < MaxSequence
    PROVE  /\ [r EXCEPT !.sequence = @ + 1] \in Persisted
           /\ [r EXCEPT !.sequence = @ + 1].sequence = r.sequence + 1
           /\ [r EXCEPT !.sequence = @ + 1].key = r.key
           /\ [r EXCEPT !.sequence = @ + 1].deviceID = r.deviceID
BY IdentityAssumption DEF Persisted

(* Appending to the history keeps it increasing when the new number is     *)
(* above everything in it.                                                 *)
LEMMA AppendIncreasing ==
    ASSUME NEW n \in 1 .. MaxSequence, IdentityTypeOK, SequencesIncrease,
           \A i \in DOMAIN issued : issued[i] < n,
           issued' = Append(issued, n)
    PROVE  /\ issued' \in Seq(1 .. MaxSequence)
           /\ SequencesIncrease'
           /\ \A i \in DOMAIN issued' : issued'[i] <= n
BY IdentityAssumption DEF IdentityTypeOK, SequencesIncrease

LEMMA IdentityInvInit == IdentityInit => IdentityInv
<1> SUFFICES ASSUME IdentityInit PROVE IdentityInv
  OBVIOUS
<1>1. issued = <<>> /\ issued \in Seq(1 .. MaxSequence) /\ DOMAIN issued = {}
  BY DEF IdentityInit
<1>2. running = FALSE /\ mem = NoFile /\ disk = NoFile
  BY DEF IdentityInit
<1>3. IdentityTypeOK
  BY <1>1, <1>2 DEF IdentityTypeOK
<1> QED
  BY <1>1, <1>2, <1>3 DEF IdentityInv, DiskAheadOfMemory, IssuedIsPersisted, SequencesIncrease

(* Each operation, and a crash inside one, preserves the invariant. *)
LEMMA IdentityInvStep == IdentityInv /\ [IdentityNext]_identityVars => IdentityInv'
<1> SUFFICES ASSUME IdentityInv, [IdentityNext]_identityVars PROVE IdentityInv'
  OBVIOUS
<1> USE IdentityAssumption, NoFileIsNotPersisted
<1>1. CASE LoadOrCreate
  <2>1. CASE disk # NoFile /\ mem' = disk /\ running' = TRUE /\ UNCHANGED disk
    BY <1>1, <2>1
       DEF LoadOrCreate, IdentityInv, IdentityTypeOK, DiskAheadOfMemory, IssuedIsPersisted,
           SequencesIncrease, Persisted, NoDevice
  <2>2. ASSUME disk = NoFile, NEW k \in Keys, NEW outcome \in PersistOutcomes,
               persistLocked([key |-> k, deviceID |-> NoDevice, sequence |-> 0], outcome),
               running' = (outcome = "ok"),
               mem' = IF outcome = "ok"
                      THEN [key |-> k, deviceID |-> NoDevice, sequence |-> 0] ELSE mem
        PROVE  IdentityInv'
    <3> DEFINE fresh == [key |-> k, deviceID |-> NoDevice, sequence |-> 0]
    <3>1. fresh \in Persisted /\ fresh.sequence = 0 /\ fresh.key = k /\ fresh.deviceID = NoDevice
      BY DEF Persisted, NoDevice
    <3>2. issued' = issued /\ DOMAIN issued = {}
      BY <1>1, <2>2 DEF LoadOrCreate, IdentityInv, IssuedIsPersisted, NoFile, NoDevice, IdentityTypeOK
    <3>3. disk' \in {disk, fresh} /\ (outcome = "ok" => disk' = fresh)
      BY <2>2 DEF persistLocked
    <3> QED
      BY <2>2, <3>1, <3>2, <3>3
         DEF IdentityInv, IdentityTypeOK, DiskAheadOfMemory, IssuedIsPersisted, SequencesIncrease
  <2> QED
    BY <1>1, <2>1, <2>2 DEF LoadOrCreate
<1>2. ASSUME NEW d \in Devices, NEW outcome \in PersistOutcomes, Activate(d, outcome)
      PROVE  IdentityInv'
  <2>1. mem \in Persisted /\ running
    BY <1>2 DEF Activate, IdentityInv, DiskAheadOfMemory
  <2>2. /\ mem' \in Persisted /\ mem'.deviceID = d
        /\ mem'.key = mem.key /\ mem'.sequence = mem.sequence
    BY <1>2, <2>1 DEF Activate, Persisted
  <2>3. disk' \in {disk, mem'} /\ running' = running /\ issued' = issued
    BY <1>2 DEF Activate, persistLocked
  <2>4. mem.deviceID \in {NoDevice, d} /\ d # NoDevice
    BY <1>2 DEF Activate, NoDevice
  <2> QED
    BY <2>1, <2>2, <2>3, <2>4
       DEF IdentityInv, IdentityTypeOK, DiskAheadOfMemory, IssuedIsPersisted, SequencesIncrease,
           NoFile, NoDevice, Persisted
<1>3. ASSUME NEW outcome \in PersistOutcomes, ReserveSequence(outcome)
      PROVE  IdentityInv'
  <2> DEFINE next == [mem EXCEPT !.sequence = @ + 1]
  <2>1. mem \in Persisted /\ running /\ mem.deviceID # NoDevice /\ mem.sequence < MaxSequence
    BY <1>3 DEF ReserveSequence, CanReserve, IdentityInv, DiskAheadOfMemory
  <2>2. /\ next \in Persisted /\ next.sequence = mem.sequence + 1
        /\ next.key = mem.key /\ next.deviceID = mem.deviceID
    BY <2>1, NextRecord
  <2>3. /\ running' = running
        /\ disk' = IF outcome = "failed" THEN disk ELSE next
        /\ mem' = IF outcome = "ok" THEN next ELSE mem
        /\ issued' = IF outcome = "ok" THEN Append(issued, next.sequence) ELSE issued
    BY <1>3 DEF ReserveSequence, persistLocked
  <2>4. mem.sequence \in Nat /\ disk.sequence \in Nat /\ mem.sequence + 1 \in 1 .. MaxSequence
    BY <2>1 DEF IdentityInv, IdentityTypeOK, Persisted, NoFile
  <2>5. CASE outcome = "ok"
    <3>1. /\ issued' \in Seq(1 .. MaxSequence)
          /\ SequencesIncrease'
          /\ \A i \in DOMAIN issued' : issued'[i] <= mem.sequence + 1
      <4>1. \A i \in DOMAIN issued : issued[i] < mem.sequence + 1
        BY <2>1, <2>4 DEF IdentityInv, IdentityTypeOK, DiskAheadOfMemory
      <4> QED
        BY <2>2, <2>3, <2>4, <2>5, <4>1, AppendIncreasing DEF IdentityInv
    <3> HIDE DEF next
    <3> QED
      BY <2>1, <2>2, <2>3, <2>4, <2>5, <3>1
         DEF IdentityInv, IdentityTypeOK, DiskAheadOfMemory, IssuedIsPersisted, NoDevice
  <2>6. CASE outcome # "ok"
    <3> HIDE DEF next
    <3> QED
      BY <2>1, <2>2, <2>3, <2>4, <2>6
         DEF IdentityInv, IdentityTypeOK, DiskAheadOfMemory, IssuedIsPersisted, SequencesIncrease,
             Persisted, NoDevice
  <2> QED
    BY <2>5, <2>6
<1>4. CASE IdentityCrash
  BY <1>4
     DEF IdentityCrash, IdentityInv, IdentityTypeOK, DiskAheadOfMemory, IssuedIsPersisted, SequencesIncrease
<1>5. CASE CrashInReserve
  <2>1. mem \in Persisted /\ mem.deviceID # NoDevice /\ mem.sequence < MaxSequence
    BY <1>5 DEF CrashInReserve, CanReserve, IdentityInv, DiskAheadOfMemory
  <2>2. /\ disk' \in Persisted /\ disk'.sequence = mem.sequence + 1
        /\ disk'.deviceID = mem.deviceID
    BY <1>5, <2>1, NextRecord DEF CrashInReserve
  <2>3. \A i \in DOMAIN issued : issued[i] <= mem.sequence + 1
    BY <1>5, <2>1 DEF CrashInReserve, CanReserve, IdentityInv, IdentityTypeOK, DiskAheadOfMemory, Persisted
  <2> QED
    BY <1>5, <2>1, <2>2, <2>3
       DEF CrashInReserve, IdentityInv, IdentityTypeOK, DiskAheadOfMemory, IssuedIsPersisted,
           SequencesIncrease
<1>6. CASE UNCHANGED identityVars
  BY <1>6 DEF identityVars, IdentityInv, IdentityTypeOK, DiskAheadOfMemory, IssuedIsPersisted,
              SequencesIncrease
<1> QED
  BY <1>1, <1>2, <1>3, <1>4, <1>5, <1>6 DEF IdentityNext

(***************************************************************************)
(* The inductive invariant of the identity holds in every reachable state. *)
(***************************************************************************)
THEOREM IdentityInvariance == IdentitySpec => []IdentityInv
BY IdentityInvInit, IdentityInvStep, PTL DEF IdentitySpec

(* Every variable has the shape of the code's state (identity.State).      *)
THEOREM IdentityTypeCorrect == IdentitySpec => []IdentityTypeOK
<1>1. IdentityInv => IdentityTypeOK
  BY DEF IdentityInv
<1> QED
  BY <1>1, IdentityInvariance, PTL

(***************************************************************************)
(* No sequence number is handed out twice, and none is handed out below an *)
(* earlier one, through failed writes, crashes and restarts.               *)
(***************************************************************************)
THEOREM SequencesNeverReused == IdentitySpec => []SequencesIncrease
<1>1. IdentityInv => SequencesIncrease
  BY DEF IdentityInv
<1> QED
  BY <1>1, IdentityInvariance, PTL

(***************************************************************************)
(* Once a sequence number was handed out, the key and the device that sign *)
(* with it are the ones a restart will load.                               *)
(***************************************************************************)
THEOREM SignerPersists == IdentitySpec => []SignerIsOnDisk
<1>1. IdentityInv => SignerIsOnDisk
  <2> SUFFICES ASSUME IdentityInv, issued # <<>>
               PROVE  /\ disk # NoFile
                      /\ disk.deviceID # NoDevice
                      /\ running => mem.key = disk.key /\ mem.deviceID = disk.deviceID
    BY DEF SignerIsOnDisk
  <2>1. 1 \in DOMAIN issued
    BY DEF IdentityInv, IdentityTypeOK
  <2> QED
    BY <2>1 DEF IdentityInv, IssuedIsPersisted, DiskAheadOfMemory, NoFile, NoDevice
<1> QED
  BY <1>1, IdentityInvariance, PTL

(***************************************************************************)
(* A stored key is never replaced and a stored device never rebound.       *)
(***************************************************************************)
THEOREM BindingNeverChanges == IdentitySpec => BindingIsFinal
<1> DEFINE Keep == disk # NoFile =>
                      /\ disk'.key = disk.key
                      /\ disk.deviceID # NoDevice => disk'.deviceID = disk.deviceID
<1>1. IdentityInv /\ [IdentityNext]_identityVars => [Keep]_identityVars
  <2> SUFFICES ASSUME IdentityInv, IdentityNext, disk # NoFile
               PROVE  /\ disk'.key = disk.key
                      /\ disk.deviceID # NoDevice => disk'.deviceID = disk.deviceID
    OBVIOUS
  <2>1. CASE LoadOrCreate
    BY <2>1 DEF LoadOrCreate
  <2>2. ASSUME NEW d \in Devices, NEW outcome \in PersistOutcomes, Activate(d, outcome)
        PROVE  /\ disk'.key = disk.key
               /\ disk.deviceID # NoDevice => disk'.deviceID = disk.deviceID
    BY <2>2, IdentityAssumption
       DEF Activate, persistLocked, IdentityInv, DiskAheadOfMemory, Persisted, NoDevice
  <2>3. ASSUME NEW outcome \in PersistOutcomes, ReserveSequence(outcome)
        PROVE  /\ disk'.key = disk.key
               /\ disk.deviceID # NoDevice => disk'.deviceID = disk.deviceID
    <3>1. mem \in Persisted /\ mem.sequence < MaxSequence
      BY <2>3 DEF ReserveSequence, CanReserve, IdentityInv, DiskAheadOfMemory
    <3> QED
      BY <2>3, <3>1, NextRecord
         DEF ReserveSequence, CanReserve, persistLocked, IdentityInv, DiskAheadOfMemory, NoDevice
  <2>4. CASE IdentityCrash
    BY <2>4 DEF IdentityCrash
  <2>5. CASE CrashInReserve
    <3>1. mem \in Persisted /\ mem.sequence < MaxSequence
      BY <2>5 DEF CrashInReserve, CanReserve, IdentityInv, DiskAheadOfMemory
    <3> QED
      BY <2>5, <3>1, NextRecord
         DEF CrashInReserve, CanReserve, IdentityInv, DiskAheadOfMemory, NoDevice
  <2> QED
    BY <2>1, <2>2, <2>3, <2>4, <2>5 DEF IdentityNext
<1>2. IdentitySpec => [][Keep]_identityVars
  BY <1>1, IdentityInvariance, PTL DEF IdentitySpec
<1> QED
  BY <1>2 DEF BindingIsFinal

-----------------------------------------------------------------------------

(* The heartbeat buffer. *)
LEMMA QueueInvInit == Init => QueueInv
<1> SUFFICES ASSUME Init PROVE QueueInv
  OBVIOUS
<1> USE QueueAssumption
<1>1. files = <<>> /\ Queued = {} /\ lost = {}
  BY DEF Init, Queued
<1>2. IsFiniteSet(lost) /\ Cardinality(lost) = 0
  BY <1>1, FS_EmptySet
<1> QED
  BY <1>1, <1>2 DEF Init, QueueInv, TypeOK, EvictionIsFIFO, NeverOverReports, Limits

(* An entry joins the buffer above everything that was ever evicted. *)
LEMMA JoinStep ==
    ASSUME QueueInv, NEW s \in SequenceIds, NEW b \in Bodies, Fresh(s),
           Add(s, b) \/ AddUnread(s, b)
    PROVE  QueueInv'
<1> USE DEF QueueInv
<1>1. /\ files' = With(files, s, b)
      /\ UNCHANGED <<dropped, limits, evicted, lost, credited>>
      /\ phase = "idle" /\ phase' \in {"idle", "enforce"}
  BY DEF Add, AddUnread
<1>2. Queued' = Queued \cup {s} /\ files' \in [Queued' -> Bodies]
  BY <1>1 DEF With, Queued, TypeOK
<1>3. TypeOK'
  BY <1>1, <1>2 DEF TypeOK
<1>4. EvictionIsFIFO'
  BY <1>1, <1>2 DEF EvictionIsFIFO, Fresh
<1>5. NeverOverReports'
  BY <1>1 DEF NeverOverReports
<1> QED
  BY <1>1, <1>3, <1>4, <1>5

(* The oldest entry is evicted: it was never evicted before. *)
LEMMA EvictStep == ASSUME QueueInv, EvictOldest PROVE QueueInv'
<1> USE DEF QueueInv
<1>1. PICK s \in Queued : /\ IsOldest(s, Queued)
                          /\ files' = Without(files, s)
                          /\ lost' = lost \cup {s}
  BY DEF EvictOldest
<1>2. /\ phase = "enforce" /\ phase' = "enforce" /\ evicted' = evicted + 1
      /\ UNCHANGED <<dropped, limits, credited>>
  BY DEF EvictOldest
<1>3. Queued' = Queued \ {s} /\ files' \in [Queued' -> Bodies] /\ s \in SequenceIds
  BY <1>1 DEF Without, Queued, TypeOK
<1>4. TypeOK'
  BY <1>1, <1>2, <1>3 DEF TypeOK
<1>5. \A q \in Queued : q \in Nat
  BY QueueAssumption DEF TypeOK
<1>6. EvictionIsFIFO'
  <2>1. \A q \in Queued' : s < q
    BY <1>1, <1>3, <1>5 DEF IsOldest
  <2> QED
    BY <1>1, <1>3, <2>1 DEF EvictionIsFIFO
<1>7. s \notin lost
  BY <1>5 DEF EvictionIsFIFO
<1>8. IsFiniteSet(lost') /\ Cardinality(lost') = Cardinality(lost) + 1
  BY <1>1, <1>7, FS_AddElement
<1>9. Cardinality(lost) \in Nat
  BY FS_CardinalityType
<1>10. NeverOverReports'
  BY <1>2, <1>8, <1>9 DEF NeverOverReports, TypeOK
<1> QED
  BY <1>4, <1>6, <1>8, <1>10

(* Steps that only move counters. *)
LEMMA CounterStep ==
    ASSUME QueueInv, UNCHANGED <<files, lost>>, TypeOK', NeverOverReports'
    PROVE  QueueInv'
BY DEF QueueInv, EvictionIsFIFO, Queued

LEMMA AcknowledgeStep ==
    ASSUME QueueInv, NEW n \in Nat, AcknowledgeDropped(n) \/ ClearDropped
    PROVE  QueueInv'
<1> USE DEF QueueInv
<1>1. /\ UNCHANGED <<files, limits, phase, evicted, lost>>
      /\ dropped' \in {0, dropped - n}
      /\ dropped' \in 0 .. dropped
      /\ credited' = credited + (dropped - dropped')
  BY DEF AcknowledgeDropped, ClearDropped, TypeOK
<1>2. TypeOK'
  BY <1>1 DEF TypeOK, Queued
<1>3. NeverOverReports'
  <2>1. Cardinality(lost) \in Nat
    BY FS_CardinalityType
  <2> QED
    BY <1>1, <2>1 DEF NeverOverReports, TypeOK
<1> QED
  BY <1>1, <1>2, <1>3, CounterStep

LEMMA QueueInvStep == QueueInv /\ [Next]_queueVars => QueueInv'
<1> SUFFICES ASSUME QueueInv, [Next]_queueVars PROVE QueueInv'
  OBVIOUS
<1> USE QueueAssumption DEF QueueInv
<1>0. Cardinality(lost) \in Nat
  BY FS_CardinalityType
<1>1. CASE Open
  BY <1>1, CounterStep DEF Open, TypeOK, NeverOverReports, Queued
<1>2. ASSUME NEW s \in SequenceIds, NEW b \in Bodies,
             (Fresh(s) /\ Add(s, b)) \/ AddRefused(s, b) \/ (Fresh(s) /\ AddUnread(s, b))
      PROVE  QueueInv'
  <2>1. CASE AddRefused(s, b)
    BY <2>1 DEF AddRefused, queueVars, TypeOK, NeverOverReports, EvictionIsFIFO, Queued
  <2> QED
    BY <1>2, <2>1, JoinStep
<1>3. ASSUME NEW l \in ContractLimits, SetLimits(l)
      PROVE  QueueInv'
  BY <1>3, CounterStep DEF SetLimits, TypeOK, NeverOverReports, Queued
<1>4. CASE EvictOldest
  BY <1>4, EvictStep
<1>5. CASE EnforceFails
  BY <1>0, <1>5, CounterStep DEF EnforceFails, TypeOK, NeverOverReports, Queued
<1>6. CASE CountDropped
  BY <1>0, <1>6, CounterStep DEF CountDropped, TypeOK, NeverOverReports, Queued
<1>7. ASSUME NEW s \in SequenceIds, Remove(s)
      PROVE  QueueInv'
  <2>1. Queued' = Queued \ {s} /\ files' \in [Queued' -> Bodies]
    BY <1>7 DEF Remove, Without, Queued, TypeOK
  <2> QED
    BY <1>7, <2>1 DEF Remove, TypeOK, NeverOverReports, EvictionIsFIFO
<1>8. ASSUME NEW n \in 1 .. Cardinality(SequenceIds), AcknowledgeDropped(n)
      PROVE  QueueInv'
  BY <1>8, AcknowledgeStep DEF AcknowledgeDropped
<1>9. CASE ClearDropped
  BY <1>9, AcknowledgeStep
<1>10. CASE Crash
  BY <1>0, <1>10, CounterStep DEF Crash, TypeOK, NeverOverReports, Queued
<1>11. CASE UNCHANGED queueVars
  BY <1>11 DEF queueVars, TypeOK, NeverOverReports, EvictionIsFIFO, Queued
<1> QED
  BY <1>1, <1>2, <1>3, <1>4, <1>5, <1>6, <1>7, <1>8, <1>9, <1>10, <1>11 DEF Next

(***************************************************************************)
(* The buffer's invariant holds through every crash and I/O error: every   *)
(* variable keeps its type, and the parts below hold.                      *)
(***************************************************************************)
THEOREM QueueInvariance == Spec => []QueueInv
BY QueueInvInit, QueueInvStep, PTL DEF Spec

(* Every variable has the shape of the code's state (queue.Queue).         *)
THEOREM QueueTypeCorrect == Spec => []TypeOK
<1>1. QueueInv => TypeOK
  BY DEF QueueInv
<1> QED
  BY <1>1, QueueInvariance, PTL

(***************************************************************************)
(* metadata.json never claims more drops than there were evictions.        *)
(***************************************************************************)
THEOREM DropsAreReal == Spec => []NeverOverReports
<1>1. QueueInv => NeverOverReports
  BY DEF QueueInv
<1> QED
  BY <1>1, QueueInvariance, PTL

(***************************************************************************)
(* What survives in the buffer is newer than everything evicted from it.   *)
(***************************************************************************)
THEOREM OldestGoesFirst == Spec => []EvictionIsFIFO
<1>1. QueueInv => EvictionIsFIFO
  BY DEF QueueInv
<1> QED
  BY <1>1, QueueInvariance, PTL

(* The recursion by which SumFunctionOnSet is defined. *)
Adds(f, S, g) ==
    g = [T \in SUBSET S |->
           IF T = {} THEN 0
           ELSE f[CHOOSE x \in T : TRUE] + g[T \ {CHOOSE x \in T : TRUE}]]

(* A sum of one number is that number. *)
LEMMA SumOfOne ==
    ASSUME NEW s, NEW f, f[s] \in Nat
    PROVE  SumFunctionOnSet(f, {s}) = f[s]
<1> DEFINE G == [T \in SUBSET {s} |-> IF T = {} THEN 0 ELSE f[s]]
<1>1. SumFunctionOnSet(f, {s}) = (CHOOSE g : Adds(f, {s}, g))[{s}]
  BY DEF SumFunctionOnSet, FoldFunctionOnSet, MapThenFoldSet, Adds
<1>2. \A T \in SUBSET {s} : T = {} \/ T = {s}
  OBVIOUS
<1>3. (CHOOSE x \in {s} : TRUE) = s /\ {s} \ {s} = {}
  OBVIOUS
<1>4. Adds(f, {s}, G)
  <2>1. \A T \in SUBSET {s} :
            G[T] = IF T = {} THEN 0
                   ELSE f[CHOOSE x \in T : TRUE] + G[T \ {CHOOSE x \in T : TRUE}]
    BY <1>2, <1>3
  <2> QED
    BY <2>1, Zenon DEF Adds
<1>5. PICK g : Adds(f, {s}, g) /\ SumFunctionOnSet(f, {s}) = g[{s}]
  BY <1>1, <1>4
<1>6. g[{}] = 0 /\ g[{s}] = f[s] + g[{s} \ {s}]
  BY <1>3, <1>5 DEF Adds
<1> QED
  BY <1>3, <1>5, <1>6

(***************************************************************************)
(* Enforcing the limits for a new entry never evicts that entry: it could  *)
(* only be the oldest by being the only one, and a single entry that Add   *)
(* has admitted is within every limit.                                     *)
(***************************************************************************)
THEOREM NewestStays == Spec => AddKeepsItsEntry
<1> DEFINE Keeps == \A s \in SequenceIds :
              (EvictOldest /\ s \in Queued /\ s \notin DOMAIN files'
                 /\ files[s].size <= limits.bytes) => \E q \in Queued : q > s
<1>1. QueueInv => Keeps
  <2> SUFFICES ASSUME QueueInv, NEW s \in SequenceIds, EvictOldest, s \in Queued,
                      s \notin DOMAIN files', files[s].size <= limits.bytes,
                      ~\E q \in Queued : q > s
               PROVE  FALSE
    OBVIOUS
  <2>1. PICK t \in Queued : IsOldest(t, Queued) /\ files' = Without(files, t)
    BY DEF EvictOldest
  <2>2. s = t
    BY <2>1 DEF Without, Queued
  <2>3. Queued = {s}
    <3>1. \A q \in Queued : q \in Nat /\ s <= q /\ ~(q > s)
      BY <2>1, <2>2, QueueAssumption DEF IsOldest, QueueInv, TypeOK
    <3>2. \A q \in Queued : q = s
      BY <3>1
    <3> QED
      BY <3>2
  <2>4. limits.samples \in Nat \ {0} /\ limits.bytes \in Nat /\ files[s].size \in Nat
    BY QueueAssumption DEF Queued, QueueInv, TypeOK, Limits
  <2>5. TotalBytes(files) = files[s].size
    <3> DEFINE sizes == [q \in DOMAIN files |-> files[q].size]
    <3>1. sizes[s] \in Nat /\ sizes[s] = files[s].size /\ DOMAIN sizes = {s}
      BY <2>3, QueueAssumption DEF QueueInv, TypeOK, Queued
    <3> HIDE DEF sizes
    <3>2. SumFunctionOnSet(sizes, DOMAIN sizes) = sizes[s]
      BY <3>1, SumOfOne
    <3> QED
      BY <3>1, <3>2 DEF TotalBytes, SumFunction, sizes
  <2>6. TotalBytes(files) <= limits.bytes
    BY <2>5
  <2>7. OverLimits(files, limits)
    BY DEF EvictOldest
  <2>8. Cardinality(DOMAIN files) = 1
    BY <2>3, FS_Singleton DEF Queued
  <2> QED
    BY <2>4, <2>5, <2>6, <2>7, <2>8 DEF OverLimits
<1>2. Spec => [][Keeps]_queueVars
  BY <1>1, QueueInvariance, PTL DEF Spec
<1> QED
  BY <1>2 DEF AddKeepsItsEntry
=============================================================================
