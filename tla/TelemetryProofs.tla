--------------------------- MODULE TelemetryProofs ---------------------------
(***************************************************************************)
(* Proofs about TelemetrySync, for every family of resources, every limit  *)
(* of the buffer and every number of revisions.  What the file and the     *)
(* application's copy agree on holds while the process does not stop: a    *)
(* restart gives a number again to another state.                          *)
(***************************************************************************)
EXTENDS TelemetrySync, TLAPS

(* What deltaFamily and the family it leaves behind are: nothing new, or   *)
(* the next revision, whole or leading from the last state to this one.    *)
LEMMA FamilyBuilt ==
    ASSUME TypeOK, HasRoom(deltaFamily(mem, host))
    PROVE  LET f == deltaFamily(mem, host)
               n == NextFamily(mem, host)
           IN  /\ f \in Families
               /\ n \in SyncStates
               /\ \/ f.revision = 0 /\ n.revision = mem.revision /\ n.hashes = mem.hashes
                  \/ /\ f.revision = mem.revision + 1 /\ n.revision = mem.revision + 1
                     /\ n.hashes = host
                     /\ f.full => f.changed = Present(host)
                     /\ ~f.full => \A r \in Resources :
                           r \notin f.changed =>
                              host[r] = IF r \in f.removed THEN "absent" ELSE mem.hashes[r]
<1> DEFINE f == deltaFamily(mem, host)
           n == NextFamily(mem, host)
<1>1. /\ mem.revision \in 0 .. MaxRevision /\ mem.hashes \in States
      /\ mem.recent \in BOOLEAN /\ mem \in SyncStates /\ host \in States
  BY DEF TypeOK, SyncStates
<1>2. MaxRevision \in Nat /\ "absent" \notin Values
  BY TelemetryAssumption
<1>3. CASE Unchanged(mem, host)
  <2>1. f = Omitted /\ n = [mem EXCEPT !.revision = mem.revision, !.hashes = host,
                                       !.recent = mem.recent \/ NeedsFull(mem)]
    BY <1>1, <1>3 DEF deltaFamily, NextFamily
  <2>2. f \in Families /\ f.revision = 0
    BY <1>2, <2>1 DEF Omitted, Families
  <2>3. n \in SyncStates /\ n.revision = mem.revision /\ n.hashes = host
    BY <1>1, <2>1 DEF SyncStates
  <2>4. host = mem.hashes
    <3>1. \A r \in Resources : host[r] = mem.hashes[r]
      BY <1>3 DEF Unchanged, Changed, Removed
    <3> QED
      BY <1>1, <3>1 DEF States
  <2> QED
    BY <2>2, <2>3, <2>4
<1>4. CASE ~Unchanged(mem, host)
  <2>1. /\ f = [revision |-> mem.revision + 1, full |-> NeedsFull(mem),
                changed |-> IF NeedsFull(mem) THEN Present(host) ELSE Changed(mem, host),
                removed |-> Removed(mem, host)]
        /\ n = [mem EXCEPT !.revision = mem.revision + 1, !.hashes = host,
                           !.recent = mem.recent \/ NeedsFull(mem)]
    BY <1>1, <1>4 DEF deltaFamily, NextFamily
  <2>2. mem.revision + 1 \in 0 .. MaxRevision
    BY <1>1, <1>2, <2>1 DEF HasRoom
  <2>3. NeedsFull(mem) \in BOOLEAN
    BY DEF NeedsFull
  <2>4. /\ Present(host) \in SUBSET Resources /\ Changed(mem, host) \in SUBSET Resources
        /\ Removed(mem, host) \in SUBSET Resources
    BY DEF Present, Changed, Removed
  <2>5. f \in Families
    BY <2>1, <2>2, <2>3, <2>4 DEF Families
  <2>6. n \in SyncStates /\ n.revision = mem.revision + 1 /\ n.hashes = host
    BY <1>1, <2>1, <2>2, <2>3 DEF SyncStates
  <2>7. f.full => f.changed = Present(host)
    BY <2>1
  <2>8. ASSUME ~f.full, NEW r \in Resources, r \notin f.changed
        PROVE  host[r] = IF r \in f.removed THEN "absent" ELSE mem.hashes[r]
    <3>1. r \notin Changed(mem, host) /\ f.removed = Removed(mem, host)
      BY <2>1, <2>8
    <3> QED
      BY <1>1, <3>1 DEF Changed, Removed
  <2>9. f.revision = mem.revision + 1
    BY <2>1
  <2> QED
    BY <2>5, <2>6, <2>7, <2>8, <2>9
<1> QED
  BY <1>3, <1>4

(* A change that leads from one state to another is what After applies. *)
LEMMA AfterIs ==
    ASSUME NEW h \in Heartbeats, NEW view,
           \A r \in Resources : r \notin h.family.changed =>
              h.of[r] = IF r \in h.family.removed THEN "absent" ELSE view[r]
    PROVE  After(view, h) = h.of
<1>1. h.of \in States
  BY DEF Heartbeats
<1>2. \A r \in Resources : After(view, h)[r] = h.of[r]
  BY DEF After
<1> QED
  BY <1>1, <1>2 DEF After, States

(* What the application makes of a heartbeat: its copy stays, goes stale,  *)
(* or becomes the state the heartbeat was built from.                      *)
LEMMA StoredIs ==
    ASSUME NEW c \in Copies, NEW h \in Heartbeats
    PROVE  /\ Stored(c, h) \in Copies
           /\ \/ /\ h.family.revision = 0
                 /\ Stored(c, h).revision = c.revision /\ Stored(c, h).view = c.view
                 /\ Stored(c, h).truth = c.truth /\ Stored(c, h).stale = c.stale
              \/ /\ h.family.revision # 0 /\ ~h.family.full
                 /\ c.stale \/ h.family.revision # c.revision + 1
                 /\ Stored(c, h).revision = c.revision /\ Stored(c, h).stale
              \/ /\ h.family.revision # 0
                 /\ Stored(c, h).revision = h.family.revision /\ ~Stored(c, h).stale
                 /\ Stored(c, h).truth = h.of
                 /\ \/ /\ h.family.full
                       /\ Stored(c, h).view =
                            [r \in Resources |->
                               IF r \in h.family.changed THEN h.of[r] ELSE "absent"]
                    \/ /\ ~h.family.full /\ ~c.stale /\ h.family.revision = c.revision + 1
                       /\ Stored(c, h).view = After(c.view, h)
<1> DEFINE a == Applied(c, h.family, h.of)
           s == Stored(c, h)
           whole == [r \in Resources |-> IF r \in h.family.changed THEN h.of[r] ELSE "absent"]
<1>1. /\ h.family \in Families /\ h.family.revision \in 0 .. MaxRevision
      /\ h.family.full \in BOOLEAN /\ h.of \in States
      /\ h.capabilities \in BOOLEAN /\ h.capabilitiesHash \in Capabilities
  BY DEF Heartbeats, Families
<1>2. /\ c.revision \in 0 .. MaxRevision /\ c.view \in States /\ c.truth \in States
      /\ c.stale \in BOOLEAN /\ c.capabilities \in Capabilities \cup {"unknown"}
  BY DEF Copies
<1>3. a \in Copies =>
        /\ s \in Copies
        /\ s.revision = a.revision /\ s.view = a.view /\ s.truth = a.truth /\ s.stale = a.stale
  <2> HIDE DEF a
  <2> QED
    BY <1>1 DEF Stored, Copies, a
<1>4. CASE h.family.revision = 0
  <2>1. a = c
    BY <1>1, <1>2, <1>4, TelemetryAssumption DEF Applied
  <2> HIDE DEF a
  <2> QED
    BY <1>3, <1>4, <2>1
<1>5. CASE h.family.revision # 0 /\ h.family.full
  <2>1. a = [c EXCEPT !.revision = h.family.revision, !.stale = FALSE, !.truth = h.of,
                      !.view = whole]
    BY <1>5 DEF Applied
  <2>2. whole \in States
    BY <1>1 DEF States
  <2> HIDE DEF whole
  <2>3. a \in Copies /\ a.revision = h.family.revision /\ ~a.stale /\ a.truth = h.of
        /\ a.view = whole
    BY <1>1, <1>2, <2>1, <2>2 DEF Copies
  <2> HIDE DEF a
  <2> QED
    BY <1>3, <1>5, <2>3 DEF whole
<1>6. CASE /\ h.family.revision # 0 /\ ~h.family.full
           /\ ~c.stale /\ h.family.revision = c.revision + 1
  <2>1. a = [c EXCEPT !.revision = h.family.revision, !.truth = h.of, !.view = After(c.view, h)]
    BY <1>6 DEF Applied, After
  <2>2. After(c.view, h) \in States
    BY <1>1, <1>2 DEF After, States
  <2>3. a \in Copies /\ a.revision = h.family.revision /\ ~a.stale /\ a.truth = h.of
        /\ a.view = After(c.view, h)
    BY <1>1, <1>2, <1>6, <2>1, <2>2 DEF Copies
  <2> HIDE DEF a
  <2> QED
    BY <1>3, <1>6, <2>3
<1>7. CASE /\ h.family.revision # 0 /\ ~h.family.full
           /\ c.stale \/ h.family.revision # c.revision + 1
  <2>1. a = [c EXCEPT !.stale = TRUE]
    BY <1>7 DEF Applied
  <2>2. a \in Copies /\ a.revision = c.revision /\ a.stale
    BY <1>2, <2>1 DEF Copies
  <2> HIDE DEF a
  <2> QED
    BY <1>3, <1>7, <2>2
<1> QED
  BY <1>1, <1>2, <1>4, <1>5, <1>6, <1>7

-----------------------------------------------------------------------------
(* The buffer as a sequence. *)

LEMMA QueueIs ==
    ASSUME TypeOK
    PROVE  /\ Len(queue) \in Nat /\ DOMAIN queue = 1 .. Len(queue)
           /\ \A i \in DOMAIN queue : queue[i] \in Heartbeats
           /\ \A i \in DOMAIN queue : Revision(i) \in Nat
<1>1. queue \in Seq(Heartbeats)
  BY DEF TypeOK
<1>2. Len(queue) \in Nat /\ DOMAIN queue = 1 .. Len(queue)
  BY <1>1
<1>3. \A i \in DOMAIN queue : queue[i] \in Heartbeats
  BY <1>1
<1>4. \A i \in DOMAIN queue : Revision(i) \in Nat
  BY <1>3, TelemetryAssumption DEF Revision, Heartbeats, Families
<1> QED
  BY <1>2, <1>3, <1>4

LEMMA TailOf ==
    ASSUME NEW S, NEW q \in Seq(S), q # <<>>
    PROVE  /\ Tail(q) \in Seq(S) /\ Len(Tail(q)) = Len(q) - 1
           /\ \A i \in 1 .. Len(q) - 1 : Tail(q)[i] = q[i + 1]
OBVIOUS

(* Without its head every entry moves one place. *)
LEMMA TailIs ==
    ASSUME TypeOK, queue # <<>>
    PROVE  /\ Head(queue) = queue[1] /\ 1 \in DOMAIN queue
           /\ Tail(queue) \in Seq(Heartbeats) /\ Len(Tail(queue)) = Len(queue) - 1
           /\ \A i \in DOMAIN Tail(queue) :
                 i \in Nat \ {0} /\ i + 1 \in DOMAIN queue /\ Tail(queue)[i] = queue[i + 1]
<1>1. queue \in Seq(Heartbeats)
  BY DEF TypeOK
<1> QED
  BY <1>1

(* Recording that the head was stored changes nothing else. *)
LEMMA MarkedIs ==
    ASSUME TypeOK, queue # <<>>, NEW q, q = [queue EXCEPT ![1].committed = TRUE]
    PROVE  /\ q \in Seq(Heartbeats) /\ Len(q) = Len(queue) /\ DOMAIN q = DOMAIN queue
           /\ q[1].committed
           /\ \A i \in DOMAIN queue :
                 /\ q[i].family = queue[i].family /\ q[i].of = queue[i].of
                 /\ i # 1 => q[i] = queue[i]
<1>1. queue \in Seq(Heartbeats) /\ 1 \in DOMAIN queue /\ queue[1] \in Heartbeats
  BY DEF TypeOK
<1> DEFINE h == [queue[1] EXCEPT !.committed = TRUE]
<1>2. h \in Heartbeats /\ h.family = queue[1].family /\ h.of = queue[1].of /\ h.committed
  BY <1>1 DEF Heartbeats
<1>3. q = [queue EXCEPT ![1] = h]
  OBVIOUS
<1> HIDE DEF h
<1>4. q \in [1 .. Len(queue) -> Heartbeats] /\ Len(queue) \in Nat
  <2>1. queue \in [1 .. Len(queue) -> Heartbeats] /\ Len(queue) \in Nat
    BY <1>1
  <2> QED
    BY <1>2, <1>3, <2>1
<1>5. q \in Seq(Heartbeats) /\ Len(q) = Len(queue) /\ DOMAIN q = DOMAIN queue
  BY <1>1, <1>4
<1>6. q[1] = h /\ \A i \in DOMAIN queue : i # 1 => q[i] = queue[i]
  BY <1>1, <1>3
<1> QED
  BY <1>2, <1>5, <1>6

(* A new heartbeat goes last; when the buffer is full the head goes. *)
LEMMA AddedIs ==
    ASSUME TypeOK, NEW h \in Heartbeats, NEW q,
           q = LET all == Append(queue, h) IN IF Len(all) > MaxQueued THEN Tail(all) ELSE all
    PROVE  /\ q \in Seq(Heartbeats) /\ Len(q) <= MaxQueued
           /\ \E k \in {0, 1} : \A i \in DOMAIN q :
                 /\ i \in Nat \ {0} /\ i + k <= Len(queue) + 1
                 /\ i + k = Len(queue) + 1 => q[i] = h
                 /\ i + k # Len(queue) + 1 => i + k \in DOMAIN queue /\ q[i] = queue[i + k]
<1>1. queue \in Seq(Heartbeats) /\ Len(queue) \in Nat /\ Len(queue) <= MaxQueued
  BY DEF TypeOK
<1>2. MaxQueued \in Nat \ {0}
  BY TelemetryAssumption
<1> DEFINE all == Append(queue, h)
<1>3. /\ all \in Seq(Heartbeats) /\ Len(all) = Len(queue) + 1
      /\ \A i \in 1 .. Len(queue) : all[i] = queue[i]
      /\ all[Len(queue) + 1] = h
  BY <1>1
<1> HIDE DEF all
<1>4. CASE Len(all) > MaxQueued
  <2>1. q = Tail(all) /\ all # <<>>
    BY <1>3, <1>4, <1>1 DEF all
  <2>2. /\ q \in Seq(Heartbeats) /\ Len(q) = Len(queue)
        /\ \A i \in 1 .. Len(queue) : q[i] = all[i + 1]
    <3>1. /\ q \in Seq(Heartbeats) /\ Len(q) = Len(all) - 1
          /\ \A i \in 1 .. Len(all) - 1 : q[i] = all[i + 1]
      BY <1>3, <2>1, TailOf
    <3> QED
      BY <1>1, <1>3, <3>1
  <2>3. \A i \in DOMAIN q :
           /\ i \in Nat \ {0} /\ i + 1 <= Len(queue) + 1
           /\ i + 1 = Len(queue) + 1 => q[i] = h
           /\ i + 1 # Len(queue) + 1 => i + 1 \in DOMAIN queue /\ q[i] = queue[i + 1]
    BY <1>1, <1>3, <2>2
  <2> QED
    BY <1>1, <2>2, <2>3
<1>5. CASE ~(Len(all) > MaxQueued)
  <2>1. q = all
    BY <1>5 DEF all
  <2>2. \A i \in DOMAIN q :
           /\ i \in Nat \ {0} /\ i + 0 <= Len(queue) + 1
           /\ i + 0 = Len(queue) + 1 => q[i] = h
           /\ i + 0 # Len(queue) + 1 => i + 0 \in DOMAIN queue /\ q[i] = queue[i + 0]
    BY <1>1, <1>3, <2>1
  <2> QED
    BY <1>1, <1>2, <1>3, <1>5, <2>1, <2>2
<1> QED
  BY <1>4, <1>5

-----------------------------------------------------------------------------
(* What the steps that build and send do. *)

LEMMA Builds ==
    ASSUME TypeOK, BuildHeartbeat
    PROVE  /\ deltaFamily(mem, host) \in Families
           /\ NextFamily(mem, host) \in SyncStates
           /\ HasRoom(deltaFamily(mem, host)) /\ mem' = NextFamily(mem, host)
           /\ Heartbeat(deltaFamily(mem, host), mem.capabilitiesHash # abilities, host)
                \in Heartbeats
           /\ pc = "collect" /\ pc' \in {"collect", "write"} /\ digest' \in {digest, abilities}
           /\ UNCHANGED <<host, abilities, disk, server, calm>>
           /\ \/ queue' = queue
              \/ queue' = LET all == Append(queue,
                                       Heartbeat(deltaFamily(mem, host),
                                                 mem.capabilitiesHash # abilities, host))
                          IN  IF Len(all) > MaxQueued THEN Tail(all) ELSE all
<1>1. HasRoom(deltaFamily(mem, host)) /\ mem' = NextFamily(mem, host) /\ pc = "collect"
  BY DEF BuildHeartbeat
<1>2. deltaFamily(mem, host) \in Families /\ NextFamily(mem, host) \in SyncStates
  BY <1>1, FamilyBuilt
<1>3. \A f \in Families : Heartbeat(f, mem.capabilitiesHash # abilities, host) \in Heartbeats
  BY DEF Heartbeat, Heartbeats, TypeOK
<1> HIDE DEF deltaFamily
<1>4. /\ pc' \in {"collect", "write"} /\ digest' \in {digest, abilities}
      /\ UNCHANGED <<host, abilities, disk, server, calm>>
  BY DEF BuildHeartbeat
<1>5. \/ queue' = queue
      \/ queue' = LET all == Append(queue,
                               Heartbeat(deltaFamily(mem, host),
                                         mem.capabilitiesHash # abilities, host))
                  IN  IF Len(all) > MaxQueued THEN Tail(all) ELSE all
  BY DEF BuildHeartbeat
<1> QED
  BY <1>1, <1>2, <1>3, <1>4, <1>5

(* A response changes of Agent.telemetry what is not the family's state. *)
LEMMA RequestedIs ==
    ASSUME NEW state \in SyncStates, NEW c, NEW h
    PROVE  /\ Requested(state, c, h) \in SyncStates
           /\ Requested(state, c, h).revision = state.revision
           /\ Requested(state, c, h).hashes = state.hashes
BY DEF Requested, SyncStates

LEMMA Answers ==
    ASSUME TypeOK, FlushAnswered
    PROVE  /\ queue # <<>> /\ queue[1] \in Heartbeats /\ ~queue[1].committed
           /\ server' = Stored(server, queue[1]) /\ server' \in Copies
           /\ mem' \in SyncStates /\ mem'.revision = mem.revision /\ mem'.hashes = mem.hashes
           /\ disk' \in {disk, mem'}
           /\ pc = "flush" /\ pc' \in {"flush", "collect"}
           /\ UNCHANGED <<host, abilities, digest, calm>>
           /\ \/ queue' = Tail(queue)
              \/ queue' = [queue EXCEPT ![1].committed = TRUE]
<1>1. queue # <<>>
  BY DEF FlushAnswered
<1>2. Head(queue) = queue[1] /\ queue[1] \in Heartbeats
  BY <1>1, TailIs, QueueIs
<1>3. /\ server' = Stored(server, queue[1]) /\ mem' = Requested(mem, server', queue[1])
      /\ ~queue[1].committed /\ pc = "flush"
      /\ UNCHANGED <<host, abilities, digest, calm>>
  BY <1>2 DEF FlushAnswered
<1>4. disk' \in {disk, mem'} /\ pc' \in {"flush", "collect"}
  BY DEF FlushAnswered
<1>5. \/ queue' = Tail(queue)
      \/ queue' = [queue EXCEPT ![1].committed = TRUE]
  BY DEF FlushAnswered
<1>6. server' \in Copies
  BY <1>2, <1>3, StoredIs DEF TypeOK
<1>7. mem' \in SyncStates /\ mem'.revision = mem.revision /\ mem'.hashes = mem.hashes
  BY <1>3, RequestedIs DEF TypeOK
<1> QED
  BY <1>1, <1>2, <1>3, <1>4, <1>5, <1>6, <1>7

LEMMA Loses ==
    ASSUME TypeOK, FlushLost
    PROVE  /\ queue # <<>> /\ queue[1] \in Heartbeats /\ server' \in Copies
           /\ pc = "flush" /\ pc' = "collect"
           /\ UNCHANGED <<host, abilities, mem, disk, digest, calm>>
           /\ \/ UNCHANGED <<server, queue>>
              \/ /\ ~queue[1].committed /\ server' = Stored(server, queue[1])
                 /\ queue' = [queue EXCEPT ![1].committed = TRUE]
<1>1. queue # <<>> /\ pc = "flush" /\ pc' = "collect"
      /\ UNCHANGED <<host, abilities, mem, disk, digest, calm>>
  BY DEF FlushLost
<1>2. Head(queue) = queue[1] /\ queue[1] \in Heartbeats
  BY <1>1, TailIs, QueueIs
<1>3. \/ UNCHANGED <<server, queue>>
      \/ /\ ~queue[1].committed /\ server' = Stored(server, queue[1])
         /\ queue' = [queue EXCEPT ![1].committed = TRUE]
  BY <1>2 DEF FlushLost
<1>4. server' \in Copies
  BY <1>2, <1>3, StoredIs DEF TypeOK
<1> QED
  BY <1>1, <1>2, <1>3, <1>4

LEMMA Writes ==
    ASSUME TypeOK, WriteState
    PROVE  /\ mem' \in SyncStates /\ mem'.revision = mem.revision /\ mem'.hashes = mem.hashes
           /\ disk' \in SyncStates
           /\ \/ disk' = disk
              \/ disk'.revision = mem.revision /\ disk'.hashes = mem.hashes
           /\ pc = "write" /\ pc' \in {"flush", "collect"} /\ digest' = "unknown"
           /\ UNCHANGED <<host, abilities, queue, server, calm>>
<1> DEFINE next == [mem EXCEPT !.capabilitiesHash = digest]
<1>1. next \in SyncStates /\ next.revision = mem.revision /\ next.hashes = mem.hashes
  BY DEF TypeOK, SyncStates
<1>2. /\ mem' \in {mem, next} /\ disk' \in {disk, next}
      /\ pc = "write" /\ pc' \in {"flush", "collect"} /\ digest' = "unknown"
      /\ UNCHANGED <<host, abilities, queue, server, calm>>
  BY DEF WriteState
<1> HIDE DEF next
<1> QED
  BY <1>1, <1>2 DEF TypeOK

-----------------------------------------------------------------------------
(* Types. *)

LEMMA TelemetryTypeInit == Init => TypeOK
<1> SUFFICES ASSUME Init PROVE TypeOK
  OBVIOUS
<1> USE TelemetryAssumption
<1>1. Nothing \in States
  BY DEF Nothing, States
<1>2. emptyTelemetrySyncState \in SyncStates
  BY <1>1 DEF emptyTelemetrySyncState, SyncStates
<1>3. server \in Copies
  BY <1>1 DEF Init, Copies
<1>4. queue \in Seq(Heartbeats) /\ Len(queue) <= MaxQueued
  <2>1. queue = <<>> /\ MaxQueued \in Nat
    BY DEF Init
  <2> QED
    BY <2>1
<1>5. calm \in BOOLEAN
  BY Zenon DEF Init
<1> QED
  BY <1>2, <1>3, <1>4, <1>5 DEF Init, TypeOK

LEMMA TelemetryTypeStep == TypeOK /\ [Next]_vars => TypeOK'
<1> SUFFICES ASSUME TypeOK, [Next]_vars PROVE TypeOK'
  OBVIOUS
<1>1. /\ host \in States /\ abilities \in Capabilities /\ mem \in SyncStates
      /\ disk \in SyncStates /\ pc \in {"off", "collect", "write", "flush"}
      /\ digest \in Capabilities \cup {"unknown"} /\ queue \in Seq(Heartbeats)
      /\ Len(queue) <= MaxQueued /\ server \in Copies /\ calm \in BOOLEAN
  BY DEF TypeOK
<1>2. CASE Start
  BY <1>1, <1>2 DEF Start, TypeOK
<1>3. CASE BuildHeartbeat
  <2>1. queue' \in Seq(Heartbeats) /\ Len(queue') <= MaxQueued
    BY <1>1, <1>3, Builds, AddedIs
  <2>2. digest' \in Capabilities \cup {"unknown"} /\ mem' \in SyncStates
    BY <1>1, <1>3, Builds
  <2>3. pc' \in {"off", "collect", "write", "flush"}
        /\ UNCHANGED <<host, abilities, disk, server, calm>>
    BY <1>3, Builds
  <2> QED
    BY <1>1, <2>1, <2>2, <2>3 DEF TypeOK
<1>4. CASE WriteState
  BY <1>1, <1>4, Writes DEF TypeOK
<1>5. CASE FlushAnswered
  <2>1. queue # <<>>
    BY <1>5, Answers
  <2>2. queue' \in Seq(Heartbeats) /\ Len(queue') <= MaxQueued
    <3>1. CASE queue' = Tail(queue)
      BY <1>1, <2>1, <3>1, TailIs, QueueIs, TelemetryAssumption
    <3>2. CASE queue' = [queue EXCEPT ![1].committed = TRUE]
      BY <1>1, <2>1, <3>2, MarkedIs
    <3> QED
      BY <1>5, <3>1, <3>2, Answers
  <2> QED
    BY <1>1, <1>5, <2>2, Answers DEF TypeOK
<1>6. CASE FlushLost
  <2>1. queue' \in Seq(Heartbeats) /\ Len(queue') <= MaxQueued
    BY <1>1, <1>6, Loses, MarkedIs
  <2> QED
    BY <1>1, <1>6, <2>1, Loses DEF TypeOK
<1>7. CASE FlushReplayed
  <2>1. queue # <<>> /\ queue' = Tail(queue)
        /\ UNCHANGED <<host, abilities, mem, disk, pc, digest, server, calm>>
    BY <1>7 DEF FlushReplayed
  <2>2. queue' \in Seq(Heartbeats) /\ Len(queue') <= MaxQueued
    BY <1>1, <2>1, TailIs, QueueIs, TelemetryAssumption
  <2> QED
    BY <1>1, <2>1, <2>2 DEF TypeOK
<1>8. CASE FlushDone
  BY <1>1, <1>8 DEF FlushDone, TypeOK
<1>9. CASE Stop
  <2>1. emptyTelemetrySyncState \in SyncStates
    BY TelemetryAssumption DEF emptyTelemetrySyncState, SyncStates, Nothing, States
  <2> QED
    BY <1>1, <1>9, <2>1 DEF Stop, TypeOK
<1>10. CASE HostChanges
  <2>1. host' \in States /\ abilities' \in Capabilities
    BY <1>1, <1>10 DEF HostChanges, States
  <2> QED
    BY <1>1, <1>10, <2>1 DEF HostChanges, TypeOK
<1>11. CASE SixHoursPass
  <2>1. mem' \in SyncStates /\ disk' \in SyncStates
    BY <1>1, <1>11 DEF SixHoursPass, SyncStates
  <2> QED
    BY <1>1, <1>11, <2>1 DEF SixHoursPass, TypeOK
<1>12. CASE Calm
  BY <1>1, <1>12 DEF Calm, TypeOK
<1>13. CASE UNCHANGED vars
  BY <1>1, <1>13 DEF vars, TypeOK
<1> QED
  BY <1>2, <1>3, <1>4, <1>5, <1>6, <1>7, <1>8, <1>9, <1>10, <1>11, <1>12, <1>13
     DEF Next, AgentStep

(***************************************************************************)
(* Every variable has the shape of the code's state and the buffer keeps   *)
(* its limit, in every environment (Agent.telemetry, telemetry-sync.json,  *)
(* Queue.Add).                                                             *)
(***************************************************************************)
THEOREM TelemetryTypeCorrect == Spec => []TypeOK
BY TelemetryTypeInit, TelemetryTypeStep, PTL DEF Spec

-----------------------------------------------------------------------------
(* Steps that build nothing: what is queued afterwards was queued before,  *)
(* perhaps one place further back, and only the head is newly known to be  *)
(* stored.  The family's state changes neither in memory nor, but for a    *)
(* write of what is in memory, in the file.                                *)

Shifts(k) ==
    \A i \in DOMAIN queue' :
       /\ i \in Nat \ {0} /\ i + k \in DOMAIN queue
       /\ queue'[i].family = queue[i + k].family
       /\ queue'[i].of = queue[i + k].of
       /\ queue'[i].committed => i = 1
       /\ ~queue'[i].committed => ~queue[i + k].committed

StateKept ==
    /\ mem'.revision = mem.revision /\ mem'.hashes = mem.hashes
    /\ \/ disk'.revision = disk.revision /\ disk'.hashes = disk.hashes
       \/ disk'.revision = mem.revision /\ disk'.hashes = mem.hashes
    /\ pc' = "off" => mem' = disk'

(* The application learns nothing, or that its copy is stale. *)
CopyKept ==
    /\ server'.revision = server.revision
    /\ ~server'.stale => /\ ~server.stale
                         /\ server'.view = server.view /\ server'.truth = server.truth

LEMMA TypedParts ==
    ASSUME TypeOK
    PROVE  /\ mem.revision \in Nat /\ disk.revision \in Nat /\ server.revision \in Nat
           /\ server.stale \in BOOLEAN
BY TelemetryAssumption DEF TypeOK, SyncStates, Copies

(* Nothing moves backwards in the queue. *)
LEMMA TailShifts ==
    ASSUME TypeOK, RevisionsInOrder, queue # <<>>, queue' = Tail(queue)
    PROVE  Shifts(1) /\ \A i \in DOMAIN queue' : i + 1 # 1
BY TailIs DEF Shifts, RevisionsInOrder

LEMMA MarkedShifts ==
    ASSUME TypeOK, RevisionsInOrder, queue # <<>>,
           queue' = [queue EXCEPT ![1].committed = TRUE]
    PROVE  Shifts(0) /\ \A i \in DOMAIN queue' : ~queue'[i].committed => i + 0 # 1
<1>1. \A i \in DOMAIN queue' :
         /\ i \in Nat \ {0} /\ i \in DOMAIN queue
         /\ queue'[i].family = queue[i].family /\ queue'[i].of = queue[i].of
         /\ i # 1 => queue'[i] = queue[i]
         /\ i = 1 => queue'[i].committed
  BY MarkedIs, QueueIs
<1>2. \A i \in DOMAIN queue : queue[i].committed => i = 1
  BY DEF RevisionsInOrder
<1>3. \A i \in DOMAIN queue' : i + 0 = i
  BY <1>1
<1> QED
  BY <1>1, <1>2, <1>3 DEF Shifts

LEMMA SameShifts ==
    ASSUME TypeOK, RevisionsInOrder, queue' = queue PROVE Shifts(0)
<1>1. \A i \in DOMAIN queue : i \in Nat \ {0} /\ i + 0 = i
  BY QueueIs
<1> QED
  BY <1>1 DEF Shifts, RevisionsInOrder

LEMMA KeptParts ==
    ASSUME TelemetryInv, NEW k \in {0, 1}, Shifts(k), StateKept, CopyKept
    PROVE  RevisionsInOrder' /\ NewestAgree' /\ ChangesFollow' /\ FileAgrees' /\ ViewsAgree'
<1> USE DEF TelemetryInv
<1>1. \A i \in DOMAIN queue' :
         /\ i \in Nat \ {0} /\ i + k \in DOMAIN queue
         /\ Revision(i)' = Revision(i + k)
         /\ queue'[i].family = queue[i + k].family
         /\ queue'[i].of = queue[i + k].of
         /\ queue'[i].committed => i = 1
         /\ ~queue'[i].committed => ~queue[i + k].committed
  BY DEF Shifts, Revision
<1>2. \A i, j \in DOMAIN queue' : i < j => i + k < j + k
  BY <1>1
<1>3. \A i, j \in DOMAIN queue' :
         After(queue'[i].of, queue'[j]) = After(queue[i + k].of, queue[j + k])
  BY <1>1 DEF After
<1>4. \A j \in DOMAIN queue' : After(server.view, queue'[j]) = After(server.view, queue[j + k])
  BY <1>1 DEF After
<1>5. RevisionsInOrder'
  <2>1. server'.revision <= mem'.revision /\ disk'.revision <= mem'.revision
    BY TypedParts DEF RevisionsInOrder, StateKept, CopyKept
  <2>2. \A i \in DOMAIN queue' :
           /\ Revision(i)' <= mem'.revision
           /\ queue'[i].committed => i = 1
           /\ Revision(i)' # 0 /\ ~queue'[i].committed => server'.revision < Revision(i)'
    BY <1>1 DEF RevisionsInOrder, StateKept, CopyKept
  <2>3. \A i, j \in DOMAIN queue' :
           i < j /\ Revision(i)' # 0 /\ Revision(j)' # 0 => Revision(i)' < Revision(j)'
    BY <1>1, <1>2 DEF RevisionsInOrder
  <2> HIDE DEF TelemetryInv
  <2> QED
    BY <2>1, <2>2, <2>3 DEF RevisionsInOrder
<1>6. NewestAgree'
  <2>1. \A i \in DOMAIN queue' : Revision(i)' # 0 /\ Revision(i)' = mem'.revision
          => queue'[i].of = mem'.hashes
    BY <1>1 DEF NewestAgree, StateKept
  <2>2. ~server'.stale /\ server'.revision = mem'.revision => server'.view = mem'.hashes
    BY DEF NewestAgree, StateKept, CopyKept
  <2>3. disk'.revision = mem'.revision => disk'.hashes = mem'.hashes
    BY DEF NewestAgree, StateKept
  <2> QED
    BY <2>1, <2>2, <2>3 DEF NewestAgree
<1>7. ChangesFollow'
  <2>1. \A i \in DOMAIN queue' : Revision(i)' # 0 /\ queue'[i].family.full
          => queue'[i].family.changed = Present(queue'[i].of)
    BY <1>1 DEF ChangesFollow
  <2>2. \A i, j \in DOMAIN queue' :
          /\ i < j /\ Revision(i)' # 0
          /\ Revision(j)' = Revision(i)' + 1 /\ ~queue'[j].family.full
          => After(queue'[i].of, queue'[j]) = queue'[j].of
    BY <1>1, <1>2, <1>3 DEF ChangesFollow
  <2>3. \A j \in DOMAIN queue' :
          /\ ~server'.stale /\ ~queue'[j].committed
          /\ Revision(j)' = server'.revision + 1 /\ ~queue'[j].family.full
          => After(server'.view, queue'[j]) = queue'[j].of
    BY <1>1, <1>4 DEF ChangesFollow, CopyKept
  <2> QED
    BY <2>1, <2>2, <2>3 DEF ChangesFollow, Present, After
<1>8. FileAgrees'
  <2>1. \A i \in DOMAIN queue' : Revision(i)' # 0 /\ Revision(i)' = disk'.revision
          => queue'[i].of = disk'.hashes
    BY <1>1 DEF FileAgrees, NewestAgree, StateKept
  <2> QED
    BY <2>1 DEF FileAgrees, StateKept
<1>9. ViewsAgree'
  BY DEF ViewsAgree, ViewIsWhole, AcknowledgedIsPersisted, NewestAgree, StateKept,
    CopyKept
<1> QED
  BY <1>5, <1>6, <1>7, <1>8, <1>9
(* The application takes over the head of the queue. *)
LEMMA AppliedParts ==
    ASSUME TelemetryInv, NEW k \in {0, 1}, Shifts(k), StateKept,
           \A i \in DOMAIN queue' : ~queue'[i].committed => i + k # 1,
           1 \in DOMAIN queue, queue[1] \in Heartbeats, ~queue[1].committed,
           Revision(1) # 0, server'.revision = Revision(1), ~server'.stale,
           server'.truth = queue[1].of,
           \/ /\ queue[1].family.full
              /\ server'.view = [r \in Resources |-> IF r \in queue[1].family.changed
                                                    THEN queue[1].of[r] ELSE "absent"]
           \/ /\ ~queue[1].family.full /\ ~server.stale /\ Revision(1) = server.revision + 1
              /\ server'.view = After(server.view, queue[1])
    PROVE  RevisionsInOrder' /\ NewestAgree' /\ ChangesFollow' /\ FileAgrees' /\ ViewsAgree'
<1> USE DEF TelemetryInv
<1>1. \A i \in DOMAIN queue' :
         /\ i \in Nat \ {0} /\ i + k \in DOMAIN queue
         /\ Revision(i)' = Revision(i + k)
         /\ queue'[i].family = queue[i + k].family
         /\ queue'[i].of = queue[i + k].of
         /\ queue'[i].committed => i = 1
         /\ ~queue'[i].committed => ~queue[i + k].committed /\ 1 < i + k
  BY DEF Shifts, Revision
<1>2. \A i, j \in DOMAIN queue' : i < j => i + k < j + k
  BY <1>1
<1>3. \A i, j \in DOMAIN queue' :
         After(queue'[i].of, queue'[j]) = After(queue[i + k].of, queue[j + k])
  BY <1>1 DEF After
<1>4. server'.view = queue[1].of
  <2>1. queue[1].of \in States
    BY DEF Heartbeats
  <2>2. CASE queue[1].family.full
    <3>1. queue[1].family.changed = Present(queue[1].of)
      BY <2>2 DEF ChangesFollow
    <3>2. /\ server'.view = [r \in Resources |-> IF r \in queue[1].family.changed
                                                 THEN queue[1].of[r] ELSE "absent"]
      BY <2>2
    <3>3. \A r \in Resources : server'.view[r] = queue[1].of[r]
      BY <3>1, <3>2 DEF Present
    <3> QED
      BY <2>1, <3>2, <3>3 DEF States
  <2>3. CASE ~queue[1].family.full
    BY <2>3 DEF ChangesFollow
  <2> QED
    BY <2>2, <2>3
<1>5. \A j \in DOMAIN queue' : After(server'.view, queue'[j]) = After(queue[1].of, queue[j + k])
  BY <1>1, <1>4 DEF After
<1>6. RevisionsInOrder'
  <2>1. server'.revision <= mem'.revision /\ disk'.revision <= mem'.revision
    BY TypedParts DEF RevisionsInOrder, StateKept
  <2>2. \A i \in DOMAIN queue' :
           /\ Revision(i)' <= mem'.revision
           /\ queue'[i].committed => i = 1
           /\ Revision(i)' # 0 /\ ~queue'[i].committed => server'.revision < Revision(i)'
    BY <1>1 DEF RevisionsInOrder, StateKept
  <2>3. \A i, j \in DOMAIN queue' :
           i < j /\ Revision(i)' # 0 /\ Revision(j)' # 0 => Revision(i)' < Revision(j)'
    BY <1>1, <1>2 DEF RevisionsInOrder
  <2> HIDE DEF TelemetryInv
  <2> QED
    BY <2>1, <2>2, <2>3 DEF RevisionsInOrder
<1>7. NewestAgree'
  <2>1. \A i \in DOMAIN queue' : Revision(i)' # 0 /\ Revision(i)' = mem'.revision
          => queue'[i].of = mem'.hashes
    BY <1>1 DEF NewestAgree, StateKept
  <2>2. server'.revision = mem'.revision => server'.view = mem'.hashes
    BY <1>4 DEF NewestAgree, StateKept
  <2>3. disk'.revision = mem'.revision => disk'.hashes = mem'.hashes
    BY DEF NewestAgree, StateKept
  <2> QED
    BY <2>1, <2>2, <2>3 DEF NewestAgree
<1>8. ChangesFollow'
  <2>1. \A i \in DOMAIN queue' : Revision(i)' # 0 /\ queue'[i].family.full
          => queue'[i].family.changed = Present(queue'[i].of)
    BY <1>1 DEF ChangesFollow
  <2>2. \A i, j \in DOMAIN queue' :
          /\ i < j /\ Revision(i)' # 0
          /\ Revision(j)' = Revision(i)' + 1 /\ ~queue'[j].family.full
          => After(queue'[i].of, queue'[j]) = queue'[j].of
    BY <1>1, <1>2, <1>3 DEF ChangesFollow
  <2>3. \A j \in DOMAIN queue' :
          /\ ~queue'[j].committed
          /\ Revision(j)' = server'.revision + 1 /\ ~queue'[j].family.full
          => After(server'.view, queue'[j]) = queue'[j].of
    BY <1>1, <1>5 DEF ChangesFollow
  <2> QED
    BY <2>1, <2>2, <2>3 DEF ChangesFollow, Present, After
<1>9. FileAgrees'
  <2>1. \A i \in DOMAIN queue' : Revision(i)' # 0 /\ Revision(i)' = disk'.revision
          => queue'[i].of = disk'.hashes
    BY <1>1 DEF FileAgrees, NewestAgree, StateKept
  <2> QED
    BY <2>1 DEF FileAgrees, StateKept
<1>10. ViewsAgree'
  <2>1. server'.view = server'.truth
    BY <1>4
  <2>2. disk'.revision = server'.revision => disk'.hashes = server'.view
    BY <1>4 DEF FileAgrees, NewestAgree, StateKept
  <2> QED
    BY <2>1, <2>2 DEF ViewsAgree, ViewIsWhole, AcknowledgedIsPersisted
<1> QED
  BY <1>6, <1>7, <1>8, <1>9, <1>10

(* Both outcomes of a heartbeat that reaches the application. *)
LEMMA ServedParts ==
    ASSUME TelemetryInv, NEW k \in {0, 1}, Shifts(k), StateKept,
           \A i \in DOMAIN queue' : ~queue'[i].committed => i + k # 1,
           queue # <<>>, ~queue[1].committed, server' = Stored(server, queue[1])
    PROVE  RevisionsInOrder' /\ NewestAgree' /\ ChangesFollow' /\ FileAgrees' /\ ViewsAgree'
<1>1. 1 \in DOMAIN queue /\ queue[1] \in Heartbeats /\ server \in Copies /\ TypeOK
  BY TailIs, QueueIs DEF TelemetryInv, TypeOK
<1>2. CASE CopyKept
  BY <1>2, KeptParts
<1>3. CASE ~CopyKept
  <2>1. /\ queue[1].family.revision # 0
        /\ server'.revision = queue[1].family.revision /\ ~server'.stale
        /\ server'.truth = queue[1].of
        /\ \/ /\ queue[1].family.full
              /\ server'.view = [r \in Resources |-> IF r \in queue[1].family.changed
                                                    THEN queue[1].of[r] ELSE "absent"]
           \/ /\ ~queue[1].family.full /\ ~server.stale
              /\ queue[1].family.revision = server.revision + 1
              /\ server'.view = After(server.view, queue[1])
    BY <1>1, <1>3, StoredIs DEF CopyKept
  <2> QED
    BY <1>1, <2>1, AppliedParts DEF Revision
<1> QED
  BY <1>2, <1>3

-----------------------------------------------------------------------------
(* The step that builds a heartbeat, which is queued last or not at all.   *)

Queues(h, k) ==
    \A i \in DOMAIN queue' :
       /\ i \in Nat \ {0} /\ i + k <= Len(queue) + 1
       /\ i + k = Len(queue) + 1 => queue'[i] = h
       /\ i + k # Len(queue) + 1 => i + k \in DOMAIN queue /\ queue'[i] = queue[i + k]

LEMMA BuildQueues ==
    ASSUME TypeOK, NEW h \in Heartbeats,
           \/ queue' = queue
           \/ queue' = LET all == Append(queue, h)
                       IN  IF Len(all) > MaxQueued THEN Tail(all) ELSE all
    PROVE  \E k \in {0, 1} : Queues(h, k)
<1>1. CASE queue' = queue
  <2>1. Len(queue) \in Nat /\ DOMAIN queue = 1 .. Len(queue)
    BY QueueIs
  <2>2. Queues(h, 0)
    BY <1>1, <2>1 DEF Queues
  <2> QED
    BY <2>2
<1>2. CASE queue' = LET all == Append(queue, h)
                    IN  IF Len(all) > MaxQueued THEN Tail(all) ELSE all
  BY <1>2, AddedIs DEF Queues
<1> QED
  BY <1>1, <1>2

(* What the new heartbeat h says of the family, of which n is left.        *)
Reports(h) ==
    \/ h.family.revision = 0 /\ mem'.revision = mem.revision /\ mem'.hashes = mem.hashes
    \/ /\ h.family.revision = mem.revision + 1 /\ mem'.revision = mem.revision + 1
       /\ mem'.hashes = h.of
       /\ h.family.full => h.family.changed = Present(h.of)
       /\ ~h.family.full => After(mem.hashes, h) = h.of

LEMMA BuildReports ==
    ASSUME TypeOK, BuildHeartbeat
    PROVE  Reports(Heartbeat(deltaFamily(mem, host), mem.capabilitiesHash # abilities, host))
<1> DEFINE f == deltaFamily(mem, host)
           h == Heartbeat(f, mem.capabilitiesHash # abilities, host)
<1> SUFFICES Reports(h)
  OBVIOUS
<1>1. h \in Heartbeats /\ h.family = f /\ h.of = host /\ mem' = NextFamily(mem, host)
  BY Builds DEF Heartbeat
<1>2. \/ f.revision = 0 /\ mem'.revision = mem.revision /\ mem'.hashes = mem.hashes
      \/ /\ f.revision = mem.revision + 1 /\ mem'.revision = mem.revision + 1
         /\ mem'.hashes = host
         /\ f.full => f.changed = Present(host)
         /\ ~f.full => \A r \in Resources :
               r \notin f.changed =>
                  host[r] = IF r \in f.removed THEN "absent" ELSE mem.hashes[r]
  BY <1>1, Builds, FamilyBuilt
<1> HIDE DEF h, f
<1>3. CASE ~f.full /\ f.revision = mem.revision + 1 /\ f.revision # 0
  <2>1. After(mem.hashes, h) = h.of
    <3>1. \A r \in Resources : r \notin h.family.changed =>
              h.of[r] = IF r \in h.family.removed THEN "absent" ELSE mem.hashes[r]
      BY <1>1, <1>2, <1>3
    <3> QED
      BY <1>1, <3>1, AfterIs
  <2>2. /\ mem'.revision = mem.revision + 1 /\ mem'.hashes = host
    BY <1>2, <1>3
  <2> QED
    BY <1>1, <1>3, <2>1, <2>2 DEF Reports
<1>4. CASE f.full \/ f.revision = 0
  BY <1>1, <1>2, <1>4, TypedParts DEF Reports
<1>5. f.revision = 0 \/ f.revision = mem.revision + 1
  BY <1>2
<1> QED
  BY <1>3, <1>4, <1>5

LEMMA BuiltParts ==
    ASSUME TelemetryInv, NEW h \in Heartbeats, NEW k \in {0, 1}, Queues(h, k), Reports(h),
           ~h.committed, disk' = disk, server' = server, pc' # "off"
    PROVE  RevisionsInOrder' /\ NewestAgree' /\ ChangesFollow' /\ FileAgrees' /\ ViewsAgree'
<1> USE DEF TelemetryInv
<1> DEFINE New(i) == i + k = Len(queue) + 1
<1>1. /\ mem.revision \in Nat /\ disk.revision \in Nat /\ server.revision \in Nat
      /\ h.family.revision \in Nat /\ Len(queue) \in Nat
  BY TypedParts, QueueIs, TelemetryAssumption DEF Heartbeats, Families
<1>2. \A i \in DOMAIN queue' : ~New(i) =>
         /\ i \in Nat \ {0} /\ i + k \in DOMAIN queue /\ queue'[i] = queue[i + k]
         /\ Revision(i)' = Revision(i + k) /\ Revision(i + k) \in Nat
         /\ Revision(i)' <= mem.revision
  BY QueueIs DEF Queues, Revision, RevisionsInOrder
<1>3. \A i \in DOMAIN queue' : New(i) =>
         i \in Nat \ {0} /\ queue'[i] = h /\ Revision(i)' = h.family.revision
  BY DEF Queues, Revision
<1>4. \A i, j \in DOMAIN queue' : i < j => ~New(i) /\ i + k < j + k
  BY <1>1 DEF Queues
<1>5. \/ h.family.revision = 0 /\ mem'.revision = mem.revision /\ mem'.hashes = mem.hashes
      \/ /\ h.family.revision = mem.revision + 1 /\ mem'.revision = mem.revision + 1
         /\ mem'.hashes = h.of
         /\ h.family.full => h.family.changed = Present(h.of)
         /\ ~h.family.full => After(mem.hashes, h) = h.of
  BY DEF Reports
<1>6. \A view, i : queue'[i] = h => After(view, queue'[i]) = After(view, h)
  BY DEF After
<1>7. \A view, i : queue'[i] = queue[i + k] =>
         After(view, queue'[i]) = After(view, queue[i + k])
  BY DEF After
<1>8. RevisionsInOrder'
  <2>1. server'.revision <= mem'.revision /\ disk'.revision <= mem'.revision
    BY <1>1, <1>5 DEF RevisionsInOrder
  <2>2. \A i \in DOMAIN queue' : Revision(i)' <= mem'.revision
    BY <1>1, <1>2, <1>3, <1>5
  <2>3. \A i \in DOMAIN queue' : queue'[i].committed => i = 1
    BY <1>2, <1>3 DEF RevisionsInOrder
  <2>4. \A i \in DOMAIN queue' :
           Revision(i)' # 0 /\ ~queue'[i].committed => server'.revision < Revision(i)'
    BY <1>1, <1>2, <1>3, <1>5 DEF RevisionsInOrder
  <2>5. \A i, j \in DOMAIN queue' :
           i < j /\ Revision(i)' # 0 /\ Revision(j)' # 0 => Revision(i)' < Revision(j)'
    BY <1>1, <1>2, <1>3, <1>4, <1>5 DEF RevisionsInOrder
  <2> HIDE DEF TelemetryInv
  <2> QED
    BY <2>1, <2>2, <2>3, <2>4, <2>5 DEF RevisionsInOrder
<1>9. NewestAgree'
  <2>1. \A i \in DOMAIN queue' : Revision(i)' # 0 /\ Revision(i)' = mem'.revision
          => queue'[i].of = mem'.hashes
    BY <1>1, <1>2, <1>3, <1>5 DEF NewestAgree
  <2>2. ~server'.stale /\ server'.revision = mem'.revision => server'.view = mem'.hashes
    BY <1>1, <1>5 DEF NewestAgree, RevisionsInOrder
  <2>3. disk'.revision = mem'.revision => disk'.hashes = mem'.hashes
    BY <1>1, <1>5 DEF NewestAgree, RevisionsInOrder
  <2> QED
    BY <2>1, <2>2, <2>3 DEF NewestAgree
<1>10. ChangesFollow'
  <2>1. \A i \in DOMAIN queue' : Revision(i)' # 0 /\ queue'[i].family.full
          => queue'[i].family.changed = Present(queue'[i].of)
    BY <1>1, <1>2, <1>3, <1>5 DEF ChangesFollow
  <2>2. ASSUME NEW i \in DOMAIN queue', NEW j \in DOMAIN queue',
               i < j, Revision(i)' # 0,
               Revision(j)' = Revision(i)' + 1, ~queue'[j].family.full
        PROVE  After(queue'[i].of, queue'[j]) = queue'[j].of
    <3>1. ~New(i) /\ queue'[i] = queue[i + k] /\ i + k \in DOMAIN queue
          /\ Revision(i)' = Revision(i + k) /\ Revision(i)' \in Nat
      BY <1>2, <1>4, <2>2
    <3>2. CASE New(j)
      <4>1. queue'[j] = h /\ Revision(j)' = h.family.revision
        BY <1>3, <3>2
      <4>2. h.family.revision = mem.revision + 1 /\ Revision(i + k) = mem.revision
        BY <1>1, <1>5, <2>2, <3>1, <4>1
      <4>3. queue[i + k].of = mem.hashes
        BY <2>2, <3>1, <4>2 DEF NewestAgree
      <4>4. After(mem.hashes, h) = h.of
        BY <1>1, <1>5, <2>2, <4>1, <4>2
      <4> QED
        BY <1>6, <3>1, <4>1, <4>3, <4>4
    <3>3. CASE ~New(j)
      <4>1. queue'[j] = queue[j + k] /\ j + k \in DOMAIN queue /\ Revision(j)' = Revision(j + k)
        BY <1>2, <3>3
      <4>2. After(queue[i + k].of, queue[j + k]) = queue[j + k].of
        BY <1>4, <2>2, <3>1, <4>1 DEF ChangesFollow
      <4> QED
        BY <1>7, <3>1, <4>1, <4>2
    <3> QED
      BY <3>2, <3>3
  <2>3. ASSUME NEW j \in DOMAIN queue', ~server'.stale, ~queue'[j].committed,
               Revision(j)' = server'.revision + 1, ~queue'[j].family.full
        PROVE  After(server'.view, queue'[j]) = queue'[j].of
    <3>1. CASE New(j)
      <4>1. queue'[j] = h /\ Revision(j)' = h.family.revision
        BY <1>3, <3>1
      <4>2. h.family.revision = mem.revision + 1 /\ server.revision = mem.revision
        BY <1>1, <1>5, <2>3, <4>1
      <4>3. server.view = mem.hashes
        BY <2>3, <4>2 DEF NewestAgree
      <4>4. After(mem.hashes, h) = h.of
        BY <1>1, <1>5, <2>3, <4>1, <4>2
      <4> QED
        BY <1>6, <4>1, <4>3, <4>4
    <3>2. CASE ~New(j)
      <4>1. queue'[j] = queue[j + k] /\ j + k \in DOMAIN queue /\ Revision(j)' = Revision(j + k)
        BY <1>2, <3>2
      <4>2. After(server.view, queue[j + k]) = queue[j + k].of
        BY <2>3, <4>1 DEF ChangesFollow
      <4> QED
        BY <1>7, <4>1, <4>2
    <3> QED
      BY <3>1, <3>2
  <2> QED
    BY <2>1, <2>2, <2>3 DEF ChangesFollow, Present, After
<1>11. FileAgrees'
  <2>1. \A i \in DOMAIN queue' : Revision(i)' # 0 /\ Revision(i)' = disk'.revision
          => queue'[i].of = disk'.hashes
    BY <1>1, <1>2, <1>3, <1>5 DEF FileAgrees, RevisionsInOrder
  <2> QED
    BY <2>1 DEF FileAgrees
<1>12. ViewsAgree'
  BY DEF ViewsAgree, ViewIsWhole, AcknowledgedIsPersisted
<1> QED
  BY <1>8, <1>9, <1>10, <1>11, <1>12

-----------------------------------------------------------------------------
(* The invariant. *)

NeverStops == {"stop", "power"} \cap Environment = {}

LEMMA TelemetryInit == Init => TelemetryInv
<1> SUFFICES ASSUME Init PROVE TelemetryInv
  OBVIOUS
<1>1. /\ queue = <<>> /\ DOMAIN queue = {} /\ mem = disk /\ pc = "off"
      /\ mem.revision = 0 /\ disk.revision = 0 /\ server.revision = 0
      /\ mem.hashes = Nothing /\ disk.hashes = Nothing
      /\ server.view = Nothing /\ server.truth = Nothing
  BY DEF Init, emptyTelemetrySyncState
<1>2. RevisionsInOrder /\ NewestAgree /\ ChangesFollow /\ FileAgrees
  BY <1>1 DEF RevisionsInOrder, NewestAgree, ChangesFollow, FileAgrees
<1>3. ViewsAgree
  BY <1>1 DEF ViewsAgree, ViewIsWhole, AcknowledgedIsPersisted
<1> QED
  BY <1>2, <1>3, TelemetryTypeInit DEF TelemetryInv

LEMMA TelemetryStep == TelemetryInv /\ NeverStops /\ [Next]_vars => TelemetryInv'
<1> SUFFICES ASSUME TelemetryInv, NeverStops, [Next]_vars PROVE TelemetryInv'
  OBVIOUS
<1> DEFINE Parts == RevisionsInOrder' /\ NewestAgree' /\ ChangesFollow' /\ FileAgrees'
                      /\ ViewsAgree'
<1>1. TypeOK /\ RevisionsInOrder /\ TypeOK'
  BY TelemetryTypeStep DEF TelemetryInv
<1> SUFFICES Parts
  BY <1>1 DEF TelemetryInv
<1>2. ASSUME queue' = queue, StateKept, server' = server PROVE Parts
  <2>1. Shifts(0) /\ CopyKept
    BY <1>1, <1>2, SameShifts DEF CopyKept
  <2> QED
    BY <1>2, <2>1, KeptParts
<1>3. ASSUME queue # <<>>, StateKept, ~queue[1].committed, server' = Stored(server, queue[1]),
             queue' = Tail(queue) \/ queue' = [queue EXCEPT ![1].committed = TRUE]
      PROVE  Parts
  BY <1>1, <1>3, TailShifts, MarkedShifts, ServedParts
<1>4. CASE Start
  <2>1. mem = disk /\ mem' = disk /\ disk' = disk
    BY <1>4 DEF Start, TelemetryInv, FileAgrees
  <2>2. StateKept
    BY <1>4, <2>1 DEF Start, StateKept
  <2> QED
    BY <1>2, <1>4, <2>2 DEF Start
<1>5. CASE BuildHeartbeat
  <2> DEFINE h == Heartbeat(deltaFamily(mem, host), mem.capabilitiesHash # abilities, host)
  <2>1. h \in Heartbeats /\ Reports(h)
    BY <1>1, <1>5, Builds, BuildReports
  <2>2. ~h.committed
    BY DEF Heartbeat
  <2>3. \/ queue' = queue
        \/ queue' = LET all == Append(queue, h)
                    IN  IF Len(all) > MaxQueued THEN Tail(all) ELSE all
    BY <1>1, <1>5, Builds
  <2>4. disk' = disk /\ server' = server /\ pc' # "off"
    BY <1>1, <1>5, Builds
  <2> HIDE DEF h
  <2>5. PICK k \in {0, 1} : Queues(h, k)
    BY <1>1, <2>1, <2>3, BuildQueues
  <2> QED
    BY <2>1, <2>2, <2>4, <2>5, BuiltParts
<1>6. CASE WriteState
  <2>1. StateKept
    BY <1>1, <1>6, Writes DEF StateKept
  <2> QED
    BY <1>1, <1>2, <1>6, <2>1, Writes
<1>7. CASE FlushAnswered
  <2>1. StateKept
    BY <1>1, <1>7, Answers DEF StateKept
  <2> QED
    BY <1>1, <1>3, <1>7, <2>1, Answers
<1>8. CASE FlushLost
  <2>1. StateKept
    BY <1>1, <1>8, Loses DEF StateKept
  <2> QED
    BY <1>1, <1>2, <1>3, <1>8, <2>1, Loses
<1>9. CASE FlushReplayed
  <2>1. StateKept /\ queue # <<>> /\ queue' = Tail(queue) /\ server' = server
    BY <1>9 DEF FlushReplayed, StateKept
  <2> QED
    BY <1>1, <2>1, TailShifts, KeptParts DEF CopyKept
<1>10. CASE FlushDone \/ HostChanges \/ Calm
  <2>1. StateKept /\ queue' = queue /\ server' = server
    BY <1>10 DEF FlushDone, HostChanges, Calm, StateKept, TelemetryInv, FileAgrees
  <2> QED
    BY <1>2, <2>1
<1>11. CASE SixHoursPass
  <2>1. /\ mem' = [mem EXCEPT !.recent = FALSE] /\ disk' = [disk EXCEPT !.recent = FALSE]
        /\ pc' = pc /\ queue' = queue /\ server' = server
    BY <1>11 DEF SixHoursPass
  <2>2. mem \in SyncStates /\ disk \in SyncStates
    BY <1>1 DEF TypeOK
  <2>3. /\ mem'.revision = mem.revision /\ mem'.hashes = mem.hashes
        /\ disk'.revision = disk.revision /\ disk'.hashes = disk.hashes
    BY <2>1, <2>2 DEF SyncStates
  <2>4. StateKept
    BY <2>1, <2>3 DEF StateKept, TelemetryInv, FileAgrees
  <2> QED
    BY <1>2, <2>1, <2>4
<1>12. CASE UNCHANGED vars
  <2>1. StateKept /\ queue' = queue /\ server' = server
    BY <1>12 DEF vars, StateKept, TelemetryInv, FileAgrees
  <2> QED
    BY <1>2, <2>1
<1>13. ~Stop
  BY DEF Stop, NeverStops
<1> QED
  BY <1>4, <1>5, <1>6, <1>7, <1>8, <1>9, <1>10, <1>11, <1>12, <1>13 DEF Next, AgentStep

THEOREM TelemetryInvariance == ASSUME NeverStops PROVE Spec => []TelemetryInv
<1>1. TelemetryInv /\ [Next]_vars => TelemetryInv'
  BY TelemetryStep
<1> QED
  BY <1>1, TelemetryInit, PTL DEF Spec

(***************************************************************************)
(* While the process does not stop, the changes the application applied    *)
(* add up to the host's state, and telemetry-sync.json agrees with it on   *)
(* an acknowledged revision, through evictions, failed collections, lost   *)
(* responses and failed writes (deltaFamily, Flush).                       *)
(***************************************************************************)
THEOREM CopyIsWhole == ASSUME NeverStops PROVE Spec => []ViewsAgree
<1>1. TelemetryInv => ViewsAgree
  BY DEF TelemetryInv
<1> QED
  BY <1>1, TelemetryInvariance, PTL
=============================================================================
