---------------------------- MODULE TelemetrySync ----------------------------
(***************************************************************************)
(* Compact telemetry (src/internal/runtime/telemetry_delta.go, and its use *)
(* by Collect and Flush in agent.go).  A heartbeat carries of each family  *)
(* of resources (services, containers, ...) only what changed since the    *)
(* previous heartbeat, under a revision number; every six hours, and when  *)
(* the application asks for it, it carries all of the family.              *)
(*                                                                         *)
(* The families are independent and one stands for each of them.  A digest *)
(* is modelled by the value it is the digest of.  The buffer is a sequence *)
(* of at most MaxQueued heartbeats; what is inside Queue and the network   *)
(* is the subject of Queue and Delivery.                                   *)
(***************************************************************************)
EXTENDS Integers, Sequences

CONSTANTS
    Resources,     \* keys of the family
    Values,        \* what may be observed of a resource
    Capabilities,  \* capability maps the host may report
    MaxQueued,     \* limit of the buffer, in heartbeats
    MaxRevision,   \* bound of the model
    Environment    \* what may happen: a subset of Events

Events == {"calm", "change", "local", "network", "power", "stop", "time", "write"}

ASSUME TelemetryAssumption ==
    /\ Resources # {} /\ Capabilities # {}
    /\ "absent" \notin Values /\ "unknown" \notin Capabilities
    /\ MaxQueued \in Nat \ {0}
    /\ MaxRevision \in Nat
    /\ Environment \subseteq Events

VARIABLES
    host,       \* what the collector sees of every resource
    abilities,  \* what it sees of the capabilities
    mem,        \* Agent.telemetry
    disk,       \* telemetry-sync.json
    pc,         \* "off", "collect", "write" or "flush"
    digest,     \* nextTelemetry.CapabilitiesHash, between build and write
    queue,      \* the buffered heartbeats, oldest first
    server,     \* the application's copy of the family
    calm        \* nothing happens any more except the agent's own steps

vars == <<host, abilities, mem, disk, pc, digest, queue, server, calm>>

States == [Resources -> Values \cup {"absent"}]

Nothing == [r \in Resources |-> "absent"]

(* familySyncState together with CapabilitiesHash.  Whether LastFullAt is  *)
(* set and less than six hours old is all deltaFamily asks of it.          *)
SyncStates ==
    [revision : 0 .. MaxRevision, hashes : States, recent : BOOLEAN,
     capabilitiesHash : Capabilities \cup {"unknown"}]

emptyTelemetrySyncState ==
    [revision |-> 0, hashes |-> Nothing, recent |-> FALSE, capabilitiesHash |-> "unknown"]

(***************************************************************************)
(* A heartbeat: the family's StateFamily, or revision 0 when the field is  *)
(* omitted, and the capabilities with their digest.  "of" is history: the  *)
(* state of the family when the heartbeat was built.                       *)
(***************************************************************************)
Omitted == [revision |-> 0, full |-> FALSE, changed |-> {}, removed |-> {}]

Heartbeat(family, all, of) ==
    [family |-> family, capabilitiesHash |-> abilities, capabilities |-> all, of |-> of,
     committed |-> FALSE]

-----------------------------------------------------------------------------

(* The revision the next heartbeat gives the family, and its content. *)
NeverAgainFull(previous) == previous.revision = 0

NeedsFull(previous) == previous.revision = 0 \/ ~previous.recent

Changed(previous, values) ==
    {r \in Resources : values[r] # "absent" /\ previous.hashes[r] # values[r]}

Present(values) == {r \in Resources : values[r] # "absent"}

ForgetRemoved(previous, values) == {}

Removed(previous, values) ==
    {r \in Resources : previous.hashes[r] # "absent" /\ values[r] = "absent"}

Unchanged(previous, values) ==
    ~NeedsFull(previous) /\ Changed(previous, values) = {} /\ Removed(previous, values) = {}

deltaFamily(previous, values) ==
    IF Unchanged(previous, values) THEN Omitted
    ELSE [revision |-> previous.revision + 1,
          full     |-> NeedsFull(previous),
          changed  |-> IF NeedsFull(previous) THEN Present(values) ELSE Changed(previous, values),
          removed  |-> Removed(previous, values)]

NextFamily(previous, values) ==
    [previous EXCEPT !.revision = IF Unchanged(previous, values) THEN @ ELSE @ + 1,
                     !.hashes = values,
                     !.recent = @ \/ NeedsFull(previous)]

(* Room for the revision in the model; a calm model keeps three in reserve. *)
HasRoom(family) == family.revision <= IF calm THEN MaxRevision ELSE MaxRevision - 3

(***************************************************************************)
(* Collect from buildCompactHeartbeat on.  next := previous copies the     *)
(* struct but not the Families map, so the family in Agent.telemetry       *)
(* advances here, before the heartbeat is known to be valid, small enough  *)
(* and queued; the capabilities hash advances only with the write.         *)
(***************************************************************************)
BuildUnbounded ==
    LET family == deltaFamily(mem, host)
    IN  /\ pc = "collect"
        /\ HasRoom(family)
        /\ mem' = NextFamily(mem, host)
        /\ queue' = Append(queue, Heartbeat(family, mem.capabilitiesHash # abilities, host))
        /\ digest' = abilities
        /\ pc' = "write"
        /\ UNCHANGED <<host, abilities, disk, server, calm>>

BuildHeartbeat ==
    LET family == deltaFamily(mem, host)
    IN  /\ pc = "collect"
        /\ HasRoom(family)
        /\ mem' = NextFamily(mem, host)
        /\ \/ /\ queue' = LET all == Append(queue, Heartbeat(family,
                                              mem.capabilitiesHash # abilities, host))
                          IN  IF Len(all) > MaxQueued THEN Tail(all) ELSE all
              /\ digest' = abilities
              /\ pc' = "write"
           \/ /\ "local" \in Environment /\ ~calm
              /\ UNCHANGED <<queue, digest, pc>>
        /\ UNCHANGED <<host, abilities, disk, server, calm>>

(* writeTelemetrySyncState after queue.Add.  An error before or after the  *)
(* rename ends Collect, and the Flush of this cycle with it.               *)
WriteState ==
    /\ pc = "write"
    /\ LET next == [mem EXCEPT !.capabilitiesHash = digest]
       IN  \/ mem' = next /\ disk' = next /\ pc' = "flush"
           \/ /\ "write" \in Environment /\ ~calm
              /\ disk' \in {disk, next}
              /\ pc' = "collect"
              /\ UNCHANGED mem
    /\ digest' = "unknown"
    /\ UNCHANGED <<host, abilities, queue, server, calm>>

-----------------------------------------------------------------------------
(***************************************************************************)
(* The application (external).  A full family replaces its copy; a change  *)
(* is applied when its revision follows the one it has, and otherwise the  *)
(* copy is marked stale until a full family arrives.  The response asks    *)
(* for a stale family and for capabilities whose digest it does not know.  *)
(* "truth" is history: the host's state behind the last applied family.    *)
(***************************************************************************)
Applied(copy, family, of) ==
    CASE family.revision = 0 -> copy
      [] family.revision # 0 /\ family.full ->
           [copy EXCEPT !.revision = family.revision, !.stale = FALSE, !.truth = of,
                        !.view = [r \in Resources |->
                                    IF r \in family.changed THEN of[r] ELSE "absent"]]
      [] ~family.full /\ ~copy.stale /\ family.revision = copy.revision + 1 ->
           [copy EXCEPT !.revision = family.revision, !.truth = of,
                        !.view = [r \in Resources |->
                                    IF r \in family.changed THEN of[r]
                                    ELSE IF r \in family.removed THEN "absent"
                                    ELSE copy.view[r]]]
      [] OTHER -> [copy EXCEPT !.stale = TRUE]

Stored(copy, heartbeat) ==
    [Applied(copy, heartbeat.family, heartbeat.of) EXCEPT
        !.capabilities = IF heartbeat.capabilities THEN heartbeat.capabilitiesHash ELSE @]

(***************************************************************************)
(* Flush with the oldest heartbeat.  What the response asks for is put     *)
(* into Agent.telemetry and written before the heartbeat is removed.       *)
(***************************************************************************)
Requested(state, copy, heartbeat) ==
    [state EXCEPT !.recent = IF copy.stale THEN FALSE ELSE @,
                  !.capabilitiesHash =
                     IF copy.capabilities # heartbeat.capabilitiesHash THEN "unknown" ELSE @]

FlushAnswered ==
    LET heartbeat == Head(queue)
        copy == Stored(server, heartbeat)
        asked == copy.stale \/ copy.capabilities # heartbeat.capabilitiesHash
    IN  /\ pc = "flush"
        /\ queue # <<>>
        /\ ~heartbeat.committed
        /\ server' = copy
        /\ mem' = Requested(mem, copy, heartbeat)
        /\ \/ /\ disk' = IF asked THEN mem' ELSE disk
              /\ queue' = Tail(queue)
              /\ pc' = pc
           \/ /\ asked /\ "write" \in Environment /\ ~calm
              /\ disk' \in {disk, mem'}
              /\ queue' = [queue EXCEPT ![1].committed = TRUE]
              /\ pc' = "collect"
        /\ UNCHANGED <<host, abilities, digest, calm>>

(* The heartbeat, or only the response, is lost: it stays queued. *)
FlushLost ==
    /\ pc = "flush"
    /\ queue # <<>>
    /\ "network" \in Environment /\ ~calm
    /\ \/ UNCHANGED <<server, queue>>
       \/ /\ ~Head(queue).committed
          /\ server' = Stored(server, Head(queue))
          /\ queue' = [queue EXCEPT ![1].committed = TRUE]
    /\ pc' = "collect"
    /\ UNCHANGED <<host, abilities, mem, disk, digest, calm>>

(* 409 replayed-agent-request: removed, and no response content is seen. *)
FlushReplayed ==
    /\ pc = "flush"
    /\ queue # <<>>
    /\ Head(queue).committed
    /\ queue' = Tail(queue)
    /\ UNCHANGED <<host, abilities, mem, disk, pc, digest, server, calm>>

FlushDone ==
    /\ pc = "flush"
    /\ queue = <<>>
    /\ pc' = "collect"
    /\ UNCHANGED <<host, abilities, mem, disk, digest, queue, server, calm>>

-----------------------------------------------------------------------------

(* New loads the file; one that does not parse counts as none. *)
Start ==
    /\ pc = "off"
    /\ mem' = disk
    /\ pc' = "collect"
    /\ UNCHANGED <<host, abilities, disk, digest, queue, server, calm>>

(***************************************************************************)
(* The process ends at any point: main returns as soon as the inventory    *)
(* socket or Run does, so that even an ordinary stop can fall between      *)
(* queue.Add and the write.  When the power goes, the file may come back   *)
(* empty: it is renamed without having been synced.                        *)
(***************************************************************************)
Stop ==
    /\ {"stop", "power"} \cap Environment # {} /\ ~calm
    /\ pc # "off"
    /\ \/ UNCHANGED disk
       \/ "power" \in Environment /\ disk' = emptyTelemetrySyncState
    /\ pc' = "off"
    /\ digest' = "unknown"
    /\ UNCHANGED <<host, abilities, mem, queue, server, calm>>

HostChanges ==
    /\ "change" \in Environment /\ ~calm
    /\ pc = "collect"
    /\ \/ \E r \in Resources, v \in Values \cup {"absent"} :
             host' = [host EXCEPT ![r] = v] /\ UNCHANGED abilities
       \/ abilities' \in Capabilities /\ UNCHANGED host
    /\ UNCHANGED <<mem, disk, pc, digest, queue, server, calm>>

SixHoursPass ==
    /\ "time" \in Environment
    /\ HasRoom([revision |-> mem.revision + 1])
    /\ mem' = [mem EXCEPT !.recent = FALSE]
    /\ disk' = [disk EXCEPT !.recent = FALSE]
    /\ UNCHANGED <<host, abilities, pc, digest, queue, server, calm>>

(* From now on nothing changes on the host and nothing fails. *)
Calm ==
    /\ "calm" \in Environment
    /\ ~calm
    /\ calm' = TRUE
    /\ UNCHANGED <<host, abilities, mem, disk, pc, digest, queue, server>>

Init ==
    /\ host \in States
    /\ abilities \in Capabilities
    /\ mem = emptyTelemetrySyncState
    /\ disk = emptyTelemetrySyncState
    /\ pc = "off"
    /\ digest = "unknown"
    /\ queue = <<>>
    /\ server = [revision |-> 0, view |-> Nothing, truth |-> Nothing, stale |-> FALSE,
                 capabilities |-> "unknown"]
    /\ calm = FALSE

AgentStep ==
    \/ Start \/ BuildHeartbeat \/ WriteState
    \/ FlushAnswered \/ FlushReplayed \/ FlushDone

Next == AgentStep \/ FlushLost \/ Stop \/ HostChanges \/ SixHoursPass \/ Calm

Spec == Init /\ [][Next]_vars

(* The agent's loop runs and time passes. *)
FairSpec == Spec /\ WF_vars(AgentStep) /\ WF_vars(SixHoursPass)

-----------------------------------------------------------------------------

Families ==
    [revision : 0 .. MaxRevision, full : BOOLEAN, changed : SUBSET Resources,
     removed : SUBSET Resources]

Heartbeats ==
    [family : Families, capabilitiesHash : Capabilities, capabilities : BOOLEAN, of : States,
     committed : BOOLEAN]

Copies ==
    [revision : 0 .. MaxRevision, view : States, truth : States, stale : BOOLEAN,
     capabilities : Capabilities \cup {"unknown"}]

(* Every variable has the shape of the code's state, and the buffer its    *)
(* limit.                                                                  *)
TypeOK ==
    /\ host \in States
    /\ abilities \in Capabilities
    /\ mem \in SyncStates
    /\ disk \in SyncStates
    /\ pc \in {"off", "collect", "write", "flush"}
    /\ digest \in Capabilities \cup {"unknown"}
    /\ queue \in Seq(Heartbeats)
    /\ Len(queue) <= MaxQueued
    /\ server \in Copies
    /\ calm \in BOOLEAN

(***************************************************************************)
(* The changes the application applied add up: unless it knows its copy to *)
(* be stale, the copy is the state the host had when the last applied      *)
(* heartbeat was built, whatever was evicted, resent, answered in vain or  *)
(* never queued in between (deltaFamily against what Flush and the buffer  *)
(* do to the heartbeats).                                                  *)
(***************************************************************************)
ViewIsWhole == ~server.stale => server.view = server.truth

(***************************************************************************)
(* "atomically persists acknowledged revisions in telemetry-sync.json"     *)
(* (README): when the revision in the file is the one the application has  *)
(* acknowledged, the digests in the file are those of the application's    *)
(* copy, so that the next change is computed against what it has.          *)
(***************************************************************************)
AcknowledgedIsPersisted ==
    disk.revision = server.revision /\ ~server.stale => disk.hashes = server.view

(***************************************************************************)
(* The application's copy is a state of the host, and the file agrees with *)
(* it on the revision that both have.                                      *)
(***************************************************************************)
ViewsAgree == ViewIsWhole /\ AcknowledgedIsPersisted

(***************************************************************************)
(* The inductive invariant behind ViewsAgree, while the process does not   *)
(* stop: a number stands for one state, of the host and of its observers.  *)
(***************************************************************************)

Revision(i) == queue[i].family.revision

(* The family's state after the change that a heartbeat reports. *)
After(view, heartbeat) ==
    [r \in Resources |->
       IF r \in heartbeat.family.changed THEN heartbeat.of[r]
       ELSE IF r \in heartbeat.family.removed THEN "absent" ELSE view[r]]

(* Revisions are given once, in order, and the application is behind what  *)
(* is still queued, but for a head whose answer was lost.                  *)
RevisionsInOrder ==
    /\ server.revision <= mem.revision
    /\ disk.revision <= mem.revision
    /\ \A i \in DOMAIN queue : Revision(i) <= mem.revision
    /\ \A i, j \in DOMAIN queue :
          i < j /\ Revision(i) # 0 /\ Revision(j) # 0 => Revision(i) < Revision(j)
    /\ \A i \in DOMAIN queue : queue[i].committed => i = 1
    /\ \A i \in DOMAIN queue :
          Revision(i) # 0 /\ ~queue[i].committed => server.revision < Revision(i)

(* Whoever has the newest revision has the newest state. *)
NewestAgree ==
    /\ \A i \in DOMAIN queue : Revision(i) # 0 /\ Revision(i) = mem.revision
          => queue[i].of = mem.hashes
    /\ ~server.stale /\ server.revision = mem.revision => server.view = mem.hashes
    /\ disk.revision = mem.revision => disk.hashes = mem.hashes

(* A full family is the whole state, and a change leads from the state of  *)
(* the revision before, queued or applied, to its own.                     *)
ChangesFollow ==
    /\ \A i \in DOMAIN queue : Revision(i) # 0 /\ queue[i].family.full
          => queue[i].family.changed = Present(queue[i].of)
    /\ \A i, j \in DOMAIN queue :
          /\ i < j /\ Revision(i) # 0
          /\ Revision(j) = Revision(i) + 1 /\ ~queue[j].family.full
          => After(queue[i].of, queue[j]) = queue[j].of
    /\ \A j \in DOMAIN queue :
          /\ ~server.stale /\ ~queue[j].committed
          /\ Revision(j) = server.revision + 1 /\ ~queue[j].family.full
          => After(server.view, queue[j]) = queue[j].of

(* The file is the state of the revision it carries. *)
FileAgrees ==
    /\ \A i \in DOMAIN queue : Revision(i) # 0 /\ Revision(i) = disk.revision
          => queue[i].of = disk.hashes
    /\ pc = "off" => mem = disk

TelemetryInv ==
    /\ TypeOK
    /\ RevisionsInOrder
    /\ NewestAgree
    /\ ChangesFollow
    /\ FileAgrees
    /\ ViewsAgree

(***************************************************************************)
(* Six-hour reconciliation heals everything: once the host and its         *)
(* surroundings are quiet, the application ends up with the host's state   *)
(* and capabilities and keeps them, after any evictions, lost responses,   *)
(* failed collections, failed writes, restarts and an emptied state file.  *)
(***************************************************************************)
Converges ==
    calm ~> [](server.view = host /\ server.capabilities = abilities)
=============================================================================
