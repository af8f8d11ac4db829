------------------------------ MODULE Sampling ------------------------------
(***************************************************************************)
(* One round of the agent after the other (runtime/agent.go, Run): the     *)
(* platform's collector builds a heartbeat out of what the host shows, the *)
(* agent validates and queues it, and only then delivers what is queued.   *)
(*                                                                         *)
(* A host is given by sizes: how many filesystems, sensors, ports of one   *)
(* container and so on it has; a heartbeat by how many it carries.         *)
(***************************************************************************)
EXTENDS CounterRates

CONSTANTS
    Inventories,    \* what a host may have
    MaxQueue        \* bound: queued heartbeats told apart

Families == {"batteries", "containers", "cores", "filesystems", "gpus", "ports", "sensors",
             "services", "storage"}

(* Those a compact heartbeat carries, as changes and removed keys. *)
Deltas == Families \ {"batteries", "cores", "ports"}

(* large: the heartbeat would be larger than the contract allows. *)
ASSUME SamplingAssumption ==
    /\ \A inventory \in Inventories :
          /\ \A f \in Families : inventory[f] \in Nat
          /\ inventory.large \in BOOLEAN
    /\ MaxQueue \in Nat \ {0}

VARIABLES
    platform,   \* "linux" or "freebsd"
    phase,      \* where the round is
    outcome,    \* how Collect has ended in this round
    oversized,  \* history: the host was Oversized then
    queue,      \* heartbeats that wait for delivery
    crowded,    \* families of which a.telemetry holds more than 512 keys
    crowdedFile \* the same of the file it is loaded from

telemetry == <<crowded, crowdedFile>>
agent == <<platform, phase, outcome, oversized, queue, crowded, crowdedFile>>
vars == <<clock, running, shown, counter, used, previousCPU, previousAt, output,
          now, currentIDs, asking, previous, usedBefore, report, base, platform, phase, outcome,
          oversized, queue, crowded, crowdedFile>>

Lesser(a, b) == IF a < b THEN a ELSE b

-----------------------------------------------------------------------------
(***************************************************************************)
(* The collectors: what they cut, per platform.  A list of more than 512   *)
(* services is an error and leaves the cached one.                         *)
(***************************************************************************)
CachedServices == {0} \cup {n \in {i.services : i \in Inventories} : n <= 512}

(* Linux: each reader stops at a number of its own; processors and the     *)
(* ports of a container are taken as they come.                            *)
parseCPUCounters(inventory) == inventory.cores
collectFilesystems(inventory) == Lesser(inventory.filesystems, 256)
collectSensors(inventory) == Lesser(inventory.sensors, 256)
collectBatteries(inventory) == Lesser(inventory.batteries, 16)
collectGPUs(inventory) == Lesser(inventory.gpus, 16)
collectStorageHealth(inventory) == Lesser(inventory.storage, 64)
structuredPorts(inventory) == inventory.ports

LinuxHeartbeat(inventory, services) ==
    [batteries   |-> collectBatteries(inventory),
     containers  |-> Lesser(inventory.containers, 128),
     cores       |-> parseCPUCounters(inventory),
     filesystems |-> collectFilesystems(inventory),
     gpus        |-> collectGPUs(inventory),
     ports       |-> structuredPorts(inventory),
     sensors     |-> collectSensors(inventory),
     services    |-> Lesser(services, 512),
     storage     |-> collectStorageHealth(inventory)]

(* FreeBSD: processors and what df shows are taken as they come, the       *)
(* sensors are those of 128 processors and 8 thermal zones, and there is   *)
(* one battery.                                                            *)
parsePerCPU(inventory) == inventory.cores
mountedByDF(inventory) == inventory.filesystems
sensorSysctlKeys(inventory) == Lesser(inventory.sensors, 136)
collectBattery(inventory) == Lesser(inventory.batteries, 1)

FreeBSDHeartbeat(inventory, services) ==
    [batteries |-> collectBattery(inventory), containers |-> 0, cores |-> parsePerCPU(inventory),
     filesystems |-> mountedByDF(inventory), gpus |-> 0, ports |-> 0,
     sensors |-> sensorSysctlKeys(inventory), services |-> services, storage |-> 0]

Collected(inventory, services) ==
    IF platform = "linux"
    THEN LinuxHeartbeat(inventory, services) ELSE FreeBSDHeartbeat(inventory, services)

(***************************************************************************)
(* ValidateHeartbeat.  Of the compact heartbeat's families the numbers of  *)
(* changes and of removed keys are looked at; it has no batteries and no   *)
(* processors.  No array of the metrics is longer than 1024, a bound that  *)
(* only the processors can reach.  A number that is not finite fails       *)
(* there, or when the heartbeat is encoded.                                *)
(***************************************************************************)
Limit == [batteries |-> 16, containers |-> 256, cores |-> 1024, filesystems |-> 64, gpus |-> 16,
          ports |-> 128, sensors |-> 256, services |-> 512, storage |-> 64]

(* removed: the families with more than 512 removed keys. *)
ValidateHeartbeat(sizes, removed, compact) ==
    /\ IF compact
       THEN removed = {} /\ \A f \in Deltas : sizes[f] <= 512
       ELSE \A f \in Families : sizes[f] <= Limit[f]
    /\ \A rate \in report : rate.elapsed > 0

(* A compact heartbeat carries what has changed, at most everything. *)
Carried(sizes, compact) ==
    IF compact THEN {sizes, [f \in Families |-> 0]} ELSE {sizes}

(* Only keys that were known can be removed. *)
Removed(compact) == IF compact THEN SUBSET crowded ELSE {{}}

Crowded(sizes, compact) == IF compact THEN {f \in Deltas : sizes[f] > 512} ELSE crowded

-----------------------------------------------------------------------------
(* The services are read when they are due, with their use on Linux only. *)
BeginRound ==
    /\ phase = "idle"
    /\ \/ platform = "linux" /\ ListUnits /\ phase' = "services"
       \/ /\ UNCHANGED <<systemd, runtime, present, report, base>>
          /\ phase' = IF platform = "linux" THEN "containers" ELSE "build"
    /\ UNCHANGED <<host, platform, outcome, oversized, queue, telemetry>>

ShowService ==
    /\ phase = "services"
    /\ \E s \in Services : Show(s)
    /\ UNCHANGED <<host, agent>>

EndServices ==
    /\ phase = "services"
    /\ ServicesRead \/ ServicesFail
    /\ phase' = "containers"
    /\ UNCHANGED <<host, platform, outcome, oversized, queue, telemetry>>

(* No containers when they are disabled or the list fails. *)
CollectContainers ==
    /\ phase = "containers"
    /\ \/ ListContainers /\ phase' = "asking"
       \/ UNCHANGED <<systemd, runtime, present, report, base>> /\ phase' = "build"
    /\ UNCHANGED <<host, platform, outcome, oversized, queue, telemetry>>

AskContainer ==
    /\ phase = "asking"
    /\ \E c \in Containers : Ask(c)
    /\ UNCHANGED <<host, agent>>

EndContainers ==
    /\ phase = "asking"
    /\ Prune
    /\ phase' = "build"
    /\ UNCHANGED <<host, platform, outcome, oversized, queue, telemetry>>

(* What does not fit: a heartbeat that is too large as a whole; when it is *)
(* not compact, more than 64 filesystems or more than 128 ports of a       *)
(* container or 1024 processors; when it is, more than 512 filesystems on  *)
(* FreeBSD, now or when the last compact heartbeat was built.              *)
Oversized(inventory, compact) ==
    \/ inventory.large
    \/ ~compact /\ (inventory.filesystems > 64 \/ inventory.cores > 1024)
    \/ ~compact /\ platform = "linux" /\ inventory.ports > 128
    \/ compact /\ platform = "freebsd"
               /\ (inventory.filesystems > 512 \/ "filesystems" \in crowded)

(* Collect ends: an error leaves the round before anything is delivered.   *)
(* The heartbeat is compact when the contract's present bundle has that.   *)
(* What a.telemetry holds of the families has changed even when the        *)
(* heartbeat is refused, because the map is shared.                        *)
Added(compact) ==
    /\ outcome' = "queued" /\ queue' = Lesser(queue + 1, MaxQueue)
    /\ crowdedFile' = IF compact THEN crowded' ELSE crowdedFile

(* The queue, or the file afterwards, cannot be written. *)
AddFails(compact) ==
    /\ outcome' = "failed" /\ queue' \in {queue, Lesser(queue + 1, MaxQueue)}
    /\ crowdedFile' \in {crowdedFile} \cup (IF compact THEN {crowded'} ELSE {})

Build ==
    /\ phase = "build"
    /\ \E inventory \in Inventories, services \in CachedServices, compact \in BOOLEAN :
       LET all == Collected(inventory, services) IN
       \E sizes \in Carried(all, compact), removed \in Removed(compact) :
          /\ oversized' = Oversized(inventory, compact)
          /\ crowded' = Crowded(all, compact)
          /\ IF ValidateHeartbeat(sizes, removed, compact) /\ ~inventory.large
             THEN Added(compact) \/ AddFails(compact)
             ELSE outcome' = "refused" /\ UNCHANGED <<queue, crowdedFile>>
    /\ phase' = "built"
    /\ report' = {}
    /\ UNCHANGED <<host, systemd, runtime, present, base, platform>>

(* The collector fails or no number can be reserved. *)
CollectFails ==
    /\ phase = "build"
    /\ outcome' = "failed" /\ oversized' = FALSE
    /\ phase' = "built"
    /\ report' = {}
    /\ UNCHANGED <<host, systemd, runtime, present, base, platform, queue, telemetry>>

EndRound ==
    /\ phase = "built" /\ phase' = "idle"
    /\ outcome' = "none" /\ oversized' = FALSE
    /\ UNCHANGED <<host, systemd, runtime, present, report, base, platform, telemetry>>

FlushKeeping == outcome = "queued" /\ EndRound /\ UNCHANGED queue

(* Everything is delivered. *)
Flush == outcome = "queued" /\ EndRound /\ queue' = 0

(* The application cannot be reached, or Collect has failed. *)
Continue == EndRound /\ UNCHANGED queue

(* The process is started again: the queue and the telemetry's file are left. *)
Restart ==
    /\ previousCPU' = <<>> /\ previousAt' = 0 /\ output' = <<>>
    /\ now' = 0 /\ currentIDs' = {} /\ asking' = {} /\ previous' = <<>>
    /\ usedBefore' = None /\ base' = None
    /\ report' = {}
    /\ phase' = "idle" /\ outcome' = "none" /\ oversized' = FALSE
    /\ crowded' = crowdedFile
    /\ UNCHANGED <<host, platform, queue, crowdedFile>>

Init ==
    /\ clock = 0 /\ running = {} /\ shown = {}
    /\ counter = None /\ used = None
    /\ previousCPU = <<>> /\ previousAt = 0 /\ output = <<>>
    /\ now = 0 /\ currentIDs = {} /\ asking = {} /\ previous = <<>>
    /\ usedBefore = None /\ base = None
    /\ report = {}
    /\ platform \in {"linux", "freebsd"}
    /\ phase = "idle" /\ outcome = "none" /\ oversized = FALSE
    /\ queue = 0
    /\ crowded = {} /\ crowdedFile = {}

(* The host changes while something that is read of it can be affected:    *)
(* between rounds, and while services or containers are read.              *)
Observed == platform = "linux" /\ phase \in {"idle", "services", "asking"}

Round ==
    \/ BeginRound \/ ShowService \/ EndServices \/ CollectContainers \/ AskContainer \/ EndContainers
    \/ Build \/ CollectFails \/ Flush \/ Continue

Next ==
    \/ Observed /\ Host /\ UNCHANGED agent
    \/ Round \/ Restart

Spec == Init /\ [][Next]_vars

(* The ticker goes on, and the application does not fail every time. *)
FairSpec == Spec /\ WF_vars(Round) /\ SF_vars(Flush)

-----------------------------------------------------------------------------

(* Every variable has the shape of the code's state.                       *)
TypeOK ==
    /\ clock \in 0 .. MaxClock
    /\ running \subseteq Meters /\ shown \subseteq Services
    /\ {counter, used, usedBefore, base} \subseteq [Meters -> Nat]
    /\ DOMAIN previousCPU \subseteq Services
    /\ \A s \in DOMAIN previousCPU : previousCPU[s] \in Nat
    /\ {previousAt, now} \subseteq 0 .. MaxClock
    /\ asking \subseteq (IF phase = "services" THEN Services ELSE currentIDs)
    /\ currentIDs \subseteq Containers
    /\ phase # "asking" => currentIDs = {}
    /\ DOMAIN output \subseteq Services
    /\ \A s \in DOMAIN output : output[s] \in Nat
    /\ DOMAIN previous \subseteq Containers
    /\ \A c \in DOMAIN previous : previous[c] \in [value : Nat, at : 0 .. MaxClock]
    /\ platform \in {"linux", "freebsd"}
    /\ phase \in {"idle", "services", "containers", "asking", "build", "built"}
    /\ outcome \in {"none", "queued", "refused", "failed"}
    /\ outcome # "none" <=> phase = "built"
    /\ oversized \in BOOLEAN
    /\ queue \in 0 .. MaxQueue
    /\ crowded \subseteq Deltas /\ crowdedFile \subseteq Deltas

(***************************************************************************)
(* A rate is never more than what was used: what it divides by the elapsed *)
(* time was used after the collection began from which that time counts,   *)
(* also when collections or requests failed, a meter was started again or  *)
(* was missing for a while, and what is read ran on while it was read.     *)
(***************************************************************************)
RatesAreCovered == \A rate \in report : rate.amount \in 0 .. rate.covered

(***************************************************************************)
(* What the collectors cut and leave out is enough for the agent's own     *)
(* validation: it refuses only the heartbeat of a host that is Oversized.  *)
(***************************************************************************)
CollectedIsValid == outcome = "refused" => oversized

(***************************************************************************)
(* Although a round that could not add a heartbeat delivers none of those  *)
(* that wait (agent.go:446), the queue is emptied again and again on a     *)
(* host that fits, while the collector works and the agent stays up.       *)
(***************************************************************************)
Fits == ~oversized /\ outcome # "failed"

QueueDrains == <>[][Fits' /\ ~Restart]_vars => []<>(queue = 0)
=============================================================================
