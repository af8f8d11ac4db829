---------------------------- MODULE HostCollector ----------------------------
(***************************************************************************)
(* What one process collects for a heartbeat on Linux                      *)
(* (collectors/linux/collector.go, gpu_aggregate.go,                       *)
(* collectors/containers/collector.go): GPU readings taken by a goroutine  *)
(* of its own, lists that are read at an interval and repeated in between  *)
(* (collectors/freebsd/collector.go does the same with its services),      *)
(* and containers of a runtime whose API version is negotiated once.  The  *)
(* intervals come from the contract and the monitoring policy (Policy).    *)
(* What is read is known by when it was read.                              *)
(***************************************************************************)
EXTENDS Policy

CONSTANTS
    ContractInterval,  \* seconds between service lists, of each contract
    PolicyInterval,    \* the same, of each policy; 0 for a disabled policy
    StorageInterval,   \* seconds between storage-health lists
    WithContainers,    \* contracts that enable container discovery
    APIVersions,       \* API versions of the container runtime, a range
    MaxReadings,       \* bound on the GPU readings of a process
    MaxTime            \* bound on the clock

ASSUME HostCollectorAssumption ==
    /\ ContractInterval \in [Contracts -> Nat \ {0}]
    /\ PolicyInterval \in [Policies -> Nat]
    /\ StorageInterval \in Nat \ {0}
    /\ WithContainers \subseteq Contracts
    /\ APIVersions # {} /\ APIVersions \subseteq Nat \ {0}
    /\ MaxReadings \in Nat \ {0} /\ MaxTime \in Nat

VARIABLES
    now,        \* the clock, in units of the host interval
    lists,      \* per kind: the last attempt, the list's age, the capability
    taken,      \* GPU readings of this process so far
    sampler,    \* what the sampling goroutine holds
    pending,    \* readings in the aggregation
    lastErr,    \* the last sample failed
    api,        \* apiVersionResolved and apiPrefix
    runtime,    \* the runtime's API version
    heartbeat,  \* the heartbeat being collected, or the last one
    reported,   \* history: readings handed to a heartbeat so far
    upgraded    \* history: the runtime changed since this collection began

collectorVars == <<now, lists, taken, sampler, pending, lastErr, api, runtime, heartbeat, reported, upgraded>>
gpuVars == <<taken, sampler, pending, lastErr, reported>>
containerVars == <<api, runtime, upgraded>>
policyOthers == <<release, contractFile, cached, fetched, contract, configFile, config, published,
                  revision, seen>>
vars == <<pc, release, contractFile, cached, fetched, contract, configFile, config, published, revision,
          seen, now, lists, taken, sampler, pending, lastErr, api, runtime, heartbeat, reported, upgraded>>

-----------------------------------------------------------------------------

Kinds == {"services", "storage"}

Never == -1

Unread == [attempt |-> Never, list |-> Never, state |-> "none"]

Unresolved == [resolved |-> FALSE, prefix |-> None]

NoHeartbeat == [at |-> Never, containers |-> "none"]

(* What the sampling goroutine has between reading and adding. *)
Nothing == 0

Error == -1

(* effectiveContract: an enabled policy overrides the services' interval. *)
Interval(k) ==
    IF k = "storage" THEN StorageInterval
    ELSE IF config # None /\ PolicyInterval[config] > 0 THEN PolicyInterval[config]
    ELSE ContractInterval[contract]

MayFail == "collect" \in Faults

-----------------------------------------------------------------------------

(* A process that ends takes all of this with it. *)
Forgotten ==
    /\ lists' = [k \in Kinds |-> Unread]
    /\ taken' = 0
    /\ sampler' = Nothing
    /\ pending' = {}
    /\ reported' = {}
    /\ lastErr' = FALSE
    /\ api' = Unresolved
    /\ heartbeat' = NoHeartbeat
    /\ upgraded' = FALSE
    /\ UNCHANGED <<now, runtime>>

StartAgent == StartProcess /\ UNCHANGED collectorVars

(* Nothing is collected before Contract returns. *)
FetchContract ==
    /\ FetchFails \/ FetchAnswered \/ NotModified \/ Store
    /\ UNCHANGED collectorVars

(***************************************************************************)
(* GPU readings.  Start takes the first one; then a goroutine reads        *)
(* without the lock and adds under it.                                     *)
(***************************************************************************)
AddAnyway(reading) ==
    /\ lastErr' = (reading = Error)
    /\ pending' = pending \cup {reading}

Aggregate(reading) ==
    /\ lastErr' = (reading = Error)
    /\ pending' = IF reading = Error THEN pending ELSE pending \cup {reading}

Start ==
    /\ pc = "start"
    /\ \/ taken' = taken + 1 /\ Aggregate(taken + 1)
       \/ MayFail /\ UNCHANGED taken /\ Aggregate(Error)
    /\ pc' = "collect"
    /\ UNCHANGED <<policyOthers, now, lists, sampler, containerVars, heartbeat, reported>>

Sampling == Running /\ pc # "start"

SampleRead ==
    /\ Sampling
    /\ sampler = Nothing
    /\ \/ taken < MaxReadings /\ taken' = taken + 1 /\ sampler' = taken + 1
       \/ MayFail /\ sampler' = Error /\ UNCHANGED taken
    /\ UNCHANGED <<pc, policyOthers, now, lists, pending, lastErr, containerVars, heartbeat, reported>>

SampleAdd ==
    /\ Sampling
    /\ sampler # Nothing
    /\ Aggregate(sampler)
    /\ sampler' = Nothing
    /\ UNCHANGED <<pc, policyOthers, now, lists, taken, containerVars, heartbeat, reported>>

-----------------------------------------------------------------------------
(***************************************************************************)
(* One collection, at the start and at every tick.                         *)
(***************************************************************************)
Collect ==
    /\ pc = "collect" \/ (pc = "wait" /\ now > heartbeat.at)
    /\ heartbeat' = [at |-> now, containers |-> "none"]
    /\ upgraded' = FALSE
    /\ pc' = "gpus"
    /\ UNCHANGED <<policyOthers, now, lists, gpuVars, api, runtime>>

Report(readings) == reported' = reported \cup readings

(* collectAggregatedGPUs: drain, or a reading of its own. *)
DrainKeeping ==
    /\ pc = "gpus"
    /\ IF pending # {} THEN pc' = "lists" /\ Report(pending)
       ELSE /\ pc' = IF lastErr THEN "lists" ELSE "direct"
            /\ UNCHANGED reported
    /\ UNCHANGED <<policyOthers, now, lists, taken, sampler, pending, lastErr, containerVars, heartbeat>>

Drain ==
    /\ pc = "gpus"
    /\ IF pending # {}
       THEN /\ Report(pending)
            /\ pending' = {}
            /\ pc' = "lists"
       ELSE /\ pc' = IF lastErr THEN "lists" ELSE "direct"
            /\ UNCHANGED <<pending, reported>>
    /\ UNCHANGED <<policyOthers, now, lists, taken, sampler, lastErr, containerVars, heartbeat>>

DirectReading ==
    /\ pc = "direct"
    /\ \/ taken < MaxReadings /\ taken' = taken + 1 /\ Report({taken + 1})
       \/ MayFail /\ UNCHANGED <<taken, reported>>
    /\ pc' = "lists"
    /\ UNCHANGED <<policyOthers, now, lists, sampler, pending, lastErr, containerVars, heartbeat>>

(* Lists are read again when their interval has passed since the attempt. *)
DueLater(k) ==
    lists[k].attempt = Never \/ heartbeat.at - lists[k].attempt > Interval(k)

Due(k) ==
    lists[k].attempt = Never \/ heartbeat.at - lists[k].attempt >= Interval(k)

(* A failed attempt keeps the old list; no storage device leaves none. *)
Read(list, state) == [attempt |-> heartbeat.at, list |-> list, state |-> state]

Attempts(k) ==
    {Read(heartbeat.at, "available")}
    \cup (IF MayFail THEN {Read(lists[k].list, "unavailable")} ELSE {})
    \cup (IF k = "storage" THEN {Read(Never, "unavailable")} ELSE {})

List(k) == IF Due(k) THEN Attempts(k) ELSE {lists[k]}

CollectLists ==
    /\ pc = "lists"
    /\ \E s \in List("services"), d \in List("storage") :
          lists' = [k \in Kinds |-> IF k = "services" THEN s ELSE d]
    /\ pc' = "containers"
    /\ UNCHANGED <<policyOthers, now, gpuVars, containerVars, heartbeat>>

-----------------------------------------------------------------------------
(***************************************************************************)
(* Containers: the API version is asked for once; a request that is        *)
(* refused for its version is repeated once with a version asked anew.     *)
(***************************************************************************)
ReportContainers(state) ==
    /\ heartbeat' = [heartbeat EXCEPT !.containers = state]
    /\ pc' = "collected"

CollectContainers ==
    /\ pc = "containers"
    /\ IF contract \in WithContainers
       THEN pc' = "resolve" /\ UNCHANGED heartbeat
       ELSE ReportContainers("disabled")
    /\ UNCHANGED <<policyOthers, now, lists, gpuVars, containerVars>>

Asked(version) == [resolved |-> TRUE, prefix |-> version]

(* A /version request that fails leaves requests without a version. *)
Negotiated == {Asked(runtime)} \cup (IF "request" \in Faults THEN {Asked(None)} ELSE {})

Resolved == IF api.resolved THEN {api} ELSE Negotiated

ResolveAPIPrefix ==
    /\ \/ pc = "resolve" /\ pc' = "list"
       \/ pc = "resolve again" /\ pc' = "list again"
    /\ api' \in Resolved
    /\ UNCHANGED <<policyOthers, now, lists, gpuVars, runtime, heartbeat, upgraded>>

Mismatch == api.prefix \notin {None, runtime}

(* A runtime may or may not accept the versions before its own. *)
Accepted == api.prefix \in {None} \cup 1 .. runtime

ListContainers ==
    /\ pc \in {"list", "list again"}
    /\ \/ Accepted /\ ReportContainers("available")
       \/ "request" \in Faults /\ ReportContainers("unavailable")
       \/ pc = "list again" /\ Mismatch /\ ReportContainers("mismatch")
    /\ UNCHANGED <<policyOthers, now, lists, gpuVars, containerVars>>

RepeatOnce ==
    /\ pc = "list"
    /\ Mismatch
    /\ pc' = "resolve again"
    /\ UNCHANGED <<policyOthers, now, lists, gpuVars, containerVars, heartbeat>>

ForgetPrefix ==
    /\ pc = "list"
    /\ Mismatch
    /\ api' = Unresolved
    /\ pc' = "resolve again"
    /\ UNCHANGED <<policyOthers, now, lists, gpuVars, runtime, upgraded, heartbeat>>

(* What the last heartbeat said of the containers is not kept. *)
Sent == heartbeat' = [heartbeat EXCEPT !.containers = "none"] /\ upgraded' = FALSE

(* The statistics of the containers, asked for in the same way: a mismatch *)
(* negotiates anew.  Collect may still fail; then there is no Flush, and   *)
(* the readings drained for its heartbeat go with it.                      *)
Collected ==
    /\ pc = "collected"
    /\ \/ UNCHANGED api
       \/ heartbeat.containers = "available" /\ Mismatch /\ api' \in Negotiated
    /\ \/ pc' = "flush" /\ UNCHANGED <<heartbeat, upgraded>>
       \/ MayFail /\ pc' = "wait" /\ Sent
    /\ UNCHANGED <<policyOthers, now, lists, gpuVars, runtime>>

-----------------------------------------------------------------------------

FlushAnswered == Answered /\ Sent /\ UNCHANGED <<now, lists, gpuVars, api, runtime>>

StopAgent == Stop /\ Forgotten

ApplicationChanges == (Publish \/ Revise) /\ UNCHANGED collectorVars

Tick ==
    /\ now < MaxTime
    /\ now' = now + 1
    /\ UNCHANGED <<pc, policyOthers, lists, gpuVars, containerVars, heartbeat>>

Collecting ==
    {"gpus", "direct", "lists", "containers", "resolve", "list", "resolve again", "list again",
     "collected", "flush"}

(* The container runtime is replaced by a newer one. *)
Upgrade ==
    /\ \E v \in APIVersions : v > runtime /\ runtime' = v
    /\ upgraded' = (pc \in Collecting)
    /\ UNCHANGED <<pc, policyOthers, now, lists, gpuVars, api, heartbeat>>

Init ==
    /\ PolicyInit
    /\ now = 0
    /\ lists = [k \in Kinds |-> Unread]
    /\ taken = 0
    /\ sampler = Nothing
    /\ pending = {}
    /\ reported = {}
    /\ lastErr = FALSE
    /\ api = Unresolved
    /\ runtime \in APIVersions
    /\ heartbeat = NoHeartbeat
    /\ upgraded = FALSE

Next ==
    \/ StartAgent \/ FetchContract \/ Start
    \/ SampleRead \/ SampleAdd
    \/ Collect \/ Drain \/ DirectReading \/ CollectLists
    \/ CollectContainers \/ ResolveAPIPrefix \/ ListContainers \/ ForgetPrefix \/ Collected
    \/ FlushAnswered \/ StopAgent
    \/ ApplicationChanges \/ Tick \/ Upgrade

Spec == Init /\ [][Next]_vars

-----------------------------------------------------------------------------

Times == 0 .. MaxTime

Lists == [attempt : Times \cup {Never}, list : Times \cup {Never}, state : {"none", "available", "unavailable"}]

CollectorTypeOK ==
    /\ now \in Times
    /\ lists \in [Kinds -> Lists]
    /\ taken \in 0 .. MaxReadings
    /\ sampler \in {Nothing, Error} \cup 1 .. MaxReadings
    /\ pending \subseteq 1 .. MaxReadings /\ reported \subseteq 1 .. MaxReadings
    /\ {lastErr, upgraded} \subseteq BOOLEAN
    /\ api \in [resolved : BOOLEAN, prefix : APIVersions \cup {None}]
    /\ runtime \in APIVersions
    /\ heartbeat \in [at : Times \cup {Never},
                      containers : {"none", "disabled", "available", "unavailable", "mismatch"}]

(* Every variable has the shape of the code's state. *)
TypeOK == PolicyTypeOK /\ CollectorTypeOK

(***************************************************************************)
(* The goroutine that samples and the one that drains share the readings   *)
(* without losing one or averaging one twice: each reading of a process    *)
(* is held, waits in the aggregation, or was handed to one heartbeat.      *)
(* What becomes of that heartbeat is another matter: when the rest of its  *)
(* Collect fails, its readings are not taken back.                         *)
(***************************************************************************)
ReadingsReportedOnce ==
    LET held == {sampler} \ {Nothing, Error}
    IN  /\ held \cup pending \cup reported = 1 .. taken
        /\ held \cap (pending \cup reported) = {}
        /\ pending \cap reported = {}

Complete == Collecting \ {"gpus", "direct", "lists"}

(***************************************************************************)
(* A heartbeat whose capability says that services or storage are          *)
(* available carries a list younger than the interval in effect, also      *)
(* right after a policy has shortened it ("Selected services use a         *)
(* one-minute collection interval").                                       *)
(***************************************************************************)
ListsAreCurrent ==
    pc \in Complete =>
        \A k \in Kinds : lists[k].state = "available" =>
            /\ lists[k].list # Never
            /\ heartbeat.at - lists[k].list < Interval(k)

(***************************************************************************)
(* The cached API version is never the reason that containers are missing: *)
(* a mismatch is reported only when the runtime changed during this very   *)
(* collection.                                                             *)
(***************************************************************************)
MismatchMeansChanged ==
    pc \in Complete /\ heartbeat.containers = "mismatch" => upgraded
==============================================================================
