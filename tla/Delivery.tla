------------------------------ MODULE Delivery ------------------------------
(***************************************************************************)
(* Heartbeat delivery: the agent's main loop (src/internal/runtime/        *)
(* agent.go: Run, Contract, Collect, Flush), the hardware-snapshot handler *)
(* that runs beside it (SubmitHardwareSnapshot), the identity and the      *)
(* buffer they share, the HTTP client, and the application they talk to.   *)
(*                                                                         *)
(* The main goroutine is a program counter.  A step ends wherever another  *)
(* actor can interfere: at a network call, at a file replacement the       *)
(* process may die after, and between reserving a number and using it.     *)
(* What responses carry besides the acknowledgement (monitoring policy,    *)
(* telemetry reconciliation) appears here only as a step that may fail.    *)
(***************************************************************************)
EXTENDS Integers, Sequences, FiniteSets

CONSTANTS
    MaxSequence,    \* last sequence number, ^uint64(0) in the code
    DefaultLimits,  \* limits the buffer is opened with
    ContractLimits, \* limits a fetched or cached contract may carry
    Environment,    \* what may happen: a subset of Events
    SharedWindow    \* the application keeps one replay window per device
                    \* (TRUE), or one per device and endpoint (FALSE)

Events == {"crash", "disk", "local", "network", "server", "revoke", "snapshot"}

Limits == [samples : Nat \ {0}, bytes : Nat \ {0}]

ASSUME DeliveryAssumption ==
    /\ MaxSequence \in Nat
    /\ DefaultLimits \in Limits
    /\ ContractLimits \subseteq Limits
    /\ Environment \subseteq Events
    /\ SharedWindow \in BOOLEAN

VARIABLES
    running, mem, disk, issued,                                   \* Identity
    files, dropped, limits, phase, evicted, lost, credited,       \* Queue
    pc,         \* where the main goroutine is
    cur,        \* the number Collect reserved, 0 outside Collect
    entries,    \* what Flush still has to send of the entries it read
    dormant,    \* the dormant-state file exists
    disturbed,  \* history: something went wrong since Flush last started
    submitting, \* SubmitHardwareSnapshot passed its dormant check
    request,    \* per endpoint, the request its sender is waiting for
    late,       \* requests whose sender gave up and that may still arrive
    committed,  \* heartbeats the application has stored
    high,       \* per endpoint, the highest number the application accepted
    known,      \* history: evictions the application has been told about
    revoked     \* the registration was unlinked in the application

identityVars == <<running, mem, disk, issued>>
queueVars == <<files, dropped, limits, phase, evicted, lost, credited>>
agentVars == <<pc, cur, entries, dormant, disturbed>>
serverVars == <<committed, high, known, revoked>>
networkVars == <<request, late>>

(***************************************************************************)
(* A heartbeat as far as delivery can tell heartbeats apart: its size, its *)
(* droppedSamples field and, as history, the number of evictions that had  *)
(* happened when it was collected.                                         *)
(***************************************************************************)
Heartbeats == [size : {1}, dropped : Nat, covers : Nat]

NoBody == [size |-> 1, dropped |-> 0, covers |-> 0]

Endpoints == {"heartbeat", "snapshot"}

NoRequest == [sequence |-> 0, body |-> NoBody, status |-> "none"]

PersistOutcomes == IF "disk" \in Environment THEN {"ok", "failed", "unsure"} ELSE {"ok"}

I == INSTANCE Identity WITH Keys <- {"key"}, Devices <- {1}

Q == INSTANCE Queue WITH SequenceIds <- 1 .. MaxSequence, Bodies <- Heartbeats,
                         IOErrors <- "disk" \in Environment

vars == <<running, mem, disk, issued, files, dropped, limits, phase, evicted, lost, credited,
          pc, cur, entries, dormant, disturbed, submitting, request, late,
          committed, high, known, revoked>>

Queued == DOMAIN files

-----------------------------------------------------------------------------
(***************************************************************************)
(* The process.                                                            *)
(***************************************************************************)

(* main loads the identity and opens the buffer; Run starts with the       *)
(* dormant check.                                                          *)
Start ==
    /\ pc = "off"
    /\ I!LoadOrCreate
    /\ Q!Open
    /\ pc' = IF dormant THEN "dormant" ELSE "boot"
    /\ UNCHANGED <<cur, entries, dormant, disturbed, submitting, networkVars, serverVars>>

(* The snapshot goroutine is about to reserve its number. *)
Submitting == submitting /\ request["snapshot"].status = "none"

(* The process ends: killed at any point, stopped while dormant, or by Run *)
(* returning an error.  A request that is out may still arrive.            *)
Stop ==
    /\ "crash" \in Environment \/ pc \in {"exit", "dormant"}
    /\ \/ I!IdentityCrash
       \/ (pc = "tick" \/ Submitting) /\ I!CrashInReserve
    /\ Q!Crash
    /\ pc' = "off"
    /\ cur' = 0
    /\ entries' = {}
    /\ disturbed' = TRUE
    /\ submitting' = FALSE
    /\ request' = [e \in Endpoints |-> NoRequest]
    /\ late' = late \cup {[endpoint |-> e, sequence |-> request[e].sequence,
                           covers |-> request[e].body.covers] :
                             e \in {x \in Endpoints : request[x].status = "sent"}}
    /\ UNCHANGED <<dormant, serverVars>>

(* Contract yields a contract, fetched or cached, and applies its limits;  *)
(* without one Run returns and the process ends.                           *)
ContractWithoutLimits ==
    /\ pc = "boot"
    /\ pc' = "tick"
    /\ UNCHANGED <<identityVars, queueVars, cur, entries, dormant, disturbed, submitting,
                   networkVars, serverVars>>

Contract ==
    /\ pc = "boot"
    /\ \E l \in ContractLimits : Q!SetLimits(l)
    /\ pc' = "limits"
    /\ UNCHANGED <<identityVars, cur, entries, dormant, disturbed, submitting,
                   networkVars, serverVars>>

ContractFails ==
    /\ pc = "boot"
    /\ {"network", "server", "disk"} \cap Environment # {}
    /\ pc' = "exit"
    /\ UNCHANGED <<identityVars, queueVars, cur, entries, dormant, disturbed, submitting,
                   networkVars, serverVars>>

(***************************************************************************)
(* enforceLimitsLocked, called by SetLimits (pc = "limits") or Add ("add").*)
(* An error ends Run in the first case and this Collect in the second.     *)
(* After Add, Collect still writes the telemetry state: an error there     *)
(* skips the Flush although the heartbeat is queued.                       *)
(***************************************************************************)
Evict ==
    /\ pc \in {"limits", "add"}
    /\ Q!EvictOldest
    /\ UNCHANGED <<identityVars, agentVars, submitting, networkVars, serverVars>>

EnforceFails ==
    /\ pc \in {"limits", "add"}
    /\ Q!EnforceFails
    /\ pc' = IF pc = "limits" THEN "exit" ELSE "tick"
    /\ UNCHANGED <<identityVars, cur, entries, dormant, disturbed, submitting,
                   networkVars, serverVars>>

LimitsApplied ==
    /\ pc = "limits"
    /\ Q!CountDropped
    /\ pc' = "tick"
    /\ UNCHANGED <<identityVars, cur, entries, dormant, disturbed, submitting,
                   networkVars, serverVars>>

Added ==
    /\ pc = "add"
    /\ Q!CountDropped
    /\ \/ pc' = "flush"
       \/ "local" \in Environment /\ pc' = "tick"
    /\ UNCHANGED <<identityVars, cur, entries, dormant, disturbed, submitting,
                   networkVars, serverVars>>

-----------------------------------------------------------------------------
(***************************************************************************)
(* Collect.  A collector that fails changes nothing and is not a step.     *)
(***************************************************************************)

Collect ==
    /\ pc = "tick"
    /\ \E outcome \in PersistOutcomes :
          /\ I!ReserveSequence(outcome)
          /\ IF outcome = "ok" THEN pc' = "build" /\ cur' = mem'.sequence
                               ELSE UNCHANGED <<pc, cur>>
    /\ UNCHANGED <<queueVars, entries, dormant, disturbed, submitting, networkVars, serverVars>>

(* "identity sequence is exhausted": every later Collect fails. *)
CollectExhausted ==
    /\ pc = "tick"
    /\ ~I!CanReserve
    /\ UNCHANGED vars

(* The heartbeat carries the drops counted so far and is added to the      *)
(* buffer, unless validation or a size limit rejects it: then its number   *)
(* stays unused.                                                           *)
Build ==
    /\ pc = "build"
    /\ LET body == [size |-> 1, dropped |-> dropped, covers |-> Cardinality(lost)]
       IN  \/ Q!Add(cur, body) /\ pc' = "add"
           \/ Q!AddRefused(cur, body) /\ pc' = "tick"
           \/ Q!AddUnread(cur, body) /\ pc' = "tick"
           \/ "local" \in Environment /\ pc' = "tick" /\ UNCHANGED queueVars
    /\ cur' = 0
    /\ UNCHANGED <<identityVars, entries, dormant, disturbed, submitting,
                   networkVars, serverVars>>

-----------------------------------------------------------------------------
(***************************************************************************)
(* Flush.                                                                  *)
(***************************************************************************)

(* Entries reads the whole buffer once; Flush ends when it cannot. *)
Flush ==
    /\ pc = "flush"
    /\ \/ entries' = Queued /\ pc' = "send" /\ disturbed' = FALSE
       \/ /\ "disk" \in Environment
          /\ pc' = "tick" /\ disturbed' = TRUE
          /\ UNCHANGED entries
    /\ UNCHANGED <<identityVars, queueVars, cur, dormant, submitting,
                   networkVars, serverVars>>

SendAny ==
    /\ pc = "send"
    /\ \E s \in entries :
          /\ request' = [request EXCEPT !["heartbeat"] =
                           [sequence |-> s, body |-> files[s], status |-> "sent"]]
          /\ entries' = entries \ {s}
    /\ pc' = "await"
    /\ UNCHANGED <<identityVars, queueVars, cur, dormant, disturbed, submitting, late,
                   serverVars>>

(* The loop body up to SendHeartbeat: entries go out oldest first. *)
Send ==
    /\ pc = "send"
    /\ \E s \in entries :
          /\ Q!IsOldest(s, entries)
          /\ request' = [request EXCEPT !["heartbeat"] =
                           [sequence |-> s, body |-> files[s], status |-> "sent"]]
          /\ entries' = entries \ {s}
    /\ pc' = "await"
    /\ UNCHANGED <<identityVars, queueVars, cur, dormant, disturbed, submitting, late,
                   serverVars>>

FlushDone ==
    /\ pc = "send"
    /\ entries = {}
    /\ pc' = "tick"
    /\ UNCHANGED <<identityVars, queueVars, cur, entries, dormant, disturbed, submitting,
                   networkVars, serverVars>>

(* Flush returns an error: the rest of the entries waits for a later tick. *)
FlushReturns(troubled) ==
    /\ pc' = "tick"
    /\ entries' = {}
    /\ request' = [request EXCEPT !["heartbeat"] = NoRequest]
    /\ disturbed' = troubled

(***************************************************************************)
(* SendHeartbeat returns.  An acknowledgement, or the 409 that says the    *)
(* application already has this number, leads on to Remove, unless the     *)
(* policy or the reconciliation in the response cannot be persisted.       *)
(***************************************************************************)
StrictAcknowledged ==
    /\ pc = "await"
    /\ \/ /\ request["heartbeat"].status = "ok"
          /\ pc' = "remove"
          /\ UNCHANGED <<entries, request, disturbed>>
       \/ /\ request["heartbeat"].status = "replayed"
          /\ FlushReturns(disturbed)
    /\ UNCHANGED <<identityVars, queueVars, cur, dormant, submitting, late, serverVars>>

Acknowledged ==
    /\ pc = "await"
    /\ \/ /\ request["heartbeat"].status \in {"ok", "replayed"}
          /\ pc' = "remove"
          /\ UNCHANGED <<entries, request, disturbed>>
       \/ /\ request["heartbeat"].status = "ok"
          /\ "local" \in Environment
          /\ FlushReturns(TRUE)
    /\ UNCHANGED <<identityVars, queueVars, cur, dormant, submitting, late, serverVars>>

GoneMeansRevoked ==
    /\ pc = "await"
    /\ request["heartbeat"].status \in {"revoked", "failed"}
    /\ pc' = "dormant"
    /\ dormant' = TRUE
    /\ entries' = {}
    /\ request' = [request EXCEPT !["heartbeat"] = NoRequest]
    /\ disturbed' = TRUE
    /\ UNCHANGED <<identityVars, queueVars, cur, submitting, late, serverVars>>

(* 410 agent-registration-revoked: record the dormant state and stop; when *)
(* that cannot be recorded the answer is an ordinary error.                *)
Revoked ==
    /\ pc = "await"
    /\ request["heartbeat"].status = "revoked"
    /\ \/ /\ pc' = "dormant"
          /\ dormant' = TRUE
          /\ entries' = {}
          /\ request' = [request EXCEPT !["heartbeat"] = NoRequest]
          /\ disturbed' = TRUE
       \/ /\ "disk" \in Environment
          /\ FlushReturns(TRUE)
          /\ UNCHANGED dormant
    /\ UNCHANGED <<identityVars, queueVars, cur, submitting, late, serverVars>>

(* Any other error response. *)
Failed ==
    /\ pc = "await"
    /\ request["heartbeat"].status = "failed"
    /\ FlushReturns(TRUE)
    /\ UNCHANGED <<identityVars, queueVars, cur, dormant, submitting, late, serverVars>>

Abandoned(e) ==
    IF request[e].status = "sent"
    THEN late \cup {[endpoint |-> e, sequence |-> request[e].sequence,
                     covers |-> request[e].body.covers]}
    ELSE late

(* The call ends without an answer (no connection, the 20 s client         *)
(* timeout, an unreadable response), whatever the application did with the *)
(* request or is still going to do.                                        *)
Timeout ==
    /\ pc = "await"
    /\ "network" \in Environment
    /\ late' = Abandoned("heartbeat")
    /\ FlushReturns(TRUE)
    /\ UNCHANGED <<identityVars, queueVars, cur, dormant, submitting, serverVars>>

Remove ==
    /\ pc = "remove"
    /\ \/ /\ Q!Remove(request["heartbeat"].sequence)
          /\ pc' = "ack"
          /\ UNCHANGED <<entries, request, disturbed>>
       \/ /\ "disk" \in Environment
          /\ UNCHANGED queueVars
          /\ FlushReturns(TRUE)
    /\ UNCHANGED <<identityVars, cur, dormant, submitting, late, serverVars>>

(* The drops the removed heartbeat reported are acknowledged. *)
AcknowledgeDropped ==
    /\ pc = "ack"
    /\ \/ /\ LET n == request["heartbeat"].body.dropped
             IN  IF n > 0 THEN Q!AcknowledgeDropped(n) ELSE UNCHANGED queueVars
          /\ pc' = "send"
          /\ request' = [request EXCEPT !["heartbeat"] = NoRequest]
          /\ UNCHANGED <<entries, disturbed>>
       \/ /\ "disk" \in Environment
          /\ request["heartbeat"].body.dropped > 0
          /\ UNCHANGED queueVars
          /\ FlushReturns(TRUE)
    /\ UNCHANGED <<identityVars, cur, dormant, submitting, late, serverVars>>

-----------------------------------------------------------------------------
(***************************************************************************)
(* SubmitHardwareSnapshot, on the goroutine of the inventory socket.       *)
(***************************************************************************)

SnapshotChecked ==
    /\ "snapshot" \in Environment
    /\ running
    /\ ~dormant
    /\ ~submitting
    /\ submitting' = TRUE
    /\ UNCHANGED <<identityVars, queueVars, agentVars, networkVars, serverVars>>

SnapshotSent ==
    /\ Submitting
    /\ \/ \E outcome \in PersistOutcomes :
             /\ I!ReserveSequence(outcome)
             /\ IF outcome = "ok"
                THEN /\ request' = [request EXCEPT !["snapshot"] =
                                      [sequence |-> mem'.sequence, body |-> NoBody,
                                       status |-> "sent"]]
                     /\ UNCHANGED submitting
                ELSE submitting' = FALSE /\ UNCHANGED request
       \/ /\ ~I!CanReserve
          /\ submitting' = FALSE
          /\ UNCHANGED <<identityVars, request>>
    /\ UNCHANGED <<queueVars, agentVars, late, serverVars>>

(* Every answer, and none at all, goes back to the command that asked. *)
SnapshotReturns ==
    /\ submitting
    /\ \/ request["snapshot"].status \notin {"none", "sent"}
       \/ request["snapshot"].status = "sent" /\ "network" \in Environment
    /\ late' = Abandoned("snapshot")
    /\ request' = [request EXCEPT !["snapshot"] = NoRequest]
    /\ submitting' = FALSE
    /\ UNCHANGED <<identityVars, queueVars, agentVars, serverVars>>

-----------------------------------------------------------------------------
(***************************************************************************)
(* The application (external): how the client uses it.  It checks the      *)
(* registration first, then that the number is above its replay window,    *)
(* and answers only after it has stored the heartbeat.                     *)
(***************************************************************************)

Window(e) ==
    IF SharedWindow /\ high["snapshot"] > high["heartbeat"] THEN high["snapshot"]
    ELSE IF SharedWindow THEN high["heartbeat"] ELSE high[e]

Accept(e, s, covers) ==
    /\ ~revoked
    /\ s > Window(e)
    /\ high' = [high EXCEPT ![e] = s]
    /\ IF e = "heartbeat"
       THEN /\ committed' = committed \cup {s}
            /\ known' = IF covers > known THEN covers ELSE known
       ELSE UNCHANGED <<committed, known>>
    /\ UNCHANGED revoked

Answer(e, status) ==
    /\ request[e].status = "sent"
    /\ request' = [request EXCEPT ![e].status = status]
    /\ UNCHANGED <<identityVars, queueVars, agentVars, submitting, late>>

ServerAccepts(e) ==
    /\ Accept(e, request[e].sequence, request[e].body.covers)
    /\ Answer(e, "ok")

ServerSeesReplay(e) ==
    /\ ~revoked
    /\ request[e].sequence <= Window(e)
    /\ Answer(e, "replayed")
    /\ UNCHANGED serverVars

ServerSeesRevoked(e) ==
    /\ revoked
    /\ Answer(e, "revoked")
    /\ UNCHANGED serverVars

ServerFails(e) ==
    /\ "server" \in Environment
    /\ Answer(e, "failed")
    /\ UNCHANGED serverVars

(* A request nobody waits for reaches the application; it is stored, or    *)
(* it is refused and nobody hears of it.                                   *)
LateArrives ==
    /\ \E r \in late :
          /\ late' = late \ {r}
          /\ \/ Accept(r.endpoint, r.sequence, r.covers)
             \/ /\ revoked \/ r.sequence <= Window(r.endpoint)
                /\ UNCHANGED serverVars
    /\ UNCHANGED <<identityVars, queueVars, agentVars, submitting, request>>

Revoke ==
    /\ "revoke" \in Environment
    /\ ~revoked
    /\ revoked' = TRUE
    /\ UNCHANGED <<identityVars, queueVars, agentVars, submitting, networkVars,
                   committed, high, known>>

-----------------------------------------------------------------------------

(* An activated agent that has never sent anything, before its first start *)
(* as a daemon.                                                            *)
Init ==
    /\ running = FALSE
    /\ disk = [key |-> "key", deviceID |-> 1, sequence |-> 0]
    /\ mem = disk
    /\ issued = <<>>
    /\ Q!Init
    /\ pc = "off"
    /\ cur = 0
    /\ entries = {}
    /\ dormant = FALSE
    /\ disturbed = FALSE
    /\ submitting = FALSE
    /\ request = [e \in Endpoints |-> NoRequest]
    /\ late = {}
    /\ committed = {}
    /\ high = [e \in Endpoints |-> 0]
    /\ known = 0
    /\ revoked = FALSE

MainStep ==
    \/ Start \/ Contract \/ ContractFails
    \/ Evict \/ EnforceFails \/ LimitsApplied \/ Added
    \/ Collect \/ CollectExhausted \/ Build
    \/ Flush \/ Send \/ FlushDone
    \/ Acknowledged \/ Revoked \/ Failed \/ Timeout
    \/ Remove \/ AcknowledgeDropped

SnapshotStep == SnapshotChecked \/ SnapshotSent \/ SnapshotReturns

ServerStep ==
    \/ \E e \in Endpoints :
          \/ ServerAccepts(e) \/ ServerSeesReplay(e)
          \/ ServerSeesRevoked(e) \/ ServerFails(e)
    \/ LateArrives
    \/ Revoke

Next == MainStep \/ SnapshotStep \/ ServerStep \/ Stop

Spec == Init /\ [][Next]_vars

(***************************************************************************)
(* Fairness.  The goroutine runs when it can; a request is answered or the *)
(* client's timeout ends it; the application answers when the model has no *)
(* timeouts.  Nothing is assumed about crashes, restarts or errors.        *)
(***************************************************************************)
Replied ==
    \/ ServerAccepts("heartbeat") \/ ServerSeesReplay("heartbeat")
    \/ ServerSeesRevoked("heartbeat") \/ ServerFails("heartbeat")

FairSpec == Spec /\ WF_vars(MainStep) /\ WF_vars(Replied \/ Timeout)

-----------------------------------------------------------------------------

RequestType ==
    [sequence : 0 .. MaxSequence, body : Heartbeats,
     status : {"none", "sent", "ok", "replayed", "revoked", "failed"}]

LateType == [endpoint : Endpoints, sequence : 0 .. MaxSequence, covers : Nat]

IdentityTyped ==
    /\ running \in BOOLEAN
    /\ mem \in I!Persisted
    /\ disk \in I!Persisted
    /\ issued \in Seq(1 .. MaxSequence)

AgentTyped ==
    /\ pc \in {"off", "boot", "limits", "exit", "tick", "build", "add", "flush", "send",
               "await", "remove", "ack", "dormant"}
    /\ cur \in 0 .. MaxSequence
    /\ entries \in SUBSET (1 .. MaxSequence)
    /\ dormant \in BOOLEAN
    /\ disturbed \in BOOLEAN
    /\ submitting \in BOOLEAN

NetworkTyped ==
    /\ request \in [Endpoints -> RequestType]
    /\ late \in SUBSET LateType

ServerTyped ==
    /\ committed \in SUBSET (1 .. MaxSequence)
    /\ high \in [Endpoints -> 0 .. MaxSequence]
    /\ known \in Nat
    /\ revoked \in BOOLEAN

(* Every variable has the shape of the code's state. *)
TypeOK == IdentityTyped /\ Q!TypeOK /\ AgentTyped /\ NetworkTyped /\ ServerTyped

(***************************************************************************)
(* Flush treats 409 replayed-agent-request as "already committed" and      *)
(* deletes the heartbeat.  That is right only if every queued heartbeat    *)
(* the application would call a replay is one it has stored: whatever was  *)
(* lost, timed out, evicted, resent or overtaken before.                   *)
(***************************************************************************)
ReplayMeansCommitted ==
    \A s \in Queued : s <= Window("heartbeat") => s \in committed

(***************************************************************************)
(* Only the oldest queued heartbeat can be one the application already     *)
(* has: a lost acknowledgement costs one retransmission, never a batch.    *)
(***************************************************************************)
OnlyTheOldestIsResent ==
    \A s \in Queued \cap committed : Q!IsOldest(s, Queued)

(***************************************************************************)
(* Sequence numbers stay increasing with two goroutines reserving them.    *)
(***************************************************************************)
SequencesIncrease == I!SequencesIncrease

(***************************************************************************)
(* The dormant state is recorded only for a registration the application   *)
(* revoked, and the main loop then neither collects nor sends, in this     *)
(* process or after any restart ("records a dormant state and stops        *)
(* delivery").                                                             *)
(***************************************************************************)
DormantMeansSilent ==
    dormant => revoked /\ pc \in {"off", "dormant"}

(***************************************************************************)
(* Every eviction that no stored heartbeat can have reported is still in   *)
(* the counter, so that a later heartbeat will report it.                  *)
(***************************************************************************)
UnreportedDropsAreCounted ==
    dropped + evicted >= Cardinality(lost) - known

(***************************************************************************)
(* Flush only ever works on a buffer within the limits of a contract, even *)
(* after crashes and I/O errors that left it above them, and although the  *)
(* process opens it with the default limits.                               *)
(***************************************************************************)
BufferIsBounded ==
    pc \in {"flush", "send", "await", "remove", "ack"} =>
       limits \in ContractLimits /\ ~Q!OverLimits(files, limits)

(***************************************************************************)
(* A Flush that has read the buffer and that nothing disturbs from then on *)
(* empties it, whatever earlier cycles left behind: evicted or overtaken   *)
(* entries, lost acknowledgements, entries the application already has.    *)
(***************************************************************************)
FlushDrains ==
    pc = "send" ~> (Queued = {} \/ disturbed)

(***************************************************************************)
(* The inductive invariants.  DeliveryCore is about the agent alone and    *)
(* holds whatever the application's replay window is; DeliveryInv adds     *)
(* what ReplayMeansCommitted and the refinement need.                      *)
(***************************************************************************)

(* The goroutine, the identity and the buffer agree on who is running. *)
StagesAgree ==
    /\ running <=> pc # "off"
    /\ phase = "closed" <=> pc = "off"
    /\ phase = "enforce" <=> pc \in {"limits", "add"}
    /\ request["heartbeat"].status # "none" => pc \in {"await", "remove", "ack"}
    /\ request["heartbeat"].status = "sent" => pc = "await"
    /\ pc = "build" => cur > 0

(* While Flush works on an entry it is the oldest one queued, and the rest *)
(* of the batch is the rest of the buffer.                                 *)
FlushInOrder ==
    /\ pc \in {"send", "ack"} => entries = Queued
    /\ pc \in {"await", "remove"} =>
          /\ Q!IsOldest(request["heartbeat"].sequence, Queued)
          /\ entries = Queued \ {request["heartbeat"].sequence}

(* Past the first contract the limits are a contract's, and from the end   *)
(* of an Add to the end of its Flush the buffer is within them.            *)
LimitsAreKept ==
    /\ pc \notin {"off", "boot", "exit", "dormant"} => limits \in ContractLimits
    /\ pc \in {"flush", "send", "await", "remove", "ack"} => ~Q!OverLimits(files, limits)

(* An answer that says the registration is gone is never wrong. *)
DormantIsKnown ==
    /\ request["heartbeat"].status = "revoked" => revoked
    /\ DormantMeansSilent

DeliveryCore ==
    /\ TypeOK
    /\ StagesAgree
    /\ FlushInOrder
    /\ LimitsAreKept
    /\ DormantIsKnown

(* Numbers of heartbeats that ever reached the buffer. *)
Used == Queued \cup committed \cup lost

(* They are covered by the counter, on disk and in memory; the number a    *)
(* Collect holds is above all of them.                                     *)
UsedIsReserved ==
    /\ running => mem.sequence <= disk.sequence
    /\ \A s \in Used : s <= disk.sequence
    /\ running => \A s \in Used : s <= mem.sequence
    /\ pc = "build" => cur <= mem.sequence /\ \A s \in Used : s < cur

(* The application's window covers exactly what it stored, and a queued    *)
(* heartbeat below it was stored.                                          *)
WindowIsCommitted ==
    /\ high["heartbeat"] # 0 => high["heartbeat"] \in committed
    /\ \A s \in committed : s <= high["heartbeat"]
    /\ \A s \in Queued : s <= high["heartbeat"] => s \in committed

(* Flush only removes an entry the application has. *)
RemovesTheCommitted ==
    pc = "remove" \/ (pc = "await" /\ request["heartbeat"].status \in {"ok", "replayed"})
       => request["heartbeat"].sequence \in committed

(* A heartbeat whose sender gave up is not above anything queued. *)
LateInOrder ==
    \A r \in late : r.endpoint = "heartbeat" =>
       /\ r.sequence \in Used
       /\ \A q \in Queued : r.sequence <= q

DeliveryInv ==
    /\ DeliveryCore
    /\ UsedIsReserved
    /\ WindowIsCommitted
    /\ RemovesTheCommitted
    /\ LateInOrder
    /\ OnlyTheOldestIsResent

(* Heartbeat delivery implements the abstract channel. *)
Channel == INSTANCE HeartbeatChannel WITH Numbers <- 1 .. MaxSequence, backlog <- Queued

ImplementsChannel == Channel!Spec
=============================================================================
