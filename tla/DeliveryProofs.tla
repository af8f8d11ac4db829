--------------------------- MODULE DeliveryProofs ---------------------------
(***************************************************************************)
(* Proofs about Delivery, for every last sequence number, all limits and   *)
(* every subset of the events the environment may produce.  What the       *)
(* application is known to have stored needs that it keeps a replay window *)
(* per endpoint (SharedWindow = FALSE); what the agent alone guarantees    *)
(* (DeliveryCore) does not.                                                *)
(*                                                                         *)
(* Each part of the invariants has a lemma that says a step preserves it.  *)
(* A case that names several actions collects those that do not touch what *)
(* the part is about, or touch it in the same way.                         *)
(***************************************************************************)
EXTENDS Delivery, FiniteSetTheorems, WellFoundedInduction, TLAPS

(* The file of an activated agent is not a missing file. *)
LEMMA ActivatedFile == ASSUME NEW r \in I!Persisted PROVE r # I!NoFile
BY DEF I!Persisted, I!NoFile

(* The number of evictions is a number: there are finitely many. *)
LEMMA LostIsFinite == ASSUME Q!TypeOK PROVE Cardinality(lost) \in Nat
<1>1. IsFiniteSet(1 .. MaxSequence)
  BY DeliveryAssumption, FS_Interval
<1>2. IsFiniteSet(lost)
  BY <1>1, FS_Subset DEF Q!TypeOK
<1> QED
  BY <1>2, FS_CardinalityType

(* What a call of ReserveSequence does to the two copies of the counter. *)
LEMMA Reserving ==
    ASSUME IdentityTyped, NEW outcome \in PersistOutcomes, I!ReserveSequence(outcome)
    PROVE  /\ running /\ running' = running
           /\ mem.sequence \in Nat /\ mem.sequence + 1 \in 1 .. MaxSequence
           /\ mem' \in I!Persisted /\ disk' \in I!Persisted
           /\ outcome = "ok" =>
                /\ mem'.sequence = mem.sequence + 1 /\ disk'.sequence = mem.sequence + 1
                /\ issued' = Append(issued, mem.sequence + 1)
           /\ outcome # "ok" =>
                /\ mem' = mem /\ issued' = issued
                /\ disk' = disk \/ disk'.sequence = mem.sequence + 1
<1> DEFINE next == [mem EXCEPT !.sequence = @ + 1]
<1>1. running /\ mem.sequence < MaxSequence /\ mem \in I!Persisted
  BY DEF I!ReserveSequence, I!CanReserve, IdentityTyped
<1>2. mem.sequence \in Nat /\ mem.sequence + 1 \in 1 .. MaxSequence
  BY <1>1, DeliveryAssumption DEF I!Persisted
<1>3. next \in I!Persisted /\ next.sequence = mem.sequence + 1
  BY <1>1, <1>2 DEF I!Persisted
<1>4. /\ running' = running
      /\ disk' = IF outcome = "failed" THEN disk ELSE next
      /\ mem' = IF outcome = "ok" THEN next ELSE mem
      /\ issued' = IF outcome = "ok" THEN Append(issued, next.sequence) ELSE issued
  BY DEF I!ReserveSequence, I!persistLocked
<1> HIDE DEF next
<1> QED
  BY <1>1, <1>2, <1>3, <1>4 DEF IdentityTyped

LEMMA AppendTyped ==
    ASSUME NEW S, NEW q \in Seq(S), NEW x \in S PROVE Append(q, x) \in Seq(S)
OBVIOUS

LEMMA ReservingTyped ==
    ASSUME IdentityTyped, NEW outcome \in PersistOutcomes, I!ReserveSequence(outcome)
    PROVE  IdentityTyped'
<1>1. /\ running' = running
      /\ mem' \in I!Persisted /\ disk' \in I!Persisted
      /\ mem.sequence + 1 \in 1 .. MaxSequence
      /\ issued' = issued \/ issued' = Append(issued, mem.sequence + 1)
  BY Reserving
<1>2. issued' \in Seq(1 .. MaxSequence)
  BY <1>1, AppendTyped DEF IdentityTyped
<1> QED
  BY <1>1, <1>2 DEF IdentityTyped

(* What is left of the counter when the process ends. *)
LEMMA Stopping ==
    ASSUME IdentityTyped, Stop
    PROVE  /\ running' = FALSE /\ mem' = mem /\ issued' = issued
           /\ disk' \in I!Persisted
           /\ \/ disk' = disk
              \/ running /\ mem.sequence \in Nat /\ disk'.sequence = mem.sequence + 1
<1>1. CASE I!IdentityCrash
  BY <1>1 DEF I!IdentityCrash, IdentityTyped
<1>2. CASE I!CrashInReserve
  <2>1. mem \in I!Persisted /\ mem.sequence < MaxSequence /\ running
    BY <1>2 DEF I!CrashInReserve, I!CanReserve, IdentityTyped
  <2>2. disk' = [mem EXCEPT !.sequence = @ + 1] /\ running' = FALSE
        /\ mem' = mem /\ issued' = issued
    BY <1>2 DEF I!CrashInReserve
  <2>3. mem.sequence \in Nat /\ disk' \in I!Persisted /\ disk'.sequence = mem.sequence + 1
    BY <2>1, <2>2, DeliveryAssumption DEF I!Persisted
  <2> QED
    BY <2>1, <2>2, <2>3
<1> QED
  BY <1>1, <1>2 DEF Stop

(* The identity keeps its type. *)
LEMMA IdentityTypedStep == DeliveryCore /\ [Next]_vars => IdentityTyped'
<1> SUFFICES ASSUME DeliveryCore, [Next]_vars PROVE IdentityTyped'
  OBVIOUS
<1> USE DeliveryAssumption, ActivatedFile, LostIsFinite DEF DeliveryCore, TypeOK
<1>1. CASE Start
  BY <1>1 DEF Start, I!LoadOrCreate, IdentityTyped
<1>2. CASE Stop
  BY <1>2, Stopping DEF TypeOK, IdentityTyped
<1>3. CASE Collect
  BY <1>3, ReservingTyped DEF Collect
<1>4. CASE SnapshotSent
  BY <1>4, ReservingTyped DEF SnapshotSent, identityVars, IdentityTyped
<1>5. CASE Contract \/ ContractFails \/ Evict \/ EnforceFails \/ LimitsApplied \/ Added \/
           Build
  BY <1>5 DEF Contract, ContractFails, Evict, EnforceFails, LimitsApplied, Added, Build,
    identityVars, IdentityTyped
<1>6. CASE Flush \/ Send \/ FlushDone \/ Acknowledged \/ Revoked \/ Failed \/ Timeout \/
           Remove \/ AcknowledgeDropped
  BY <1>6 DEF Flush, Send, FlushDone, Acknowledged, FlushReturns, Revoked, Failed, Timeout,
    Remove, AcknowledgeDropped, identityVars, IdentityTyped
<1>7. CASE SnapshotChecked \/ SnapshotReturns \/ LateArrives \/ Revoke
  BY <1>7 DEF SnapshotChecked, SnapshotReturns, LateArrives, Revoke, identityVars,
    IdentityTyped
<1>8. ASSUME NEW e \in Endpoints,
             ServerAccepts(e) \/ ServerSeesReplay(e) \/ ServerSeesRevoked(e) \/ ServerFails(e)
      PROVE  IdentityTyped'
  BY <1>8 DEF ServerAccepts, Answer, ServerSeesReplay, ServerSeesRevoked, ServerFails,
    identityVars, IdentityTyped
<1>9. CASE UNCHANGED vars
  BY <1>9 DEF vars, IdentityTyped
<1> QED
  BY <1>1, <1>2, <1>3, <1>4, <1>5, <1>6, <1>7, <1>8, <1>9
     DEF Next, MainStep, SnapshotStep, ServerStep, CollectExhausted

(* The buffer keeps its type. *)
LEMMA BufferTypedStep == DeliveryCore /\ [Next]_vars => Q!TypeOK'
<1> SUFFICES ASSUME DeliveryCore, [Next]_vars PROVE Q!TypeOK'
  OBVIOUS
<1> USE DeliveryAssumption, ActivatedFile, LostIsFinite DEF DeliveryCore, TypeOK
<1>1. CASE Start
  BY <1>1 DEF Start, Q!Open, Q!TypeOK, Q!Queued, Limits, Q!Limits
<1>2. CASE Stop
  BY <1>2 DEF Stop, Q!Crash, Q!TypeOK, Q!Queued
<1>3. CASE Contract
  BY <1>3 DEF Contract, Q!SetLimits, Q!TypeOK, Q!Queued, Limits, Q!Limits
<1>4. CASE Evict
  BY <1>4 DEF Evict, Q!EvictOldest, Q!Without, Q!TypeOK, Q!Queued
<1>5. CASE EnforceFails
  BY <1>5 DEF EnforceFails, Q!EnforceFails, Q!TypeOK, Q!Queued
<1>6. CASE LimitsApplied \/ Added
  BY <1>6 DEF LimitsApplied, Added, Q!CountDropped, Q!TypeOK, Q!Queued
<1>7. CASE Build
  BY <1>7 DEF Build, Q!Add, Q!AddRefused, Q!AddUnread, Q!With, Q!queueVars, queueVars,
    Q!TypeOK, Q!Queued, Heartbeats, AgentTyped, StagesAgree
<1>8. CASE Remove
  BY <1>8 DEF Remove, Q!Remove, Q!Without, queueVars, Q!TypeOK, Q!Queued
<1>9. CASE AcknowledgeDropped
  <2> DEFINE n == request["heartbeat"].body.dropped
  <2>1. n \in Nat /\ dropped \in Nat /\ credited \in Nat
    BY DEF NetworkTyped, RequestType, Heartbeats, Endpoints, Q!TypeOK
  <2>2. CASE UNCHANGED queueVars
    BY <2>2 DEF queueVars, Q!TypeOK, Q!Queued
  <2>3. CASE Q!AcknowledgeDropped(n)
    <3> HIDE DEF n
    <3>1. dropped' \in Nat /\ dropped' <= dropped /\ credited' = credited + (dropped - dropped')
      BY <2>1, <2>3 DEF Q!AcknowledgeDropped
    <3> QED
      BY <2>1, <2>3, <3>1 DEF Q!AcknowledgeDropped, Q!TypeOK, Q!Queued
  <2> QED
    BY <1>9, <2>2, <2>3 DEF AcknowledgeDropped
<1>10. CASE ContractFails \/ Collect \/ Flush \/ Send \/ FlushDone \/ Acknowledged \/
           Revoked \/ Failed \/ Timeout
  BY <1>10 DEF ContractFails, Collect, Flush, Send, FlushDone, Acknowledged, FlushReturns,
    Revoked, Failed, Timeout, queueVars, Q!TypeOK, Q!Queued
<1>11. CASE SnapshotChecked \/ SnapshotSent \/ SnapshotReturns \/ LateArrives \/ Revoke
  BY <1>11 DEF SnapshotChecked, SnapshotSent, SnapshotReturns, LateArrives, Revoke,
    queueVars, Q!TypeOK, Q!Queued
<1>12. ASSUME NEW e \in Endpoints,
             ServerAccepts(e) \/ ServerSeesReplay(e) \/ ServerSeesRevoked(e) \/ ServerFails(e)
      PROVE  Q!TypeOK'
  BY <1>12 DEF ServerAccepts, Answer, ServerSeesReplay, ServerSeesRevoked, ServerFails,
    queueVars, Q!TypeOK, Q!Queued
<1>13. CASE UNCHANGED vars
  BY <1>13 DEF vars, Q!TypeOK, Q!Queued
<1> QED
  BY <1>1, <1>2, <1>3, <1>4, <1>5, <1>6, <1>7, <1>8, <1>9, <1>10, <1>11, <1>12,
     <1>13
     DEF Next, MainStep, SnapshotStep, ServerStep, CollectExhausted

(* The goroutines' own state keeps its type. *)
LEMMA AgentTypedStep == DeliveryCore /\ [Next]_vars => AgentTyped'
<1> SUFFICES ASSUME DeliveryCore, [Next]_vars PROVE AgentTyped'
  OBVIOUS
<1> USE DeliveryAssumption, ActivatedFile, LostIsFinite DEF DeliveryCore, TypeOK
<1>1. CASE Start \/ ContractFails \/ Contract \/ EnforceFails \/ LimitsApplied \/ Added \/
           Evict
  BY <1>1 DEF Start, ContractFails, Contract, EnforceFails, LimitsApplied, Added, Evict,
    agentVars, AgentTyped
<1>2. CASE Stop
  <2>1. /\ pc' = "off" /\ cur' = 0 /\ entries' = {}
        /\ disturbed' = TRUE /\ submitting' = FALSE /\ dormant' = dormant
    BY <1>2 DEF Stop
  <2>2. cur' \in 0 .. MaxSequence
    BY <2>1
  <2>3. disturbed' \in BOOLEAN /\ submitting' \in BOOLEAN
    BY <2>1
  <2> QED
    BY <2>1, <2>2, <2>3 DEF AgentTyped
<1>3. CASE Collect
  BY <1>3, Reserving DEF Collect, I!Persisted, IdentityTyped, AgentTyped
<1>4. CASE Build
  BY <1>4 DEF Build, AgentTyped
<1>5. CASE Flush
  BY <1>5 DEF Flush, AgentTyped, Queued, Q!TypeOK, Q!Queued
<1>6. CASE Send \/ FlushDone
  BY <1>6 DEF Send, FlushDone, agentVars, AgentTyped
<1>7. CASE Acknowledged \/ Revoked \/ Failed \/ Timeout
  BY <1>7 DEF Acknowledged, FlushReturns, Revoked, Failed, Timeout, agentVars, AgentTyped
<1>8. CASE Remove \/ AcknowledgeDropped
  BY <1>8 DEF Remove, FlushReturns, AcknowledgeDropped, agentVars, AgentTyped
<1>9. CASE SnapshotChecked \/ SnapshotSent \/ SnapshotReturns \/ LateArrives \/ Revoke
  BY <1>9 DEF SnapshotChecked, SnapshotSent, SnapshotReturns, LateArrives, Revoke,
    agentVars, AgentTyped
<1>10. ASSUME NEW e \in Endpoints,
             ServerAccepts(e) \/ ServerSeesReplay(e) \/ ServerSeesRevoked(e) \/ ServerFails(e)
      PROVE  AgentTyped'
  BY <1>10 DEF ServerAccepts, Answer, ServerSeesReplay, ServerSeesRevoked, ServerFails,
    agentVars, AgentTyped
<1>11. CASE UNCHANGED vars
  BY <1>11 DEF vars, AgentTyped
<1> QED
  BY <1>1, <1>2, <1>3, <1>4, <1>5, <1>6, <1>7, <1>8, <1>9, <1>10, <1>11
     DEF Next, MainStep, SnapshotStep, ServerStep, CollectExhausted

(* The empty slot is a request, and so is one whose sender gave up. *)
LEMMA NoRequestTyped == NoRequest \in RequestType
BY DeliveryAssumption DEF RequestType, NoRequest, NoBody, Heartbeats

LEMMA AbandonedTyped ==
    ASSUME NetworkTyped, NEW e \in Endpoints PROVE Abandoned(e) \in SUBSET LateType
<1>1. request[e].sequence \in 0 .. MaxSequence /\ request[e].body.covers \in Nat
  BY DEF NetworkTyped, RequestType, Heartbeats
<1> QED
  BY <1>1 DEF Abandoned, NetworkTyped, LateType

(* Requests keep their type. *)
LEMMA NetworkTypedStep == DeliveryCore /\ [Next]_vars => NetworkTyped'
<1> SUFFICES ASSUME DeliveryCore, [Next]_vars PROVE NetworkTyped'
  OBVIOUS
<1> USE DeliveryAssumption, ActivatedFile, LostIsFinite DEF DeliveryCore, TypeOK
<1>1. CASE Stop
  <2>1. \A e \in Endpoints : /\ request[e].sequence \in 0 .. MaxSequence
                            /\ request[e].body.covers \in Nat
    BY DEF NetworkTyped, RequestType, Heartbeats
  <2>2. NoRequest \in RequestType
    BY DEF RequestType, NoRequest, NoBody, Heartbeats
  <2> QED
    BY <1>1, <2>1, <2>2 DEF Stop, NetworkTyped, LateType
<1>2. CASE Send
  BY <1>2 DEF Send, TypeOK, NetworkTyped, RequestType, Endpoints, FlushInOrder, Queued,
    Q!TypeOK, Q!Queued
<1>3. CASE Acknowledged \/ Revoked \/ Failed
  <2>1. request' = request \/ request' = [request EXCEPT !["heartbeat"] = NoRequest]
    BY <1>3 DEF Acknowledged, Revoked, Failed, FlushReturns
  <2>2. late' = late
    BY <1>3 DEF Acknowledged, Revoked, Failed
  <2> QED
    BY <2>1, <2>2, NoRequestTyped DEF NetworkTyped
<1>4. CASE Timeout
  BY <1>4, NoRequestTyped, AbandonedTyped DEF Timeout, FlushReturns, NetworkTyped, Endpoints
<1>5. CASE Remove \/ AcknowledgeDropped
  <2>1. request' = request \/ request' = [request EXCEPT !["heartbeat"] = NoRequest]
    BY <1>5 DEF Remove, AcknowledgeDropped, FlushReturns
  <2>2. late' = late
    BY <1>5 DEF Remove, AcknowledgeDropped
  <2> QED
    BY <2>1, <2>2, NoRequestTyped DEF NetworkTyped
<1>6. CASE SnapshotSent
  <2>1. late' = late
    BY <1>6 DEF SnapshotSent
  <2>2. CASE request' = request
    BY <2>1, <2>2 DEF NetworkTyped
  <2>3. ASSUME NEW outcome \in PersistOutcomes, I!ReserveSequence(outcome),
               request' = [request EXCEPT !["snapshot"] =
                             [sequence |-> mem'.sequence, body |-> NoBody, status |-> "sent"]]
        PROVE  NetworkTyped'
    <3>1. mem'.sequence \in 0 .. MaxSequence
      BY <2>3, Reserving DEF I!Persisted
    <3> DEFINE sent == [sequence |-> mem'.sequence, body |-> NoBody, status |-> "sent"]
    <3>2. sent \in RequestType
      BY <3>1 DEF RequestType, NoBody, Heartbeats
    <3> QED
      BY <2>1, <2>3, <3>2 DEF NetworkTyped
  <2> QED
    BY <1>6, <2>2, <2>3 DEF SnapshotSent
<1>7. CASE SnapshotReturns
  BY <1>7, NoRequestTyped, AbandonedTyped DEF SnapshotReturns, NetworkTyped, Endpoints
<1>8. CASE Start \/ Contract \/ ContractFails \/ Evict \/ EnforceFails \/ LimitsApplied \/
           Added \/ Collect \/ Build \/ Flush \/ FlushDone
  BY <1>8 DEF Start, Contract, ContractFails, Evict, EnforceFails, LimitsApplied, Added,
    Collect, Build, Flush, FlushDone, networkVars, NetworkTyped, RequestType, LateType,
    Endpoints, NoRequest, NoBody, Heartbeats
<1>9. CASE SnapshotChecked \/ LateArrives \/ Revoke
  BY <1>9 DEF SnapshotChecked, LateArrives, Revoke, networkVars, NetworkTyped, RequestType,
    LateType, Endpoints, NoRequest, NoBody, Heartbeats
<1>10. ASSUME NEW e \in Endpoints,
             ServerAccepts(e) \/ ServerSeesReplay(e) \/ ServerSeesRevoked(e) \/ ServerFails(e)
      PROVE  NetworkTyped'
  BY <1>10 DEF ServerAccepts, ServerSeesReplay, ServerSeesRevoked, ServerFails, Answer,
    NetworkTyped, RequestType
<1>11. CASE UNCHANGED vars
  BY <1>11 DEF vars, NetworkTyped, RequestType, LateType, Endpoints, NoRequest, NoBody, Heartbeats
<1> QED
  BY <1>1, <1>2, <1>3, <1>4, <1>5, <1>6, <1>7, <1>8, <1>9, <1>10, <1>11
     DEF Next, MainStep, SnapshotStep, ServerStep, CollectExhausted

(* Accepting a request keeps the application's type. *)
LEMMA AcceptTyped ==
    ASSUME ServerTyped, NEW e \in Endpoints, NEW s \in 0 .. MaxSequence, NEW covers \in Nat,
           Accept(e, s, covers)
    PROVE  ServerTyped'
<1>1. Window(e) \in Nat
  BY DeliveryAssumption DEF Window, ServerTyped, Endpoints
<1>2. s \in 1 .. MaxSequence
  BY <1>1, DeliveryAssumption DEF Accept
<1> QED
  BY <1>2, DeliveryAssumption DEF Accept, ServerTyped, Endpoints

(* The application's state keeps its type. *)
LEMMA ServerTypedStep == DeliveryCore /\ [Next]_vars => ServerTyped'
<1> SUFFICES ASSUME DeliveryCore, [Next]_vars PROVE ServerTyped'
  OBVIOUS
<1> USE DeliveryAssumption, ActivatedFile, LostIsFinite DEF DeliveryCore, TypeOK
<1>1. CASE LateArrives
  <2>1. PICK r \in late : \/ Accept(r.endpoint, r.sequence, r.covers)
                         \/ UNCHANGED serverVars
    BY <1>1 DEF LateArrives
  <2>2. r.endpoint \in Endpoints /\ r.sequence \in 0 .. MaxSequence /\ r.covers \in Nat
    BY DEF NetworkTyped, LateType
  <2> QED
    BY <2>1, <2>2, AcceptTyped DEF serverVars, ServerTyped
<1>2. CASE Revoke
  BY <1>2 DEF Revoke, serverVars, ServerTyped
<1>3. CASE Start \/ Stop \/ Contract \/ ContractFails \/ Evict \/ EnforceFails \/
           LimitsApplied \/ Added \/ Collect \/ Build
  BY <1>3 DEF Start, Stop, Contract, ContractFails, Evict, EnforceFails, LimitsApplied,
    Added, Collect, Build, serverVars, ServerTyped
<1>4. CASE Flush \/ Send \/ FlushDone \/ Acknowledged \/ Revoked \/ Failed \/ Timeout \/
           Remove \/ AcknowledgeDropped
  BY <1>4 DEF Flush, Send, FlushDone, Acknowledged, FlushReturns, Revoked, Failed, Timeout,
    Remove, AcknowledgeDropped, serverVars, ServerTyped
<1>5. CASE SnapshotChecked \/ SnapshotSent \/ SnapshotReturns
  BY <1>5 DEF SnapshotChecked, SnapshotSent, SnapshotReturns, serverVars, ServerTyped
<1>6. ASSUME NEW e \in Endpoints, ServerAccepts(e)
      PROVE  ServerTyped'
  BY <1>6, AcceptTyped DEF ServerAccepts, NetworkTyped, RequestType, Heartbeats
<1>7. ASSUME NEW e \in Endpoints,
             ServerSeesReplay(e) \/ ServerSeesRevoked(e) \/ ServerFails(e)
      PROVE  ServerTyped'
  BY <1>7 DEF ServerSeesReplay, Answer, ServerSeesRevoked, ServerFails, serverVars,
    ServerTyped
<1>8. CASE UNCHANGED vars
  BY <1>8 DEF vars, ServerTyped
<1> QED
  BY <1>1, <1>2, <1>3, <1>4, <1>5, <1>6, <1>7, <1>8
     DEF Next, MainStep, SnapshotStep, ServerStep, CollectExhausted

(* The stages stay in agreement. *)
LEMMA StagesAgreeStep == DeliveryCore /\ [Next]_vars => StagesAgree'
<1> SUFFICES ASSUME DeliveryCore, [Next]_vars PROVE StagesAgree'
  OBVIOUS
<1> USE DeliveryAssumption, ActivatedFile, LostIsFinite DEF DeliveryCore, TypeOK
<1>1. CASE Start
  BY <1>1 DEF Start, I!LoadOrCreate, Q!Open, networkVars, StagesAgree, AgentTyped,
    NetworkTyped, RequestType, Endpoints, NoRequest, NoBody, IdentityTyped
<1>2. CASE Stop
  BY <1>2, Stopping DEF Stop, Q!Crash, StagesAgree, AgentTyped, Endpoints, NoRequest
<1>3. CASE Contract \/ ContractFails
  BY <1>3 DEF Contract, ContractFails, Q!SetLimits, identityVars, queueVars, networkVars,
    StagesAgree, AgentTyped
<1>4. CASE Evict \/ EnforceFails \/ LimitsApplied \/ Added
  BY <1>4 DEF Evict, EnforceFails, LimitsApplied, Added, Q!EvictOldest, Q!EnforceFails,
    Q!CountDropped, identityVars, agentVars, networkVars, StagesAgree, AgentTyped
<1>5. CASE Collect
  <2>1. /\ pc = "tick" /\ running /\ running' = running
        /\ pc' = "tick" \/ (pc' = "build" /\ cur' > 0)
    BY <1>5, Reserving DEF Collect
  <2>2. phase' = phase /\ request' = request
    BY <1>5 DEF Collect, queueVars, networkVars
  <2> QED
    BY <2>1, <2>2 DEF StagesAgree
<1>6. CASE Build
  BY <1>6 DEF Build, Q!Add, Q!AddRefused, Q!AddUnread, Q!queueVars, identityVars, queueVars,
    networkVars, StagesAgree, AgentTyped
<1>7. CASE Flush \/ Send \/ FlushDone
  BY <1>7 DEF Flush, Send, FlushDone, identityVars, queueVars, networkVars, StagesAgree,
    AgentTyped, NetworkTyped, RequestType, Endpoints, NoRequest, NoBody, IdentityTyped
<1>8. CASE Acknowledged \/ Revoked \/ Failed \/ Timeout
  BY <1>8 DEF Acknowledged, Revoked, Failed, Timeout, FlushReturns, identityVars, queueVars,
    StagesAgree, AgentTyped, NetworkTyped, RequestType, Endpoints, NoRequest, NoBody,
    IdentityTyped
<1>9. CASE Remove \/ AcknowledgeDropped
  BY <1>9 DEF Remove, AcknowledgeDropped, FlushReturns, Q!Remove, Q!AcknowledgeDropped,
    identityVars, queueVars, StagesAgree, AgentTyped, NetworkTyped, RequestType, Endpoints,
    NoRequest, NoBody, IdentityTyped
<1>10. CASE SnapshotSent
  <2>1. request'["heartbeat"] = request["heartbeat"]
    BY <1>10 DEF SnapshotSent, NetworkTyped, Endpoints
  <2>2. running' = running
    BY <1>10, Reserving DEF SnapshotSent, identityVars
  <2> QED
    BY <1>10, <2>1, <2>2 DEF SnapshotSent, queueVars, agentVars, StagesAgree
<1>11. CASE SnapshotChecked \/ SnapshotReturns \/ LateArrives \/ Revoke
  BY <1>11 DEF SnapshotChecked, SnapshotReturns, LateArrives, Revoke, identityVars,
    queueVars, agentVars, networkVars, StagesAgree, AgentTyped, NetworkTyped, RequestType,
    Endpoints, NoRequest, NoBody, IdentityTyped
<1>12. ASSUME NEW e \in Endpoints,
             ServerAccepts(e) \/ ServerSeesReplay(e) \/ ServerSeesRevoked(e) \/ ServerFails(e)
      PROVE  StagesAgree'
  BY <1>12 DEF ServerAccepts, ServerSeesReplay, ServerSeesRevoked, ServerFails, Answer,
    identityVars, queueVars, agentVars, StagesAgree, AgentTyped, NetworkTyped, RequestType,
    Endpoints, NoRequest, NoBody, IdentityTyped
<1>13. CASE UNCHANGED vars
  BY <1>13 DEF vars, StagesAgree, AgentTyped
<1> QED
  BY <1>1, <1>2, <1>3, <1>4, <1>5, <1>6, <1>7, <1>8, <1>9, <1>10, <1>11, <1>12,
     <1>13
     DEF Next, MainStep, SnapshotStep, ServerStep, CollectExhausted

(* Flush keeps working on the oldest entry of what the buffer holds. *)
LEMMA FlushInOrderStep == DeliveryCore /\ [Next]_vars => FlushInOrder'
<1> SUFFICES ASSUME DeliveryCore, [Next]_vars PROVE FlushInOrder'
  OBVIOUS
<1> USE DeliveryAssumption, ActivatedFile, LostIsFinite DEF DeliveryCore, TypeOK
<1>1. CASE Start \/ Stop \/ Contract \/ ContractFails
  BY <1>1 DEF Start, Stop, Contract, ContractFails, FlushInOrder, Queued, AgentTyped
<1>2. CASE Evict \/ EnforceFails \/ LimitsApplied \/ Added
  BY <1>2 DEF Evict, EnforceFails, LimitsApplied, Added, agentVars, FlushInOrder, Queued,
    AgentTyped
<1>3. CASE Collect \/ Build
  BY <1>3 DEF Collect, Build, FlushInOrder, Queued, AgentTyped
<1>4. CASE Flush \/ FlushDone
  BY <1>4 DEF Flush, FlushDone, queueVars, FlushInOrder, Queued, AgentTyped
<1>5. CASE Send
  <2>1. PICK s \in entries :
          /\ Q!IsOldest(s, entries)
          /\ request' = [request EXCEPT !["heartbeat"] =
                           [sequence |-> s, body |-> files[s], status |-> "sent"]]
          /\ entries' = entries \ {s}
    BY <1>5 DEF Send
  <2>2. request'["heartbeat"].sequence = s
    BY <2>1 DEF NetworkTyped, Endpoints
  <2>3. pc = "send" /\ pc' = "await" /\ Queued' = Queued
    BY <1>5 DEF Send, queueVars, Queued
  <2> QED
    BY <2>1, <2>2, <2>3 DEF FlushInOrder
<1>6. CASE Acknowledged \/ Revoked \/ Failed \/ Timeout
  BY <1>6 DEF Acknowledged, Revoked, Failed, Timeout, FlushReturns, Q!IsOldest, queueVars,
    serverVars, FlushInOrder, Queued, AgentTyped
<1>7. CASE Remove
  BY <1>7 DEF Remove, FlushReturns, Q!Remove, Q!Without, FlushInOrder, Queued, AgentTyped,
    Q!IsOldest, NetworkTyped, Endpoints, identityVars, queueVars, agentVars, serverVars,
    networkVars
<1>8. CASE AcknowledgeDropped
  BY <1>8 DEF AcknowledgeDropped, FlushReturns, Q!AcknowledgeDropped, FlushInOrder, Queued,
    AgentTyped, Q!IsOldest, NetworkTyped, Endpoints, identityVars, queueVars, agentVars,
    serverVars, networkVars
<1>9. CASE SnapshotSent \/ SnapshotChecked \/ SnapshotReturns
  BY <1>9 DEF SnapshotSent, SnapshotChecked, SnapshotReturns, FlushInOrder, Queued,
    AgentTyped, Q!IsOldest, NetworkTyped, Endpoints, identityVars, queueVars, agentVars,
    serverVars, networkVars
<1>10. CASE LateArrives \/ Revoke
  BY <1>10 DEF LateArrives, Revoke, Accept, FlushInOrder, Queued, AgentTyped, Q!IsOldest,
    NetworkTyped, Endpoints, identityVars, queueVars, agentVars, serverVars, networkVars
<1>11. ASSUME NEW e \in Endpoints, ServerAccepts(e)
      PROVE  FlushInOrder'
  BY <1>11 DEF ServerAccepts, Accept, Answer, RequestType, StagesAgree, FlushInOrder,
    Queued, AgentTyped, Q!IsOldest, NetworkTyped, Endpoints, identityVars, queueVars,
    agentVars, serverVars, networkVars
<1>12. ASSUME NEW e \in Endpoints, ServerSeesReplay(e)
      PROVE  FlushInOrder'
  BY <1>12 DEF ServerSeesReplay, Answer, RequestType, StagesAgree, FlushInOrder, Queued,
    AgentTyped, Q!IsOldest, NetworkTyped, Endpoints, identityVars, queueVars, agentVars,
    serverVars, networkVars
<1>13. ASSUME NEW e \in Endpoints, ServerSeesRevoked(e) \/ ServerFails(e)
      PROVE  FlushInOrder'
  BY <1>13 DEF ServerSeesRevoked, ServerFails, Answer, RequestType, FlushInOrder, Queued,
    AgentTyped, Q!IsOldest, NetworkTyped, Endpoints, identityVars, queueVars, agentVars,
    serverVars, networkVars
<1>14. CASE UNCHANGED vars
  BY <1>14 DEF vars, FlushInOrder, Queued, AgentTyped
<1> QED
  BY <1>1, <1>2, <1>3, <1>4, <1>5, <1>6, <1>7, <1>8, <1>9, <1>10, <1>11, <1>12,
     <1>13, <1>14
     DEF Next, MainStep, SnapshotStep, ServerStep, CollectExhausted

-----------------------------------------------------------------------------
(* The size of the buffer. *)

(* The recursion by which SumFunctionOnSet is defined. *)
Adds(f, S, g) ==
    g = [T \in SUBSET S |->
           IF T = {} THEN 0
           ELSE f[CHOOSE x \in T : TRUE] + g[T \ {CHOOSE x \in T : TRUE}]]

LEMMA LeastExists ==
    ASSUME NEW S \in SUBSET Nat, S # {}
    PROVE  \E i \in S : \A j \in S : i <= j
<1> DEFINE R == OpToRel(<, Nat)
<1>1. IsWellFoundedOn(R, Nat)
  BY NatLessThanWellFounded
<1>2. PICK i \in S : \A j \in S : ~(<<j, i>> \in R)
  BY <1>1, WFMin
<1>3. \A m, n \in Nat : m < n => <<m, n>> \in R
  BY DEF OpToRel
<1> HIDE DEF R
<1>4. \A j \in S : ~(j < i)
  BY <1>2, <1>3
<1> QED
  BY <1>4

(* Taking one element out of a finite set. *)
LEMMA OneLess ==
    ASSUME NEW S, IsFiniteSet(S), NEW T \in SUBSET S, T # {}
    PROVE  /\ (CHOOSE x \in T : TRUE) \in T
           /\ T \ {CHOOSE x \in T : TRUE} \in SUBSET S
           /\ Cardinality(T) \in Nat
           /\ Cardinality(T) = 1 + Cardinality(T \ {CHOOSE x \in T : TRUE})
           /\ Cardinality(T \ {CHOOSE x \in T : TRUE}) \in Nat
<1> DEFINE x == CHOOSE y \in T : TRUE
<1>1. x \in T
  OBVIOUS
<1>2. IsFiniteSet(T) /\ IsFiniteSet(T \ {x})
  BY FS_Subset
<1>3. Cardinality(T) \in Nat /\ Cardinality(T \ {x}) \in Nat
  BY <1>2, FS_CardinalityType
<1>4. Cardinality(T \ {x}) = Cardinality(T) - 1
  BY <1>1, <1>2, FS_RemoveElement
<1> HIDE DEF x
<1>5. Cardinality(T) = 1 + Cardinality(T \ {x})
  BY <1>3, <1>4
<1> QED
  BY <1>1, <1>3, <1>5 DEF x

(* A sum of ones counts. *)
LEMMA SumOfOnes ==
    ASSUME NEW S, IsFiniteSet(S), NEW f, \A s \in S : f[s] = 1
    PROVE  Q!SumFunctionOnSet(f, S) = Cardinality(S)
<1> DEFINE G == [T \in SUBSET S |-> Cardinality(T)]
           pick(T) == CHOOSE x \in T : TRUE
<1>1. Q!SumFunctionOnSet(f, S) = (CHOOSE g : Adds(f, S, g))[S]
  BY DEF Q!SumFunctionOnSet, Q!FoldFunctionOnSet, Q!MapThenFoldSet, Adds
<1>2. \A T \in SUBSET S : T # {} =>
          /\ pick(T) \in T /\ T \ {pick(T)} \in SUBSET S
          /\ Cardinality(T) \in Nat /\ Cardinality(T \ {pick(T)}) \in Nat
          /\ Cardinality(T) = 1 + Cardinality(T \ {pick(T)})
  BY OneLess
<1>3. Cardinality({}) = 0
  BY FS_EmptySet
<1>4. Adds(f, S, G)
  <2>1. \A T \in SUBSET S :
            G[T] = IF T = {} THEN 0 ELSE f[pick(T)] + G[T \ {pick(T)}]
    <3> HIDE DEF pick
    <3> QED
      BY <1>2, <1>3
  <2> QED
    BY <2>1, Zenon DEF Adds
<1>5. PICK g : Adds(f, S, g) /\ Q!SumFunctionOnSet(f, S) = g[S]
  BY <1>1, <1>4
<1>6. \A T \in SUBSET S : g[T] = IF T = {} THEN 0 ELSE f[pick(T)] + g[T \ {pick(T)}]
  <2>1. g = [T \in SUBSET S |-> IF T = {} THEN 0 ELSE f[pick(T)] + g[T \ {pick(T)}]]
    BY <1>5, Zenon DEF Adds
  <2> HIDE DEF pick
  <2> QED
    BY <2>1
<1> HIDE DEF pick
<1>7. SUFFICES ASSUME NEW U \in SUBSET S, g[U] # Cardinality(U) PROVE FALSE
  BY <1>5
<1> DEFINE wrong == {T \in SUBSET S : g[T] # Cardinality(T)}
           sizes == {Cardinality(T) : T \in wrong}
<1>8. sizes \in SUBSET Nat /\ sizes # {}
  <2>1. \A T \in SUBSET S : Cardinality(T) \in Nat
    BY FS_Subset, FS_CardinalityType
  <2>2. Cardinality(U) \in sizes
    BY <1>7
  <2> QED
    BY <2>1, <2>2
<1>9. PICK n \in sizes : \A m \in sizes : n <= m
  BY <1>8, LeastExists, Zenon
<1>10. PICK T \in wrong : n = Cardinality(T)
  BY <1>9
<1>11. T # {}
  BY <1>3, <1>6, <1>10
<1>12. T \ {pick(T)} \in wrong
  <2>1. f[pick(T)] = 1
    BY <1>2, <1>10, <1>11
  <2>2. g[T] = 1 + g[T \ {pick(T)}]
    BY <1>6, <1>10, <1>11, <2>1
  <2> QED
    BY <1>2, <1>10, <1>11, <2>2
<1>13. Cardinality(T \ {pick(T)}) < n
  BY <1>2, <1>10, <1>11
<1>14. n \in Nat /\ Cardinality(T \ {pick(T)}) \in sizes
  BY <1>8, <1>9, <1>12
<1>15. n <= Cardinality(T \ {pick(T)}) /\ Cardinality(T \ {pick(T)}) \in Nat
  BY <1>8, <1>9, <1>14
<1> QED
  BY <1>13, <1>14, <1>15

(* Every heartbeat counts one towards the byte limit, so that a buffer is  *)
(* as large as it has entries.                                             *)
LEMMA BytesAreEntries ==
    ASSUME NEW fs, DOMAIN fs \in SUBSET (1 .. MaxSequence),
           \A s \in DOMAIN fs : fs[s].size = 1
    PROVE  IsFiniteSet(DOMAIN fs) /\ Q!TotalBytes(fs) = Cardinality(DOMAIN fs)
<1> DEFINE sizes == [q \in DOMAIN fs |-> fs[q].size]
<1>1. IsFiniteSet(1 .. MaxSequence)
  BY DeliveryAssumption, FS_Interval
<1>2. IsFiniteSet(DOMAIN fs)
  BY <1>1, FS_Subset
<1>3. DOMAIN sizes = DOMAIN fs /\ \A s \in DOMAIN fs : sizes[s] = 1
  OBVIOUS
<1> HIDE DEF sizes
<1>4. Q!SumFunctionOnSet(sizes, DOMAIN sizes) = Cardinality(DOMAIN fs)
  BY <1>2, <1>3, SumOfOnes
<1> QED
  BY <1>2, <1>4 DEF Q!TotalBytes, Q!SumFunction, sizes

(* The buffer counts its entries the same way. *)
LEMMA SameCardinality == \A S : Q!Cardinality(S) = Cardinality(S)
BY DEF Q!Cardinality, Cardinality

(* Removing entries keeps a buffer within its limits. *)
LEMMA RemoveKeepsLimits ==
    ASSUME Q!TypeOK, Q!TypeOK', Queued' \subseteq Queued, limits' = limits,
           ~Q!OverLimits(files, limits)
    PROVE  ~Q!OverLimits(files, limits)'
<1>1. /\ IsFiniteSet(DOMAIN files) /\ Q!TotalBytes(files) = Cardinality(DOMAIN files)
      /\ IsFiniteSet(DOMAIN files') /\ Q!TotalBytes(files') = Cardinality(DOMAIN files')
  <2>1. /\ DOMAIN files \in SUBSET (1 .. MaxSequence)
        /\ \A s \in DOMAIN files : files[s].size = 1
        /\ DOMAIN files' \in SUBSET (1 .. MaxSequence)
        /\ \A s \in DOMAIN files' : files'[s].size = 1
    BY DEF Q!TypeOK, Q!Queued, Heartbeats
  <2> QED
    BY <2>1, BytesAreEntries
<1>2. Cardinality(DOMAIN files') <= Cardinality(DOMAIN files)
  BY <1>1, FS_Subset DEF Queued
<1>3. Cardinality(DOMAIN files) \in Nat /\ Cardinality(DOMAIN files') \in Nat
  BY <1>1, FS_CardinalityType
<1>4. limits.samples \in Nat /\ limits.bytes \in Nat
  BY DEF Q!TypeOK, Q!Limits
<1> HIDE DEF Q!TotalBytes
<1>5. ~(Cardinality(DOMAIN files') > limits.samples) /\ ~(Q!TotalBytes(files') > limits.bytes)
  <2>1. /\ ~(Cardinality(DOMAIN files) > limits.samples)
        /\ ~(Q!TotalBytes(files) > limits.bytes)
    BY SameCardinality DEF Q!OverLimits
  <2> QED
    BY <1>1, <1>2, <1>3, <1>4, <2>1
<1> QED
  BY <1>5, SameCardinality DEF Q!OverLimits

(* Whatever enforces the limits leaves the buffer within a contract's. *)
LEMMA LimitsAreKeptStep == DeliveryCore /\ [Next]_vars => LimitsAreKept'
<1> SUFFICES ASSUME DeliveryCore, [Next]_vars PROVE LimitsAreKept'
  OBVIOUS
<1>1. Q!TypeOK /\ Q!TypeOK'
  BY BufferTypedStep DEF DeliveryCore, TypeOK
<1>2. CASE Start \/ Stop \/ ContractFails
  BY <1>2 DEF Start, Stop, ContractFails, LimitsAreKept
<1>3. CASE Contract
  BY <1>3 DEF Contract, Q!SetLimits, LimitsAreKept
<1>4. CASE Evict
  BY <1>4 DEF Evict, Q!EvictOldest, agentVars, DeliveryCore, LimitsAreKept
<1>5. CASE EnforceFails
  BY <1>5 DEF EnforceFails, Q!EnforceFails, DeliveryCore, LimitsAreKept
<1>6. CASE LimitsApplied \/ Added
  BY <1>6 DEF LimitsApplied, Added, Q!CountDropped, Q!OverLimits, DeliveryCore, LimitsAreKept
<1>7. CASE Build
  BY <1>7 DEF Build, Q!Add, Q!AddRefused, Q!AddUnread, Q!queueVars, queueVars, DeliveryCore,
    LimitsAreKept
<1>8. CASE Collect \/ Flush \/ Send \/ FlushDone \/ Acknowledged \/ Revoked \/ Failed \/ Timeout
  BY <1>8 DEF Collect, Flush, Send, FlushDone, Acknowledged, Revoked, Failed, Timeout,
    FlushReturns, queueVars, DeliveryCore, LimitsAreKept
<1>9. CASE Remove
  <2>1. pc = "remove" /\ limits' = limits /\ Queued' \subseteq Queued
        /\ pc' \in {"ack", "tick"}
    BY <1>9 DEF Remove, FlushReturns, Q!Remove, Q!Without, queueVars, Queued
  <2>2. ~Q!OverLimits(files, limits)'
    BY <1>1, <2>1, RemoveKeepsLimits DEF DeliveryCore, LimitsAreKept
  <2> QED
    BY <2>1, <2>2 DEF DeliveryCore, LimitsAreKept
<1>10. CASE AcknowledgeDropped
  BY <1>10 DEF AcknowledgeDropped, FlushReturns, Q!AcknowledgeDropped, queueVars,
    DeliveryCore, LimitsAreKept
<1>11. CASE SnapshotChecked \/ SnapshotSent \/ SnapshotReturns \/ LateArrives \/ Revoke
  BY <1>11 DEF SnapshotChecked, SnapshotSent, SnapshotReturns, LateArrives, Revoke, queueVars,
    agentVars, DeliveryCore, LimitsAreKept
<1>12. ASSUME NEW e \in Endpoints,
             ServerAccepts(e) \/ ServerSeesReplay(e) \/ ServerSeesRevoked(e) \/ ServerFails(e)
      PROVE  LimitsAreKept'
  BY <1>12 DEF ServerAccepts, ServerSeesReplay, ServerSeesRevoked, ServerFails, Answer,
    queueVars, agentVars, DeliveryCore, LimitsAreKept
<1>13. CASE UNCHANGED vars
  BY <1>13 DEF vars, DeliveryCore, LimitsAreKept
<1> QED
  BY <1>2, <1>3, <1>4, <1>5, <1>6, <1>7, <1>8, <1>9, <1>10, <1>11, <1>12, <1>13
     DEF Next, MainStep, SnapshotStep, ServerStep, CollectExhausted

(* The dormant state follows a revocation, and nothing follows it. *)
LEMMA DormantIsKnownStep == DeliveryCore /\ [Next]_vars => DormantIsKnown'
<1> SUFFICES ASSUME DeliveryCore, [Next]_vars PROVE DormantIsKnown'
  OBVIOUS
<1> USE DEF DeliveryCore, TypeOK, DormantIsKnown, DormantMeansSilent
<1>1. CASE Start \/ Stop \/ Contract \/ ContractFails
  BY <1>1 DEF Start, Stop, Contract, ContractFails, Endpoints, NoRequest, networkVars,
    serverVars
<1>2. CASE Evict \/ EnforceFails \/ LimitsApplied \/ Added \/ Collect \/ Build
  BY <1>2 DEF Evict, EnforceFails, LimitsApplied, Added, Collect, Build, agentVars,
    networkVars, serverVars
<1>3. CASE Flush \/ FlushDone
  BY <1>3 DEF Flush, FlushDone, networkVars, serverVars
<1>4. CASE Send
  BY <1>4 DEF Send, NetworkTyped, Endpoints, serverVars
<1>5. CASE Acknowledged \/ Failed \/ Timeout
  BY <1>5 DEF Acknowledged, Failed, Timeout, FlushReturns, NetworkTyped, Endpoints, NoRequest,
    serverVars
<1>6. CASE Revoked
  BY <1>6 DEF Revoked, FlushReturns, NetworkTyped, Endpoints, NoRequest, serverVars
<1>7. CASE Remove \/ AcknowledgeDropped
  BY <1>7 DEF Remove, AcknowledgeDropped, FlushReturns, NetworkTyped, Endpoints, NoRequest,
    serverVars
<1>8. CASE SnapshotChecked \/ SnapshotSent \/ SnapshotReturns
  BY <1>8 DEF SnapshotChecked, SnapshotSent, SnapshotReturns, NetworkTyped, Endpoints,
    agentVars, networkVars, serverVars
<1>9. CASE LateArrives \/ Revoke
  BY <1>9 DEF LateArrives, Revoke, Accept, agentVars, networkVars, serverVars
<1>10. ASSUME NEW e \in Endpoints,
             ServerAccepts(e) \/ ServerSeesReplay(e) \/ ServerSeesRevoked(e) \/ ServerFails(e)
      PROVE  DormantIsKnown'
  BY <1>10 DEF ServerAccepts, ServerSeesReplay, ServerSeesRevoked, ServerFails, Accept, Answer,
    NetworkTyped, RequestType, Endpoints, agentVars, serverVars
<1>11. CASE UNCHANGED vars
  BY <1>11 DEF vars
<1> QED
  BY <1>1, <1>2, <1>3, <1>4, <1>5, <1>6, <1>7, <1>8, <1>9, <1>10, <1>11
     DEF Next, MainStep, SnapshotStep, ServerStep, CollectExhausted

(* The initial state satisfies it. *)
LEMMA CoreInit == Init => DeliveryCore
<1> SUFFICES ASSUME Init PROVE DeliveryCore
  OBVIOUS
<1> USE DeliveryAssumption
<1>1. files = <<>> /\ committed = {}
  BY DEF Init, Q!Init
<1>2. /\ pc = "off" /\ running = FALSE /\ phase = "closed"
      /\ dormant = FALSE /\ request["heartbeat"] = NoRequest
  BY DEF Init, Q!Init, Endpoints
<1>3. IdentityTyped
  <2>1. disk \in I!Persisted /\ mem = disk
    BY DEF Init, I!Persisted, I!NoDevice
  <2>2. issued \in Seq(1 .. MaxSequence)
    <3>1. issued = <<>>
      BY DEF Init
    <3> QED
      BY <3>1
  <2>3. running \in BOOLEAN
    BY <1>2
  <2> QED
    BY <2>1, <2>2, <2>3 DEF IdentityTyped
<1>4. Q!TypeOK
  BY <1>1 DEF Init, Q!Init, Q!TypeOK, Q!Queued, Limits, Q!Limits
<1>5. AgentTyped
  <2>1. dormant \in BOOLEAN /\ disturbed \in BOOLEAN /\ submitting \in BOOLEAN
    BY Zenon DEF Init
  <2>2. cur \in 0 .. MaxSequence /\ entries \in SUBSET (1 .. MaxSequence)
    BY DEF Init
  <2> QED
    BY <1>2, <2>1, <2>2 DEF AgentTyped
<1>6. NetworkTyped
  BY NoRequestTyped DEF Init, NetworkTyped
<1>7. ServerTyped
  <2>1. revoked \in BOOLEAN
    BY Zenon DEF Init
  <2>2. /\ committed \in SUBSET (1 .. MaxSequence) /\ known \in Nat
        /\ high \in [Endpoints -> 0 .. MaxSequence]
    BY DEF Init
  <2> QED
    BY <2>1, <2>2 DEF ServerTyped
<1>8. StagesAgree
  BY <1>2 DEF StagesAgree, NoRequest
<1>9. FlushInOrder /\ LimitsAreKept /\ DormantIsKnown
  BY <1>2 DEF FlushInOrder, LimitsAreKept, DormantIsKnown, DormantMeansSilent, NoRequest
<1> QED
  BY <1>3, <1>4, <1>5, <1>6, <1>7, <1>8, <1>9 DEF DeliveryCore, TypeOK

(***************************************************************************)
(* What the agent keeps whatever the application's replay window is.       *)
(***************************************************************************)
THEOREM CoreInvariance == Spec => []DeliveryCore
<1>1. DeliveryCore /\ [Next]_vars => DeliveryCore'
  BY IdentityTypedStep, BufferTypedStep, AgentTypedStep, NetworkTypedStep, ServerTypedStep,
     StagesAgreeStep, FlushInOrderStep, LimitsAreKeptStep, DormantIsKnownStep
     DEF DeliveryCore, TypeOK
<1> QED
  BY <1>1, CoreInit, PTL DEF Spec

(* Every variable has the shape of the code's state (Agent, Queue).        *)
THEOREM DeliveryTypeCorrect == Spec => []TypeOK
<1>1. DeliveryCore => TypeOK
  BY DEF DeliveryCore
<1> QED
  BY <1>1, CoreInvariance, PTL

(***************************************************************************)
(* The dormant file exists only when the application revoked the           *)
(* registration (recordDormant), and Run neither collects nor sends once   *)
(* it does, in this process or after a restart.                            *)
(***************************************************************************)
THEOREM DormantIsSilent == Spec => []DormantMeansSilent
<1>1. DeliveryCore => DormantMeansSilent
  BY DEF DeliveryCore, DormantIsKnown
<1> QED
  BY <1>1, CoreInvariance, PTL

(***************************************************************************)
(* A Flush works on a buffer within the limits of a contract, whatever     *)
(* failed between SetLimits, Add and the evictions they ask for, and       *)
(* although Open enforces nothing and starts from the default limits.      *)
(***************************************************************************)
THEOREM FlushIsBounded == Spec => []BufferIsBounded
<1>1. DeliveryCore => BufferIsBounded
  BY DEF DeliveryCore, LimitsAreKept, BufferIsBounded
<1> QED
  BY <1>1, CoreInvariance, PTL

-----------------------------------------------------------------------------

LEMMA UsedIsTyped == ASSUME TypeOK PROVE Used \subseteq Nat
BY DeliveryAssumption DEF TypeOK, Q!TypeOK, Q!Queued, ServerTyped, Used, Queued

(* Storing heartbeats that were once queued uses no new number. *)
LEMMA CommitKeepsUsed ==
    ASSUME UsedIsReserved, committed' \subseteq Used,
           UNCHANGED <<identityVars, queueVars, agentVars>>
    PROVE  UsedIsReserved'
<1>1. Used' \subseteq Used
  BY DEF Used, Queued, queueVars
<1>2. running' = running /\ mem' = mem /\ disk' = disk /\ pc' = pc /\ cur' = cur
  BY DEF identityVars, agentVars
<1> QED
  BY <1>1, <1>2 DEF UsedIsReserved

(* Every number in use stays covered by the counter. *)
LEMMA UsedIsReservedStep == DeliveryInv /\ [Next]_vars => UsedIsReserved'
<1> SUFFICES ASSUME DeliveryInv, [Next]_vars PROVE UsedIsReserved'
  OBVIOUS
<1> USE DeliveryAssumption, ActivatedFile, LostIsFinite DEF DeliveryInv, DeliveryCore, TypeOK
<1>1. CASE Start
  <2>1. mem' = disk /\ disk' = disk /\ pc' # "build"
    BY <1>1 DEF Start, I!LoadOrCreate, IdentityTyped
  <2>2. Used' = Used
    BY <1>1 DEF Start, Q!Open, serverVars, Used, Queued
  <2>3. disk.sequence \in Nat
    BY DEF IdentityTyped, I!Persisted
  <2> QED
    BY <2>1, <2>2, <2>3 DEF UsedIsReserved
<1>2. CASE Stop
  <2>1. Used' = Used /\ pc' # "build"
    BY <1>2 DEF Stop, Q!Crash, serverVars, Used, Queued
  <2>2. /\ running' = FALSE
        /\ \/ disk' = disk
           \/ running /\ mem.sequence \in Nat /\ disk'.sequence = mem.sequence + 1
    BY <1>2, Stopping
  <2>3. Used \subseteq Nat
    BY UsedIsTyped
  <2> QED
    BY <2>1, <2>2, <2>3 DEF UsedIsReserved
<1>3. CASE Collect
  <2>1. PICK outcome \in PersistOutcomes :
          /\ I!ReserveSequence(outcome)
          /\ IF outcome = "ok" THEN pc' = "build" /\ cur' = mem'.sequence
                               ELSE UNCHANGED <<pc, cur>>
    BY <1>3 DEF Collect
  <2>2. Used' = Used /\ pc = "tick"
    BY <1>3 DEF Collect, queueVars, serverVars, Used, Queued
  <2> QED
    BY <2>1, <2>2, Reserving, UsedIsTyped DEF UsedIsReserved, IdentityTyped, I!Persisted
<1>4. CASE SnapshotSent
  <2>1. Used' = Used /\ pc' = pc /\ cur' = cur
    BY <1>4 DEF SnapshotSent, queueVars, agentVars, serverVars, Used, Queued
  <2>2. CASE UNCHANGED identityVars
    BY <2>1, <2>2 DEF identityVars, UsedIsReserved
  <2>3. ASSUME NEW outcome \in PersistOutcomes, I!ReserveSequence(outcome)
        PROVE  UsedIsReserved'
    BY <2>1, <2>3, Reserving, UsedIsTyped
       DEF UsedIsReserved, IdentityTyped, I!Persisted, AgentTyped
  <2> QED
    BY <1>4, <2>2, <2>3 DEF SnapshotSent
<1>5. CASE Evict
  BY <1>5 DEF Evict, Q!EvictOldest, Q!Without, Q!Queued, identityVars, agentVars,
    serverVars, UsedIsReserved, Used, Queued
<1>6. CASE Build
  BY <1>6 DEF Build, Q!Add, Q!AddRefused, Q!AddUnread, Q!With, Q!Queued, Q!queueVars,
    AgentTyped, IdentityTyped, I!Persisted, StagesAgree, UsedIsReserved, Used, Queued,
    identityVars, queueVars, agentVars, serverVars
<1>7. CASE Remove \/ AcknowledgeDropped
  BY <1>7 DEF Remove, AcknowledgeDropped, FlushReturns, Q!Remove, Q!Without,
    Q!AcknowledgeDropped, UsedIsReserved, Used, Queued, identityVars, queueVars, agentVars,
    serverVars
<1>8. CASE Contract \/ ContractFails \/ EnforceFails \/ LimitsApplied \/ Added
  BY <1>8 DEF Contract, ContractFails, EnforceFails, LimitsApplied, Added, Q!SetLimits,
    Q!EnforceFails, Q!CountDropped, UsedIsReserved, Used, Queued, identityVars, queueVars,
    agentVars, serverVars
<1>9. CASE Flush \/ Send \/ FlushDone \/ Acknowledged \/ Revoked \/ Failed \/ Timeout
  BY <1>9 DEF Flush, Send, FlushDone, Acknowledged, Revoked, Failed, Timeout, FlushReturns,
    UsedIsReserved, Used, Queued, identityVars, queueVars, agentVars, serverVars
<1>10. CASE SnapshotChecked \/ SnapshotReturns \/ Revoke
  BY <1>10 DEF SnapshotChecked, SnapshotReturns, Revoke, UsedIsReserved, Used, Queued,
    identityVars, queueVars, agentVars, serverVars
<1>11. CASE LateArrives
  <2>1. committed' \subseteq Used
    <3>1. PICK r \in late : \/ Accept(r.endpoint, r.sequence, r.covers)
                           \/ UNCHANGED serverVars
      BY <1>11 DEF LateArrives
    <3> QED
      BY <3>1 DEF Accept, serverVars, LateInOrder, Used
  <2>2. UNCHANGED <<identityVars, queueVars, agentVars>>
    BY <1>11 DEF LateArrives
  <2> QED
    BY <2>1, <2>2, CommitKeepsUsed
<1>12. ASSUME NEW e \in Endpoints, ServerAccepts(e)
      PROVE  UsedIsReserved'
  <2>1. committed' \subseteq Used
    <3>1. e = "heartbeat" => pc = "await"
      BY <1>12 DEF ServerAccepts, Answer, StagesAgree
    <3> QED
      BY <1>12, <3>1 DEF ServerAccepts, Accept, FlushInOrder, Q!IsOldest, Used
  <2>2. UNCHANGED <<identityVars, queueVars, agentVars>>
    BY <1>12 DEF ServerAccepts, Answer
  <2> QED
    BY <2>1, <2>2, CommitKeepsUsed
<1>13. ASSUME NEW e \in Endpoints,
             ServerSeesReplay(e) \/ ServerSeesRevoked(e) \/ ServerFails(e)
      PROVE  UsedIsReserved'
  BY <1>13 DEF ServerSeesReplay, ServerSeesRevoked, ServerFails, Answer, UsedIsReserved,
    Used, Queued, identityVars, queueVars, agentVars, serverVars
<1>14. CASE UNCHANGED vars
  BY <1>14 DEF vars, UsedIsReserved, Used, Queued
<1> QED
  BY <1>1, <1>2, <1>3, <1>4, <1>5, <1>6, <1>7, <1>8, <1>9, <1>10, <1>11, <1>12,
     <1>13, <1>14
     DEF Next, MainStep, SnapshotStep, ServerStep, CollectExhausted

(* Accepting a number keeps the window exact if nothing queued is below it. *)
LEMMA AcceptKeepsWindow ==
    ASSUME WindowIsCommitted, ServerTyped, Q!TypeOK, ~SharedWindow,
           NEW e \in Endpoints, NEW s \in Nat, NEW covers,
           Accept(e, s, covers), Queued' = Queued,
           e = "heartbeat" => \A q \in Queued : s <= q
    PROVE  WindowIsCommitted'
BY DeliveryAssumption
   DEF WindowIsCommitted, Accept, Window, ServerTyped, Endpoints, Queued, Q!TypeOK, Q!Queued

(* A number the application refuses as a replay stays one it has stored. *)
LEMMA WindowIsCommittedStep == DeliveryInv /\ ~SharedWindow /\ [Next]_vars => WindowIsCommitted'
<1> SUFFICES ASSUME DeliveryInv, ~SharedWindow, [Next]_vars PROVE WindowIsCommitted'
  OBVIOUS
<1> USE DeliveryAssumption, ActivatedFile, LostIsFinite DEF DeliveryInv, DeliveryCore, TypeOK
<1>1. CASE Build
  <2>1. committed' = committed /\ high' = high
    BY <1>1 DEF Build, serverVars
  <2>2. Queued' = Queued \/ Queued' = Queued \cup {cur}
    BY <1>1 DEF Build, Q!Add, Q!AddRefused, Q!AddUnread, Q!With, Q!queueVars, queueVars, Queued
  <2>3. \A s \in committed : s < cur
    BY <1>1 DEF Build, UsedIsReserved, Used
  <2>4. high["heartbeat"] # 0 => high["heartbeat"] \in committed
    BY DEF WindowIsCommitted
  <2>5. cur > 0 /\ cur \in Nat /\ high["heartbeat"] \in Nat
    BY <1>1 DEF Build, StagesAgree, AgentTyped, ServerTyped, Endpoints
  <2>6. high["heartbeat"] < cur
    BY <2>3, <2>4, <2>5
  <2> QED
    BY <2>1, <2>2, <2>5, <2>6 DEF WindowIsCommitted
<1>2. CASE LateArrives
  <2>1. PICK r \in late : \/ Accept(r.endpoint, r.sequence, r.covers)
                         \/ UNCHANGED serverVars
    BY <1>2 DEF LateArrives
  <2>2. Queued' = Queued
    BY <1>2 DEF LateArrives, queueVars, Queued
  <2>3. r.endpoint = "heartbeat" => \A q \in Queued : r.sequence <= q
    BY DEF LateInOrder
  <2>4. r.endpoint \in Endpoints /\ r.sequence \in Nat
    BY DEF NetworkTyped, LateType
  <2> QED
    BY <2>1, <2>2, <2>3, <2>4, AcceptKeepsWindow DEF serverVars, WindowIsCommitted
<1>3. ASSUME NEW e \in Endpoints, ServerAccepts(e)
      PROVE  WindowIsCommitted'
  <2>1. e = "heartbeat" => \A q \in Queued : request[e].sequence <= q
    BY <1>3 DEF ServerAccepts, Answer, StagesAgree, FlushInOrder, Q!IsOldest, NetworkTyped,
              RequestType, Queued, Q!TypeOK, Q!Queued
  <2>2. Queued' = Queued
    BY <1>3 DEF ServerAccepts, Answer, queueVars, Queued
  <2>3. request[e].sequence \in Nat
    BY <1>3 DEF NetworkTyped, RequestType
  <2> QED
    BY <1>3, <2>1, <2>2, <2>3, AcceptKeepsWindow DEF ServerAccepts
<1>4. CASE Start \/ Stop \/ Contract \/ ContractFails
  BY <1>4 DEF Start, Stop, Contract, ContractFails, Q!Open, Q!Crash, Q!SetLimits, queueVars,
    serverVars, WindowIsCommitted, Queued
<1>5. CASE Evict
  BY <1>5 DEF Evict, Q!EvictOldest, Q!Without, serverVars, WindowIsCommitted, Queued
<1>6. CASE Remove \/ AcknowledgeDropped
  BY <1>6 DEF Remove, AcknowledgeDropped, Q!Remove, Q!Without, Q!AcknowledgeDropped,
    queueVars, serverVars, WindowIsCommitted, Queued
<1>7. CASE EnforceFails \/ LimitsApplied \/ Added \/ Collect
  BY <1>7 DEF EnforceFails, LimitsApplied, Added, Collect, Q!EnforceFails, Q!CountDropped,
    queueVars, serverVars, WindowIsCommitted, Queued
<1>8. CASE Flush \/ Send \/ FlushDone \/ Acknowledged \/ Revoked \/ Failed \/ Timeout
  BY <1>8 DEF Flush, Send, FlushDone, Acknowledged, Revoked, Failed, Timeout, queueVars,
    serverVars, WindowIsCommitted, Queued
<1>9. CASE SnapshotChecked \/ SnapshotSent \/ SnapshotReturns \/ Revoke
  BY <1>9 DEF SnapshotChecked, SnapshotSent, SnapshotReturns, Revoke, queueVars, serverVars,
    WindowIsCommitted, Queued
<1>10. ASSUME NEW e \in Endpoints,
             ServerSeesReplay(e) \/ ServerSeesRevoked(e) \/ ServerFails(e)
      PROVE  WindowIsCommitted'
  BY <1>10 DEF ServerSeesReplay, ServerSeesRevoked, ServerFails, Answer, queueVars,
    serverVars, WindowIsCommitted, Queued
<1>11. CASE UNCHANGED vars
  BY <1>11 DEF vars, WindowIsCommitted, Queued
<1> QED
  BY <1>1, <1>2, <1>3, <1>4, <1>5, <1>6, <1>7, <1>8, <1>9, <1>10, <1>11
     DEF Next, MainStep, SnapshotStep, ServerStep, CollectExhausted

(* Flush removes only entries the application has stored. *)
LEMMA RemovesTheCommittedStep ==
    DeliveryInv /\ ~SharedWindow /\ [Next]_vars => RemovesTheCommitted'
<1> SUFFICES ASSUME DeliveryInv, ~SharedWindow, [Next]_vars PROVE RemovesTheCommitted'
  OBVIOUS
<1> USE DeliveryAssumption DEF DeliveryInv, DeliveryCore, TypeOK
<1>1. CASE Start \/ Stop \/ Contract \/ ContractFails \/ EnforceFails \/ LimitsApplied \/
           Added \/ Collect \/ Build \/ Flush \/ FlushDone
  BY <1>1 DEF Start, Stop, Contract, ContractFails, EnforceFails, LimitsApplied, Added,
    Collect, Build, Flush, FlushDone, RemovesTheCommitted
<1>2. CASE Evict
  BY <1>2 DEF Evict, agentVars, networkVars, serverVars, RemovesTheCommitted
<1>3. CASE Send
  BY <1>3 DEF Send, NetworkTyped, Endpoints, RemovesTheCommitted
<1>4. CASE Acknowledged \/ Revoked \/ Failed \/ Timeout
  BY <1>4 DEF Acknowledged, Revoked, Failed, Timeout, FlushReturns, serverVars,
    RemovesTheCommitted
<1>5. CASE Remove \/ AcknowledgeDropped
  BY <1>5 DEF Remove, AcknowledgeDropped, FlushReturns, RemovesTheCommitted
<1>6. CASE SnapshotChecked \/ SnapshotSent \/ SnapshotReturns
  BY <1>6 DEF SnapshotChecked, SnapshotSent, SnapshotReturns, NetworkTyped, Endpoints,
    agentVars, networkVars, serverVars, RemovesTheCommitted
<1>7. CASE LateArrives \/ Revoke
  BY <1>7 DEF LateArrives, Revoke, Accept, agentVars, networkVars, serverVars,
    RemovesTheCommitted
<1>8. ASSUME NEW e \in Endpoints, ServerAccepts(e)
      PROVE  RemovesTheCommitted'
  BY <1>8 DEF ServerAccepts, Accept, Answer, NetworkTyped, RequestType, Endpoints, StagesAgree,
    agentVars, RemovesTheCommitted
<1>9. ASSUME NEW e \in Endpoints, ServerSeesReplay(e)
      PROVE  RemovesTheCommitted'
  BY <1>9 DEF ServerSeesReplay, Window, Answer, NetworkTyped, RequestType, Endpoints,
    StagesAgree, WindowIsCommitted, FlushInOrder, Q!IsOldest, Queued, agentVars, serverVars,
    RemovesTheCommitted
<1>10. ASSUME NEW e \in Endpoints, ServerSeesRevoked(e) \/ ServerFails(e)
      PROVE  RemovesTheCommitted'
  BY <1>10 DEF ServerSeesRevoked, ServerFails, Answer, NetworkTyped, RequestType, Endpoints,
    StagesAgree, agentVars, serverVars, RemovesTheCommitted
<1>11. CASE UNCHANGED vars
  BY <1>11 DEF vars, RemovesTheCommitted
<1> QED
  BY <1>1, <1>2, <1>3, <1>4, <1>5, <1>6, <1>7, <1>8, <1>9, <1>10, <1>11
     DEF Next, MainStep, SnapshotStep, ServerStep, CollectExhausted

(* Heartbeats still under way skip nothing that is queued. *)
LEMMA LateInOrderStep == DeliveryInv /\ [Next]_vars => LateInOrder'
<1> SUFFICES ASSUME DeliveryInv, [Next]_vars PROVE LateInOrder'
  OBVIOUS
<1> USE DeliveryAssumption, ActivatedFile, LostIsFinite DEF DeliveryInv, DeliveryCore, TypeOK
<1>1. CASE Stop
  BY <1>1 DEF Stop, Q!Crash, serverVars, StagesAgree, FlushInOrder, Q!IsOldest,
    NetworkTyped, RequestType, Endpoints, Q!TypeOK, Q!Queued, LateInOrder, Used, Queued
<1>2. CASE Timeout
  BY <1>2 DEF Timeout, Abandoned, queueVars, serverVars, StagesAgree, FlushInOrder,
    Q!IsOldest, NetworkTyped, RequestType, Endpoints, Q!TypeOK, Q!Queued, LateInOrder, Used,
    Queued
<1>3. CASE Build
  <2>1. committed' = committed /\ lost' = lost /\ late' = late
    BY <1>3 DEF Build, Q!Add, Q!AddRefused, Q!AddUnread, Q!queueVars, queueVars, serverVars,
              networkVars
  <2>2. Queued' = Queued \/ Queued' = Queued \cup {cur}
    BY <1>3 DEF Build, Q!Add, Q!AddRefused, Q!AddUnread, Q!With, Q!queueVars, queueVars, Queued
  <2>3. cur \in Nat /\ \A s \in Used : s < cur /\ s \in Nat
    BY <1>3, UsedIsTyped DEF Build, UsedIsReserved, AgentTyped
  <2> QED
    BY <2>1, <2>2, <2>3 DEF LateInOrder, Used
<1>4. CASE Evict
  BY <1>4 DEF Evict, Q!EvictOldest, Q!Without, serverVars, networkVars, LateInOrder, Used,
    Queued
<1>5. CASE Remove
  BY <1>5 DEF Remove, Q!Remove, Q!Without, queueVars, serverVars, RemovesTheCommitted,
    LateInOrder, Used, Queued
<1>6. CASE Start \/ Contract \/ ContractFails \/ EnforceFails \/ LimitsApplied \/ Added
  BY <1>6 DEF Start, Contract, ContractFails, EnforceFails, LimitsApplied, Added, Q!Open,
    Q!SetLimits, Q!EnforceFails, Q!CountDropped, queueVars, serverVars, networkVars,
    LateInOrder, Used, Queued
<1>7. CASE Collect \/ Flush \/ Send \/ FlushDone \/ Acknowledged \/ Revoked \/ Failed
  BY <1>7 DEF Collect, Flush, Send, FlushDone, Acknowledged, Revoked, Failed, queueVars,
    serverVars, networkVars, LateInOrder, Used, Queued
<1>8. CASE AcknowledgeDropped \/ SnapshotChecked \/ SnapshotSent \/ Revoke
  BY <1>8 DEF AcknowledgeDropped, Q!AcknowledgeDropped, SnapshotChecked, SnapshotSent,
    Revoke, queueVars, serverVars, networkVars, LateInOrder, Used, Queued
<1>9. CASE SnapshotReturns
  BY <1>9 DEF SnapshotReturns, Abandoned, queueVars, serverVars, LateInOrder, Used, Queued
<1>10. CASE LateArrives
  BY <1>10 DEF LateArrives, Accept, queueVars, serverVars, LateInOrder, Used, Queued
<1>11. ASSUME NEW e \in Endpoints,
             ServerAccepts(e) \/ ServerSeesReplay(e) \/ ServerSeesRevoked(e) \/ ServerFails(e)
      PROVE  LateInOrder'
  BY <1>11 DEF ServerAccepts, ServerSeesReplay, ServerSeesRevoked, ServerFails, Accept,
    Answer, queueVars, serverVars, LateInOrder, Used, Queued
<1>12. CASE UNCHANGED vars
  BY <1>12 DEF vars, LateInOrder, Used, Queued
<1> QED
  BY <1>1, <1>2, <1>3, <1>4, <1>5, <1>6, <1>7, <1>8, <1>9, <1>10, <1>11, <1>12
     DEF Next, MainStep, SnapshotStep, ServerStep, CollectExhausted

(* Only the oldest entry can be one the application already has. *)
LEMMA OldestStep == DeliveryInv /\ [Next]_vars => OnlyTheOldestIsResent'
<1> SUFFICES ASSUME DeliveryInv, [Next]_vars PROVE OnlyTheOldestIsResent'
  OBVIOUS
<1> USE DeliveryAssumption, ActivatedFile, LostIsFinite DEF DeliveryInv, DeliveryCore, TypeOK
<1>1. CASE Build
  <2>1. committed' = committed
    BY <1>1 DEF Build, serverVars
  <2>2. Queued' = Queued \/ Queued' = Queued \cup {cur}
    BY <1>1 DEF Build, Q!Add, Q!AddRefused, Q!AddUnread, Q!With, Q!queueVars, queueVars, Queued
  <2>3. cur \in Nat /\ \A s \in Used : s < cur /\ s \in Nat
    BY <1>1, UsedIsTyped DEF Build, UsedIsReserved, AgentTyped
  <2> QED
    BY <2>1, <2>2, <2>3 DEF OnlyTheOldestIsResent, Q!IsOldest, Used
<1>2. CASE LateArrives
  BY <1>2 DEF LateArrives, Accept, LateInOrder, queueVars, serverVars,
    OnlyTheOldestIsResent, Q!IsOldest, Queued
<1>3. ASSUME NEW e \in Endpoints, ServerAccepts(e)
      PROVE  OnlyTheOldestIsResent'
  BY <1>3 DEF ServerAccepts, Accept, Answer, StagesAgree, FlushInOrder, queueVars,
    OnlyTheOldestIsResent, Q!IsOldest, Queued
<1>4. CASE Start \/ Stop \/ Contract \/ ContractFails
  BY <1>4 DEF Start, Stop, Contract, ContractFails, Q!Open, Q!Crash, Q!SetLimits, queueVars,
    serverVars, OnlyTheOldestIsResent, Q!IsOldest, Queued
<1>5. CASE Evict
  BY <1>5 DEF Evict, Q!EvictOldest, Q!Without, serverVars, OnlyTheOldestIsResent,
    Q!IsOldest, Queued
<1>6. CASE Remove \/ AcknowledgeDropped
  BY <1>6 DEF Remove, AcknowledgeDropped, Q!Remove, Q!Without, Q!AcknowledgeDropped,
    queueVars, serverVars, OnlyTheOldestIsResent, Q!IsOldest, Queued
<1>7. CASE EnforceFails \/ LimitsApplied \/ Added \/ Collect
  BY <1>7 DEF EnforceFails, LimitsApplied, Added, Collect, Q!EnforceFails, Q!CountDropped,
    queueVars, serverVars, OnlyTheOldestIsResent, Q!IsOldest, Queued
<1>8. CASE Flush \/ Send \/ FlushDone \/ Acknowledged \/ Revoked \/ Failed \/ Timeout
  BY <1>8 DEF Flush, Send, FlushDone, Acknowledged, Revoked, Failed, Timeout, queueVars,
    serverVars, OnlyTheOldestIsResent, Q!IsOldest, Queued
<1>9. CASE SnapshotChecked \/ SnapshotSent \/ SnapshotReturns \/ Revoke
  BY <1>9 DEF SnapshotChecked, SnapshotSent, SnapshotReturns, Revoke, queueVars, serverVars,
    OnlyTheOldestIsResent, Q!IsOldest, Queued
<1>10. ASSUME NEW e \in Endpoints,
             ServerSeesReplay(e) \/ ServerSeesRevoked(e) \/ ServerFails(e)
      PROVE  OnlyTheOldestIsResent'
  BY <1>10 DEF ServerSeesReplay, ServerSeesRevoked, ServerFails, Answer, queueVars,
    serverVars, OnlyTheOldestIsResent, Q!IsOldest, Queued
<1>11. CASE UNCHANGED vars
  BY <1>11 DEF vars, OnlyTheOldestIsResent, Q!IsOldest, Queued
<1> QED
  BY <1>1, <1>2, <1>3, <1>4, <1>5, <1>6, <1>7, <1>8, <1>9, <1>10, <1>11
     DEF Next, MainStep, SnapshotStep, ServerStep, CollectExhausted

(* The initial state satisfies the invariant. *)
LEMMA DeliveryInit == Init => DeliveryInv
<1> SUFFICES ASSUME Init PROVE DeliveryInv
  OBVIOUS
<1>1. /\ Queued = {} /\ committed = {} /\ lost = {} /\ late = {} /\ running = FALSE
      /\ pc = "off" /\ high["heartbeat"] = 0
  BY DEF Init, Q!Init, Queued, Endpoints
<1>2. UsedIsReserved /\ WindowIsCommitted /\ RemovesTheCommitted
  BY <1>1 DEF UsedIsReserved, WindowIsCommitted, RemovesTheCommitted, Used
<1>3. LateInOrder /\ OnlyTheOldestIsResent
  BY <1>1 DEF LateInOrder, OnlyTheOldestIsResent
<1> QED
  BY <1>2, <1>3, CoreInit DEF DeliveryInv

LEMMA DeliveryStep == DeliveryInv /\ ~SharedWindow /\ [Next]_vars => DeliveryInv'
BY IdentityTypedStep, BufferTypedStep, AgentTypedStep, NetworkTypedStep, ServerTypedStep,
   StagesAgreeStep, FlushInOrderStep, LimitsAreKeptStep, DormantIsKnownStep,
   UsedIsReservedStep, WindowIsCommittedStep, RemovesTheCommittedStep, LateInOrderStep,
   OldestStep
   DEF DeliveryInv, DeliveryCore, TypeOK

(***************************************************************************)
(* The inductive invariant holds in every reachable state.                 *)
(***************************************************************************)
THEOREM DeliveryInvariance == ASSUME ~SharedWindow PROVE Spec => []DeliveryInv
<1>1. DeliveryInv /\ [Next]_vars => DeliveryInv'
  BY DeliveryStep
<1> QED
  BY <1>1, DeliveryInit, PTL DEF Spec

(***************************************************************************)
(* Flush never deletes, on a 409, a heartbeat the application does not     *)
(* have: with a replay window per endpoint, a queued number at or below    *)
(* the window was stored, through losses, timeouts, late arrivals,         *)
(* evictions, crashes and failed file operations.                          *)
(***************************************************************************)
THEOREM ReplayedMeansStored == ASSUME ~SharedWindow PROVE Spec => []ReplayMeansCommitted
<1>1. DeliveryInv => ReplayMeansCommitted
  BY DEF DeliveryInv, WindowIsCommitted, ReplayMeansCommitted, Window
<1> QED
  BY <1>1, DeliveryInvariance, PTL

(***************************************************************************)
(* At most the oldest queued heartbeat is sent a second time.              *)
(***************************************************************************)
THEOREM OneResend == ASSUME ~SharedWindow PROVE Spec => []OnlyTheOldestIsResent
<1>1. DeliveryInv => OnlyTheOldestIsResent
  BY DEF DeliveryInv
<1> QED
  BY <1>1, DeliveryInvariance, PTL

-----------------------------------------------------------------------------
(* Steps of Delivery as steps of the abstract channel. *)

LEMMA EnqueueStep ==
    ASSUME DeliveryInv, Build PROVE [Channel!Next]_(Channel!channelVars)
<1>1. committed' = committed /\ lost' = lost
  BY DEF Build, Q!Add, Q!AddRefused, Q!AddUnread, Q!queueVars, queueVars, serverVars
<1>2. Queued' = Queued \/ Queued' = Queued \cup {cur}
  BY DEF Build, Q!Add, Q!AddRefused, Q!AddUnread, Q!With, Q!queueVars, queueVars, Queued
<1>3. cur \in 1 .. MaxSequence /\ \A s \in Used : s < cur
  BY DeliveryAssumption DEF Build, DeliveryInv, DeliveryCore, TypeOK, StagesAgree,
    UsedIsReserved, AgentTyped
<1> QED
  BY <1>1, <1>2, <1>3
     DEF Channel!Next, Channel!Enqueue, Channel!channelVars, Used

LEMMA LoseStep ==
    ASSUME DeliveryInv, Evict PROVE Channel!Next
<1>1. PICK s \in Queued : /\ Q!IsOldest(s, Queued)
                          /\ files' = Q!Without(files, s)
                          /\ lost' = lost \cup {s}
  BY DEF Evict, Q!EvictOldest, Queued, Q!Queued
<1>2. Queued' = Queued \ {s} /\ committed' = committed
  BY <1>1 DEF Evict, Q!Without, Queued, serverVars
<1>3. s \in 1 .. MaxSequence
  BY DEF DeliveryInv, DeliveryCore, TypeOK, Q!TypeOK, Q!Queued, Queued
<1> QED
  BY <1>1, <1>2, <1>3 DEF Channel!Next, Channel!Lose, Q!IsOldest

LEMMA RetireStep ==
    ASSUME DeliveryInv, Remove PROVE [Channel!Next]_(Channel!channelVars)
<1> DEFINE s == request["heartbeat"].sequence
<1>1. s \in Queued /\ s \in committed /\ s \in 1 .. MaxSequence
  BY DEF Remove, DeliveryInv, DeliveryCore, FlushInOrder, RemovesTheCommitted, Q!IsOldest,
    TypeOK, Q!TypeOK, Q!Queued, Queued
<1>2. committed' = committed /\ lost' = lost
  BY DEF Remove, Q!Remove, queueVars, serverVars
<1>3. Queued' = Queued \/ Queued' = Queued \ {s}
  BY DEF Remove, Q!Remove, Q!Without, queueVars, Queued
<1> HIDE DEF s
<1> QED
  BY <1>1, <1>2, <1>3 DEF Channel!Next, Channel!Retire, Channel!channelVars

(* Accepting a number that was queued, with nothing queued below it. *)
LEMMA CommitStep ==
    ASSUME DeliveryInv, ~SharedWindow, NEW e \in Endpoints, NEW s \in 0 .. MaxSequence,
           NEW covers, Accept(e, s, covers), UNCHANGED queueVars,
           e = "heartbeat" => s \in Used /\ \A q \in Queued : s <= q
    PROVE  [Channel!Next]_(Channel!channelVars)
<1>1. Queued' = Queued /\ lost' = lost
  BY DEF queueVars, Queued
<1>2. CASE e # "heartbeat"
  BY <1>1, <1>2 DEF Accept, Channel!channelVars
<1>3. CASE e = "heartbeat"
  <2>1. s > high["heartbeat"] /\ committed' = committed \cup {s}
    BY <1>3 DEF Accept, Window
  <2>2. \A q \in committed : q < s
    BY <2>1, DeliveryAssumption
       DEF DeliveryInv, DeliveryCore, TypeOK, WindowIsCommitted, ServerTyped, Endpoints
  <2>3. s \in Queued \cup lost
    BY <1>3, <2>2 DEF Used
  <2>4. \A q \in Queued : ~(q < s)
    BY <1>3, DeliveryAssumption DEF DeliveryInv, DeliveryCore, TypeOK, Q!TypeOK, Q!Queued, Queued
  <2>5. s \in 1 .. MaxSequence
    BY <2>3 DEF DeliveryInv, DeliveryCore, TypeOK, Q!TypeOK, Q!Queued, Queued
  <2> QED
    BY <1>1, <2>1, <2>2, <2>3, <2>4, <2>5 DEF Channel!Next, Channel!Commit
<1> QED
  BY <1>2, <1>3

LEMMA ChannelStep ==
    DeliveryInv /\ ~SharedWindow /\ [Next]_vars => [Channel!Next]_(Channel!channelVars)
<1> SUFFICES ASSUME DeliveryInv, ~SharedWindow, [Next]_vars
             PROVE  [Channel!Next]_(Channel!channelVars)
  OBVIOUS
<1>1. CASE Build
  BY <1>1, EnqueueStep
<1>2. CASE Evict
  BY <1>2, LoseStep
<1>3. CASE Remove
  BY <1>3, RetireStep
<1>4. ASSUME NEW e \in Endpoints, ServerAccepts(e)
      PROVE  [Channel!Next]_(Channel!channelVars)
  <2>1. UNCHANGED queueVars /\ Accept(e, request[e].sequence, request[e].body.covers)
    BY <1>4 DEF ServerAccepts, Answer
  <2>2. request[e].sequence \in 0 .. MaxSequence
    BY DEF DeliveryInv, DeliveryCore, TypeOK, NetworkTyped, RequestType
  <2>3. e = "heartbeat" => /\ request[e].sequence \in Used
                           /\ \A q \in Queued : request[e].sequence <= q
    BY <1>4 DEF ServerAccepts, Answer, DeliveryInv, DeliveryCore, StagesAgree, FlushInOrder,
      Q!IsOldest, Used
  <2> QED
    BY <2>1, <2>2, <2>3, CommitStep
<1>5. CASE LateArrives
  <2>1. PICK r \in late : \/ Accept(r.endpoint, r.sequence, r.covers)
                         \/ UNCHANGED serverVars
    BY <1>5 DEF LateArrives
  <2>2. UNCHANGED queueVars
    BY <1>5 DEF LateArrives
  <2>3. r.endpoint \in Endpoints /\ r.sequence \in 0 .. MaxSequence
    BY DEF DeliveryInv, DeliveryCore, TypeOK, NetworkTyped, LateType
  <2>4. r.endpoint = "heartbeat" => /\ r.sequence \in Used
                                    /\ \A q \in Queued : r.sequence <= q
    BY DEF DeliveryInv, LateInOrder
  <2>5. CASE UNCHANGED serverVars
    BY <2>2, <2>5 DEF queueVars, serverVars, Queued, Channel!channelVars
  <2> QED
    BY <2>1, <2>2, <2>3, <2>4, <2>5, CommitStep
<1>6. CASE Start \/ Stop \/ Contract \/ ContractFails \/ EnforceFails \/ LimitsApplied \/ Added
  BY <1>6 DEF Start, Stop, Contract, ContractFails, EnforceFails, LimitsApplied, Added,
    Q!Open, Q!Crash, Q!SetLimits, Q!EnforceFails, Q!CountDropped, queueVars, serverVars,
    Queued, Channel!channelVars
<1>7. CASE Collect \/ Flush \/ Send \/ FlushDone \/ Acknowledged \/ Revoked \/ Failed \/ Timeout
  BY <1>7 DEF Collect, Flush, Send, FlushDone, Acknowledged, Revoked, Failed, Timeout,
    queueVars, serverVars, Queued, Channel!channelVars
<1>8. CASE AcknowledgeDropped \/ SnapshotChecked \/ SnapshotSent \/ SnapshotReturns \/ Revoke
  BY <1>8 DEF AcknowledgeDropped, Q!AcknowledgeDropped, SnapshotChecked, SnapshotSent,
    SnapshotReturns, Revoke, queueVars, serverVars, Queued, Channel!channelVars
<1>9. ASSUME NEW e \in Endpoints,
             ServerSeesReplay(e) \/ ServerSeesRevoked(e) \/ ServerFails(e)
      PROVE  [Channel!Next]_(Channel!channelVars)
  BY <1>9 DEF ServerSeesReplay, ServerSeesRevoked, ServerFails, Answer, queueVars, serverVars,
    Queued, Channel!channelVars
<1>10. CASE UNCHANGED vars
  BY <1>10 DEF vars, Queued, Channel!channelVars
<1> QED
  BY <1>1, <1>2, <1>3, <1>4, <1>5, <1>6, <1>7, <1>8, <1>9, <1>10
     DEF Next, MainStep, SnapshotStep, ServerStep, CollectExhausted

(***************************************************************************)
(* Heartbeat delivery implements the abstract channel: in-order commits,   *)
(* at most once, and nothing leaves the agent's buffer unless it was       *)
(* stored or evicted as the oldest.                                        *)
(***************************************************************************)
THEOREM DeliveryImplementsChannel == ASSUME ~SharedWindow PROVE Spec => ImplementsChannel
<1>1. Init => Channel!Init
  BY DEF Init, Q!Init, Channel!Init, Queued
<1>2. DeliveryInv /\ [Next]_vars => [Channel!Next]_(Channel!channelVars)
  BY ChannelStep
<1> QED
  BY <1>1, <1>2, DeliveryInvariance, PTL DEF Spec, ImplementsChannel, Channel!Spec
=============================================================================
