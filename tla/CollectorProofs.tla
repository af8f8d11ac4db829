--------------------------- MODULE CollectorProofs --------------------------
(***************************************************************************)
(* Proofs about HostCollector and Policy: for every set of releases,       *)
(* contracts and policies, every interval and every failure the            *)
(* environment allows, what the agent goes by is the newest it ever had    *)
(* and fits its release, each GPU reading is handed to one heartbeat, a    *)
(* list that is called available is younger than its interval, and         *)
(* containers are not missed for a version that was cached.                *)
(***************************************************************************)
EXTENDS HostCollector, TLAPS

-----------------------------------------------------------------------------
(* The files hold at least what has ever been in use, and whatever a start *)
(* takes from them fits the release that starts.                           *)
FilesKept ==
    /\ seen.contract <= contractFile.contract /\ contractFile.contract <= published
    /\ seen.revision <= configFile
    /\ pc # "down" => config = configFile

StartKept ==
    /\ pc \in Starting => cached \in {NoCache, contractFile}
    /\ pc \in Starting /\ cached.contract # None => <<release, cached.contract>> \in Fits
    /\ pc = "store" =>
          /\ fetched \in Contracts /\ <<release, fetched>> \in Fits
          /\ contractFile.contract <= fetched /\ fetched <= published
    /\ pc = "not modified" => cached.contract # None

RunKept ==
    Running => /\ contract \in Contracts /\ <<release, contract>> \in Fits
               /\ contract = seen.contract

PolicyKept == PolicyTypeOK /\ FilesKept /\ StartKept /\ RunKept

(* The first reading is taken by Start.                                    *)
ReadingsKept ==
    /\ ReadingsReportedOnce
    /\ ~ Sampling => taken = 0

(* An available list is the one of the last attempt, which the lists of a  *)
(* complete heartbeat have made within the interval.                       *)
ListsKept ==
    /\ \A k \in Kinds : lists[k].state = "available" =>
          lists[k].list = lists[k].attempt /\ lists[k].attempt # Never
    /\ pc \in Collecting => heartbeat.at # Never
    /\ pc \in Complete =>
          \A k \in Kinds : /\ lists[k].attempt # Never
                           /\ heartbeat.at - lists[k].attempt < Interval(k)

(* A version that was asked for anew is outdated only by an upgrade since. *)
VersionKept ==
    /\ pc = "resolve again" => ~api.resolved
    /\ pc = "list again" /\ Mismatch => upgraded
    /\ heartbeat.containers = "mismatch" => pc \in Collecting /\ upgraded

IInv == PolicyKept /\ CollectorTypeOK /\ ReadingsKept /\ ListsKept /\ VersionKept

-----------------------------------------------------------------------------
(* The contract and the policy.                                            *)
LEMMA CacheNumbers ==
    ASSUME NEW f \in Caches
    PROVE  f.contract \in Nat /\ f.contract \in Contracts \cup {None} /\ f.etag = f.contract
<1>1. f.contract \in Contracts \cup {None} /\ f.etag = f.contract
  BY DEF Caches, NoCache, Cache
<1>2. Contracts \cup {None} \subseteq Nat
  BY PolicyAssumption DEF None
<1> QED
  BY <1>1, <1>2

LEMMA PolicyNumbers ==
    ASSUME PolicyTypeOK
    PROVE  /\ seen.contract \in Nat /\ seen.revision \in Nat
           /\ contractFile.contract \in Nat /\ contractFile.etag = contractFile.contract
           /\ cached.contract \in Nat /\ cached.etag = cached.contract
           /\ published \in Nat /\ configFile \in Nat /\ config \in Nat
<1>1. Contracts \cup {None} \subseteq Nat /\ Policies \cup {None} \subseteq Nat
  BY PolicyAssumption DEF None
<1>3. /\ contractFile.contract \in Nat /\ contractFile.etag = contractFile.contract
      /\ cached.contract \in Nat /\ cached.etag = cached.contract
  BY CacheNumbers DEF PolicyTypeOK
<1>4. seen.contract \in Nat /\ seen.revision \in Nat
  BY <1>1 DEF PolicyTypeOK
<1> QED
  BY <1>1, <1>3, <1>4 DEF PolicyTypeOK

LEMMA UseKeepsPolicy ==
    ASSUME PolicyKept, pc \in Starting,
           NEW c \in Contracts, <<release, c>> \in Fits, seen.contract <= c,
           contractFile' \in Caches, UNCHANGED configFile,
           c <= contractFile'.contract, contractFile'.contract <= published,
           Use(c)
    PROVE  PolicyKept' /\ pc' \in {"start", "down"}
<1> USE DEF PolicyKept, Locals, application, NoCache, Cache
<1>0. pc # "down" /\ c \in Nat
  BY PolicyAssumption DEF Starting
<1>1. CASE /\ contract' = c /\ pc' = "start" /\ Locals /\ Note(c, config)
           /\ UNCHANGED <<release, config, application>>
  <2>1. seen' = [contract |-> c, revision |-> Newest(seen.revision, config)]
    BY <1>0, <1>1, PolicyNumbers DEF Note, Newest
  <2>2. seen'.revision <= configFile' /\ seen'.revision \in {seen.revision, config}
    BY <1>0, <1>1, <2>1, PolicyNumbers DEF FilesKept, Newest
  <2>3. PolicyTypeOK'
    BY <1>1, <2>1, <2>2 DEF PolicyTypeOK, Caches
  <2>4. FilesKept' /\ StartKept' /\ RunKept'
    BY <1>0, <1>1, <2>1, <2>2 DEF FilesKept, StartKept, RunKept, Starting, Running
  <2> QED
    BY <1>1, <2>3, <2>4
<1>2. CASE End
  <2>1. PolicyTypeOK'
    BY <1>2 DEF PolicyTypeOK, End, Caches
  <2>2. FilesKept'
    BY <1>0, <1>2, PolicyNumbers, CacheNumbers DEF FilesKept, End
  <2>3. StartKept' /\ RunKept'
    BY <1>2 DEF StartKept, RunKept, Starting, Running, End
  <2> QED
    BY <1>2, <2>1, <2>2, <2>3 DEF End
<1> QED
  BY <1>1, <1>2 DEF Use

LEMMA EndKeepsPolicy ==
    ASSUME PolicyKept, pc # "down", End,
           contractFile' \in Caches, configFile' \in Policies \cup {None},
           contractFile.contract <= contractFile'.contract, contractFile'.contract <= published,
           configFile <= configFile'
    PROVE  PolicyKept'
<1> USE DEF PolicyKept, Locals, application, NoCache, Cache, End
<1>1. PolicyTypeOK'
  BY DEF PolicyTypeOK, Caches
<1>2. contractFile'.contract \in Nat /\ configFile' \in Nat
  BY PolicyAssumption, CacheNumbers DEF None
<1>3. FilesKept'
  BY <1>2, PolicyNumbers DEF FilesKept
<1>4. StartKept' /\ RunKept'
  BY DEF StartKept, RunKept, Starting, Running
<1> QED
  BY <1>1, <1>3, <1>4

LEMMA StartProcessKeepsPolicy ==
    ASSUME PolicyKept, StartProcess PROVE PolicyKept' /\ pc' = "fetch"
<1> USE DEF PolicyKept, application, NoCache, Cache
<1>1. PICK r \in Releases : release' = r /\ cached' = LoadContract(r)
  BY DEF StartProcess
<1>2. cached' \in {NoCache, contractFile}
      /\ (cached'.contract # None => <<release', cached'.contract>> \in Fits)
  BY <1>1 DEF LoadContract
<1>3. PolicyTypeOK'
  BY <1>1, <1>2 DEF StartProcess, PolicyTypeOK, Caches
<1>4. FilesKept' /\ StartKept' /\ RunKept'
  BY <1>2 DEF StartProcess, FilesKept, StartKept, RunKept, Starting, Running
<1> QED
  BY <1>3, <1>4 DEF StartProcess

LEMMA FetchKeepsPolicy ==
    ASSUME PolicyKept, FetchFails \/ FetchAnswered \/ NotModified \/ Store
    PROVE  PolicyKept' /\ pc \in Starting /\ pc' \in {"start", "down", "store", "not modified"}
<1>0. /\ contractFile \in Caches /\ contractFile.contract <= published
      /\ seen.contract <= contractFile.contract /\ configFile \in Policies \cup {None}
      /\ contractFile.contract \in Nat /\ configFile \in Nat /\ published \in Contracts
  BY PolicyNumbers DEF PolicyKept, PolicyTypeOK, FilesKept
<1>1. ASSUME End, UNCHANGED <<contractFile, configFile>>, pc \in Starting
      PROVE  PolicyKept' /\ pc' = "down"
  <2>1. contractFile.contract <= contractFile.contract /\ configFile <= configFile
    BY <1>0
  <2>2. pc # "down" /\ pc' = "down" /\ contractFile' = contractFile /\ configFile' = configFile
    BY <1>1 DEF End, Starting
  <2> QED
    BY <1>0, <1>1, <2>1, <2>2, EndKeepsPolicy
<1>2. ASSUME cached.contract # None, Use(cached.contract), pc \in Starting,
             UNCHANGED <<contractFile, configFile>>
      PROVE  PolicyKept' /\ pc' \in {"start", "down"}
  <2>1. NoCache.contract = None
    BY DEF NoCache, Cache
  <2>2. cached = contractFile /\ <<release, cached.contract>> \in Fits
    BY <1>2, <2>1 DEF PolicyKept, StartKept
  <2>3. cached.contract \in Contracts
    BY <1>2, CacheNumbers DEF PolicyKept, PolicyTypeOK
  <2>4. cached.contract <= contractFile'.contract /\ contractFile'.contract <= published
        /\ seen.contract <= cached.contract
    BY <1>0, <1>2, <2>2
  <2> QED
    BY <1>0, <1>2, <2>2, <2>3, <2>4, UseKeepsPolicy
<1>3. ASSUME UseCached, UNCHANGED <<contractFile, configFile>>, pc \in Starting
      PROVE  PolicyKept' /\ pc' \in {"start", "down"}
  BY <1>1, <1>2, <1>3 DEF UseCached
<1>4. CASE FetchFails \/ NotModified
  BY <1>1, <1>3, <1>4 DEF FetchFails, NotModified, Starting
<1>5. CASE FetchAnswered
  <2>1. CASE UseCached
    BY <1>3, <1>5, <2>1 DEF FetchAnswered, Starting
  <2>2. CASE pc' = "not modified"
    <3>1. /\ UNCHANGED <<cached, fetched, contract, config, release, application, seen>>
          /\ UNCHANGED <<contractFile, configFile>> /\ cached.etag = published /\ pc = "fetch"
      BY <1>5, <2>2 DEF FetchAnswered, UseCached, Use, End
    <3>2. cached.contract # None
      BY <3>1, PolicyNumbers, PolicyAssumption DEF PolicyKept, PolicyTypeOK, None
    <3>3. PolicyTypeOK'
      BY <3>1 DEF PolicyKept, PolicyTypeOK, application, Caches
    <3>4. FilesKept' /\ StartKept' /\ RunKept'
      BY <2>2, <3>1, <3>2
      DEF PolicyKept, FilesKept, StartKept, RunKept, Starting, Running, application
    <3> QED
      BY <2>2, <3>1, <3>3, <3>4 DEF PolicyKept, Starting
  <2>3. CASE pc' = "store"
    <3>1. /\ UNCHANGED <<cached, contract, config, release, application, seen>>
          /\ UNCHANGED <<contractFile, configFile>> /\ fetched' = published /\ pc = "fetch"
          /\ <<release, published>> \in Fits
      BY <1>5, <2>3 DEF FetchAnswered, UseCached, Use, End
    <3>2. PolicyTypeOK'
      BY <3>1 DEF PolicyKept, PolicyTypeOK, application, Caches
    <3>3. published' = published /\ published <= published
      BY <1>0, <3>1, PolicyNumbers DEF application, PolicyKept
    <3>4. FilesKept' /\ StartKept' /\ RunKept'
      BY <1>0, <2>3, <3>1, <3>3
      DEF PolicyKept, FilesKept, StartKept, RunKept, Starting, Running, application
    <3> QED
      BY <2>3, <3>1, <3>2, <3>4 DEF PolicyKept, Starting
  <2> QED
    BY <1>5, <2>1, <2>2, <2>3 DEF FetchAnswered
<1>6. CASE Store
  <2>1. pc = "store" /\ fetched \in Contracts /\ <<release, fetched>> \in Fits /\ pc \in Starting
        /\ contractFile.contract <= fetched /\ fetched <= published /\ fetched \in Nat
    BY <1>6, PolicyAssumption DEF Store, PolicyKept, StartKept, Starting
  <2>2. CASE contractFile' = Cache(fetched, fetched) /\ Use(fetched)
    <3>1. contractFile' \in Caches /\ contractFile'.contract = fetched
      BY <2>1, <2>2 DEF Caches, Cache
    <3>2. seen.contract <= fetched
      BY <1>0, <2>1, PolicyNumbers DEF PolicyKept
    <3>3. fetched <= fetched /\ UNCHANGED configFile
      BY <1>6, <2>1 DEF Store
    <3> QED
      BY <2>1, <2>2, <3>1, <3>2, <3>3, UseKeepsPolicy
  <2> QED
    BY <1>1, <1>6, <2>1, <2>2 DEF Store
<1> QED
  BY <1>3, <1>4, <1>5, <1>6

LEMMA AnsweredKeepsPolicy ==
    ASSUME PolicyKept, Answered PROVE PolicyKept' /\ pc = "flush" /\ pc' = "wait"
<1>1. /\ pc = "flush" /\ pc' = "wait"
      /\ UNCHANGED <<contractFile, cached, fetched, contract, release, application>>
  BY DEF Answered, ApplyConfig
<1>2. /\ config' = configFile' /\ config' \in Policies \cup {None} /\ config <= config'
  <2>1. config = configFile /\ config \in Policies \cup {None} /\ config \in Nat
    BY <1>1, PolicyNumbers DEF PolicyKept, FilesKept, PolicyTypeOK
  <2> QED
    BY <2>1, PolicyAssumption DEF Answered, ApplyConfig
<1>3. Running /\ contract = seen.contract /\ contract \in Nat
  BY <1>1, PolicyNumbers DEF PolicyKept, RunKept, Running, Starting
<1>4. seen' = [contract |-> contract, revision |-> Newest(seen.revision, config')]
  BY <1>3 DEF Answered, Note, Newest
<1>5. config' \in Nat
  BY <1>2, PolicyAssumption DEF None
<1>6. seen'.revision <= configFile' /\ seen'.revision \in {seen.revision, config'}
  <2>1. seen.revision <= config
    BY <1>1 DEF PolicyKept, FilesKept
  <2> QED
    BY <1>2, <1>4, <1>5, <2>1, PolicyNumbers DEF Newest, PolicyKept
<1>7. PolicyTypeOK'
  BY <1>1, <1>2, <1>4, <1>6 DEF PolicyKept, PolicyTypeOK, application, Caches
<1>8. FilesKept' /\ StartKept' /\ RunKept'
  BY <1>1, <1>2, <1>3, <1>4, <1>6
  DEF PolicyKept, FilesKept, StartKept, RunKept, Starting, Running, application
<1> QED
  BY <1>1, <1>7, <1>8 DEF PolicyKept

LEMMA StopKeepsPolicy ==
    ASSUME PolicyKept, Stop PROVE PolicyKept' /\ pc' = "down"
<1> USE DEF PolicyKept
<1>1. End /\ pc # "down" /\ pc' = "down"
  BY DEF Stop, End
<1>2. /\ contractFile \in Caches /\ contractFile.contract <= published
      /\ configFile \in Policies \cup {None} /\ config = configFile
      /\ contractFile.contract \in Nat /\ configFile \in Nat
      /\ contractFile.contract <= contractFile.contract /\ configFile <= configFile
  BY <1>1, PolicyNumbers DEF PolicyTypeOK, FilesKept
<1>3. CASE UNCHANGED <<contractFile, configFile>>
  BY <1>1, <1>2, <1>3, EndKeepsPolicy
<1>4. CASE pc = "store" /\ contractFile' = Cache(fetched, fetched) /\ UNCHANGED configFile
  <2>1. /\ contractFile' \in Caches /\ contractFile'.contract = fetched
        /\ contractFile.contract <= fetched /\ fetched <= published
    BY <1>4 DEF Caches, Cache, StartKept
  <2> QED
    BY <1>1, <1>2, <1>4, <2>1, EndKeepsPolicy
<1>5. CASE /\ \E r \in Policies : config < r /\ r <= revision /\ configFile' = r
           /\ UNCHANGED contractFile
  <2>1. configFile' \in Policies /\ configFile <= configFile'
    BY <1>2, <1>5, PolicyAssumption
  <2> QED
    BY <1>1, <1>2, <1>5, <2>1, EndKeepsPolicy
<1> QED
  BY <1>3, <1>4, <1>5 DEF Stop

LEMMA ApplicationKeepsPolicy ==
    ASSUME PolicyKept, Publish \/ Revise PROVE PolicyKept' /\ pc' = pc
<1> USE DEF PolicyKept
<1>1. CASE Publish
  <2>1. published' = published + 1 /\ published' \in Contracts /\ published \in Nat
        /\ UNCHANGED <<pc, release, contractFile, cached, fetched, contract, configFile, config,
                       revision, seen>>
    BY <1>1, PolicyNumbers DEF Publish
  <2>2. PolicyTypeOK'
    BY <2>1 DEF PolicyTypeOK, Caches
  <2>3. contractFile'.contract <= published'
    BY <2>1, PolicyNumbers DEF FilesKept
  <2>4. ASSUME pc = "store" PROVE fetched <= published'
    <3>1. fetched \in Nat /\ fetched <= published
      BY <2>4, PolicyAssumption DEF StartKept
    <3> QED
      BY <2>1, <3>1
  <2> QED
    BY <2>1, <2>2, <2>3, <2>4 DEF FilesKept, StartKept, RunKept, Starting, Running
<1>2. CASE Revise
  <2>1. PolicyTypeOK'
    BY <1>2 DEF Revise, PolicyTypeOK, Caches
  <2> QED
    BY <1>2, <2>1 DEF Revise, FilesKept, StartKept, RunKept, Starting, Running
<1> QED
  BY <1>1, <1>2

(* A step of a collection leaves the policy alone.                         *)
LEMMA CollectionKeepsPolicy ==
    ASSUME PolicyKept, UNCHANGED policyOthers, Running \/ pc' = pc, Running' \/ pc' = pc
    PROVE  PolicyKept'
<1> USE DEF PolicyKept, policyOthers
<1>1. PolicyTypeOK'
  BY DEF PolicyTypeOK, Caches
<1>2. CASE pc' = pc
  BY <1>1, <1>2 DEF FilesKept, StartKept, RunKept, Running
<1>3. CASE Running /\ Running'
  BY <1>1, <1>3 DEF FilesKept, StartKept, RunKept, Running, Starting
<1> QED
  BY <1>2, <1>3

-----------------------------------------------------------------------------
(* What a step leaves alone.                                               *)
LEMMA ReadingsStay ==
    ASSUME ReadingsKept, UNCHANGED gpuVars, Sampling => Sampling'
    PROVE  ReadingsKept'
  BY DEF ReadingsKept, ReadingsReportedOnce, gpuVars

LEMMA ListsStay ==
    ASSUME ListsKept, UNCHANGED <<lists, config, contract>>, heartbeat'.at = heartbeat.at,
           pc' \in Collecting => pc \in Collecting,
           pc' \in Complete => pc \in Complete
    PROVE  ListsKept'
<1>1. \A k \in Kinds : Interval(k)' = Interval(k)
  BY DEF Interval
<1> QED
  BY <1>1 DEF ListsKept

LEMMA VersionStays ==
    ASSUME VersionKept, UNCHANGED containerVars,
           heartbeat'.containers = "mismatch" =>
               heartbeat.containers = "mismatch" /\ pc' \in Collecting,
           pc' \in {"resolve again", "list again"} => pc' = pc
    PROVE  VersionKept'
  BY DEF VersionKept, containerVars, Mismatch

(* Only the policy moves.                                                  *)
LEMMA PolicyStepKeeps ==
    ASSUME IInv, PolicyKept', UNCHANGED collectorVars,
           \/ pc' = pc /\ UNCHANGED <<config, contract>>
           \/ ~ Sampling /\ pc \notin Collecting /\ pc' \notin Collecting
    PROVE  IInv'
<1> USE DEF collectorVars
<1>1. CollectorTypeOK'
  BY DEF IInv, CollectorTypeOK
<1>2. Sampling => Sampling'
  BY DEF Sampling, Running
<1>3. ReadingsKept'
  BY <1>2, ReadingsStay DEF IInv, gpuVars
<1>4. ListsKept'
  <2>1. CASE pc' = pc /\ UNCHANGED <<config, contract>>
    BY <2>1, ListsStay DEF IInv
  <2>2. CASE pc' \notin Collecting
    BY <2>2 DEF IInv, ListsKept, Complete
  <2> QED
    BY <2>1, <2>2
<1>5. VersionKept'
  <2>1. CASE pc' = pc
    BY <2>1 DEF IInv, VersionKept, Mismatch
  <2>2. CASE pc \notin Collecting /\ pc' \notin Collecting
    BY <2>2 DEF IInv, VersionKept, Collecting
  <2> QED
    BY <2>1, <2>2
<1> QED
  BY <1>1, <1>3, <1>4, <1>5 DEF IInv

LEMMA StartAgentKeeps ==
    ASSUME IInv, StartAgent PROVE IInv'
<1>1. PolicyKept' /\ pc' = "fetch" /\ pc = "down" /\ UNCHANGED collectorVars
  BY StartProcessKeepsPolicy DEF IInv, StartAgent, StartProcess
<1>2. ~ Sampling /\ pc \notin Collecting /\ pc' \notin Collecting
  BY <1>1 DEF Sampling, Running, Collecting
<1> QED
  BY <1>1, <1>2, PolicyStepKeeps

LEMMA FetchContractKeeps ==
    ASSUME IInv, FetchContract PROVE IInv'
<1>1. /\ PolicyKept' /\ pc \in Starting /\ UNCHANGED collectorVars
      /\ pc' \in {"start", "down", "store", "not modified"}
  BY FetchKeepsPolicy DEF IInv, FetchContract
<1>2. ~ Sampling /\ pc \notin Collecting /\ pc' \notin Collecting
  BY <1>1 DEF Sampling, Running, Collecting, Starting
<1> QED
  BY <1>1, <1>2, PolicyStepKeeps

LEMMA ApplicationChangesKeeps ==
    ASSUME IInv, ApplicationChanges PROVE IInv'
<1>1. PolicyKept' /\ pc' = pc /\ UNCHANGED collectorVars /\ UNCHANGED <<config, contract>>
  BY ApplicationKeepsPolicy DEF IInv, ApplicationChanges, Publish, Revise
<1> QED
  BY <1>1, PolicyStepKeeps

-----------------------------------------------------------------------------
(* The readings of the GPUs.                                               *)
LEMMA StartKeeps ==
    ASSUME IInv, Start PROVE IInv'
<1>0. /\ pc = "start" /\ pc' = "collect" /\ UNCHANGED policyOthers
      /\ UNCHANGED <<now, lists, sampler, containerVars, heartbeat, reported>>
  BY DEF Start
<1>1. Running /\ Running' /\ ~ Sampling /\ pc' \notin Collecting
  BY <1>0 DEF Running, Starting, Sampling, Collecting
<1>2. PolicyKept'
  BY <1>0, <1>1, CollectionKeepsPolicy DEF IInv
<1>3. taken = 0 /\ pending = {} /\ reported = {} /\ {sampler} \subseteq {Nothing, Error}
  <2>1. taken = 0
    BY <1>1 DEF IInv, ReadingsKept
  <2>2. 1 .. taken = {}
    BY <2>1
  <2> QED
    BY <2>1, <2>2 DEF IInv, ReadingsKept, ReadingsReportedOnce
<1>4. \/ taken' = 1 /\ pending' = {1} /\ lastErr' = FALSE
      \/ taken' = 0 /\ pending' = {} /\ lastErr' = TRUE
  <2>1. CASE taken' = taken + 1 /\ Aggregate(taken + 1)
    <3>1. taken + 1 = 1 /\ 1 # Error
      BY <1>3 DEF Error
    <3> QED
      BY <1>3, <2>1, <3>1 DEF Aggregate
  <2>2. CASE UNCHANGED taken /\ Aggregate(Error)
    BY <1>3, <2>2 DEF Aggregate
  <2> QED
    BY <2>1, <2>2 DEF Start
<1>5. CollectorTypeOK'
  <2>1. taken' \in 0 .. MaxReadings /\ pending' \subseteq 1 .. MaxReadings
    BY <1>4, HostCollectorAssumption
  <2>2. lastErr' \in BOOLEAN
    BY <1>4
  <2> QED
    BY <1>0, <2>1, <2>2 DEF IInv, CollectorTypeOK, containerVars
<1>6. ReadingsKept'
  <2>1. 1 .. taken' = pending'
    BY <1>4
  <2>2. reported' = {} /\ {sampler'} \ {Nothing, Error} = {}
    BY <1>0, <1>3
  <2>3. Sampling'
    BY <1>0 DEF Sampling, Running, Starting
  <2> QED
    BY <2>1, <2>2, <2>3 DEF ReadingsKept, ReadingsReportedOnce
<1>7. ListsKept'
  BY <1>0, <1>1 DEF IInv, ListsKept, Complete
<1>8. VersionKept'
  BY <1>0, <1>1 DEF IInv, VersionKept, Collecting
<1> QED
  BY <1>2, <1>5, <1>6, <1>7, <1>8 DEF IInv

LEMMA SampleReadKeeps ==
    ASSUME IInv, SampleRead PROVE IInv'
<1>0. /\ UNCHANGED <<pc, policyOthers, now, lists, pending, lastErr, containerVars, heartbeat, reported>>
      /\ sampler = Nothing /\ Sampling
  BY DEF SampleRead
<1>1. PolicyKept'
  BY <1>0, CollectionKeepsPolicy DEF IInv
<1>2. \/ taken < MaxReadings /\ taken' = taken + 1 /\ sampler' = taken + 1
      \/ sampler' = Error /\ taken' = taken
  BY DEF SampleRead
<1>3. taken \in 0 .. MaxReadings
  BY DEF IInv, CollectorTypeOK
<1>4. CollectorTypeOK'
  <2>1. taken' \in 0 .. MaxReadings /\ sampler' \in {Nothing, Error} \cup 1 .. MaxReadings
    BY <1>2, <1>3, HostCollectorAssumption
  <2> QED
    BY <1>0, <2>1 DEF IInv, CollectorTypeOK, containerVars
<1>5. ReadingsKept'
  <2>1. pending \cup reported = 1 .. taken /\ pending \cap reported = {}
    BY <1>0 DEF IInv, ReadingsKept, ReadingsReportedOnce
  <2>2. CASE taken' = taken + 1 /\ sampler' = taken + 1
    <3>1. {sampler'} \ {Nothing, Error} = {taken + 1} /\ 1 .. taken' = {taken + 1} \cup 1 .. taken
          /\ taken + 1 \notin 1 .. taken
      BY <1>3, <2>2, HostCollectorAssumption DEF Nothing, Error
    <3> QED
      BY <1>0, <2>1, <3>1 DEF ReadingsKept, ReadingsReportedOnce, Sampling, Running
  <2>3. CASE sampler' = Error /\ taken' = taken
    <3>1. {sampler'} \ {Nothing, Error} = {}
      BY <2>3
    <3> QED
      BY <1>0, <2>1, <2>3, <3>1 DEF ReadingsKept, ReadingsReportedOnce, Sampling, Running
  <2> QED
    BY <1>2, <2>2, <2>3
<1>6. ListsKept' /\ VersionKept'
  BY <1>0, ListsStay, VersionStays DEF IInv, policyOthers, VersionKept
<1> QED
  BY <1>1, <1>4, <1>5, <1>6 DEF IInv

LEMMA SampleAddKeeps ==
    ASSUME IInv, SampleAdd PROVE IInv'
<1>0. /\ UNCHANGED <<pc, policyOthers, now, lists, taken, containerVars, heartbeat, reported>>
      /\ Aggregate(sampler) /\ sampler' = Nothing /\ sampler # Nothing /\ Sampling
  BY DEF SampleAdd
<1>1. PolicyKept'
  BY <1>0, CollectionKeepsPolicy DEF IInv
<1>2. lastErr' \in BOOLEAN /\ pending' = pending \cup ({sampler} \ {Nothing, Error})
  BY <1>0 DEF Aggregate
<1>3. CollectorTypeOK'
  BY <1>0, <1>2 DEF IInv, CollectorTypeOK, containerVars
<1>4. ReadingsKept'
  BY <1>0, <1>2 DEF IInv, ReadingsKept, ReadingsReportedOnce, Sampling, Running
<1>5. ListsKept' /\ VersionKept'
  BY <1>0, ListsStay, VersionStays DEF IInv, policyOthers, VersionKept
<1> QED
  BY <1>1, <1>3, <1>4, <1>5 DEF IInv

LEMMA DrainKeeps ==
    ASSUME IInv, Drain PROVE IInv'
<1>0. /\ UNCHANGED <<policyOthers, now, lists, taken, sampler, lastErr, containerVars, heartbeat>>
      /\ pc = "gpus" /\ pc' \in {"lists", "direct"}
  BY DEF Drain
<1>1. Running /\ Running' /\ Sampling' /\ pc \in Collecting /\ pc' \notin Complete
      /\ pc' \notin {"resolve again", "list again"} /\ pc' \in Collecting
  BY <1>0 DEF Running, Starting, Sampling, Collecting, Complete
<1>2. PolicyKept'
  BY <1>0, <1>1, CollectionKeepsPolicy DEF IInv
<1>3. /\ pending' \cup reported' = pending \cup reported /\ pending' \cap reported' = {}
      /\ pending' \subseteq pending
  BY DEF Drain, Report, IInv, ReadingsKept, ReadingsReportedOnce
<1>4. CollectorTypeOK'
  BY <1>0, <1>3 DEF IInv, CollectorTypeOK, containerVars
<1>5. ReadingsKept'
  BY <1>0, <1>1, <1>3 DEF IInv, ReadingsKept, ReadingsReportedOnce
<1>6. ListsKept' /\ VersionKept'
  BY <1>0, <1>1, ListsStay, VersionStays DEF IInv, policyOthers
<1> QED
  BY <1>2, <1>4, <1>5, <1>6 DEF IInv

LEMMA DirectReadingKeeps ==
    ASSUME IInv, DirectReading PROVE IInv'
<1>0. /\ UNCHANGED <<policyOthers, now, lists, sampler, pending, lastErr, containerVars, heartbeat>>
      /\ pc = "direct" /\ pc' = "lists"
  BY DEF DirectReading
<1>1. Running /\ Running' /\ Sampling' /\ pc \in Collecting /\ pc' \notin Complete
      /\ pc' \notin {"resolve again", "list again"} /\ pc' \in Collecting
  BY <1>0 DEF Running, Starting, Sampling, Collecting, Complete
<1>2. PolicyKept'
  BY <1>0, <1>1, CollectionKeepsPolicy DEF IInv
<1>3. \/ taken < MaxReadings /\ taken' = taken + 1 /\ reported' = reported \cup {taken + 1}
      \/ taken' = taken /\ reported' = reported
  BY DEF DirectReading, Report
<1>4. taken \in 0 .. MaxReadings
  BY DEF IInv, CollectorTypeOK
<1>5. CollectorTypeOK'
  <2>1. taken' \in 0 .. MaxReadings /\ reported' \subseteq reported \cup 1 .. MaxReadings
    BY <1>3, <1>4, HostCollectorAssumption
  <2> QED
    BY <1>0, <2>1 DEF IInv, CollectorTypeOK, containerVars
<1>6. ReadingsKept'
  <2>1. CASE taken' = taken + 1 /\ reported' = reported \cup {taken + 1}
    <3>1. 1 .. taken' = {taken + 1} \cup 1 .. taken /\ taken + 1 \notin 1 .. taken
      BY <1>4, <2>1, HostCollectorAssumption
    <3> QED
      BY <1>0, <1>1, <2>1, <3>1 DEF IInv, ReadingsKept, ReadingsReportedOnce
  <2>2. CASE taken' = taken /\ reported' = reported
    BY <1>0, <1>1, <2>2 DEF IInv, ReadingsKept, ReadingsReportedOnce
  <2> QED
    BY <1>3, <2>1, <2>2
<1>7. ListsKept' /\ VersionKept'
  BY <1>0, <1>1, ListsStay, VersionStays DEF IInv, policyOthers
<1> QED
  BY <1>2, <1>5, <1>6, <1>7 DEF IInv

-----------------------------------------------------------------------------
(* The lists of a collection.                                              *)
LEMMA CollectKeeps ==
    ASSUME IInv, Collect PROVE IInv'
<1>0. /\ UNCHANGED <<policyOthers, now, lists, gpuVars, api, runtime>>
      /\ pc \in {"collect", "wait"} /\ pc' = "gpus"
      /\ heartbeat' = [at |-> now, containers |-> "none"] /\ upgraded' = FALSE
  BY DEF Collect
<1>1. Running /\ Running' /\ Sampling' /\ pc' \notin Complete
  BY <1>0 DEF Running, Starting, Sampling, Collecting, Complete
<1>2. PolicyKept'
  BY <1>0, <1>1, CollectionKeepsPolicy DEF IInv
<1>3. CollectorTypeOK'
  BY <1>0 DEF IInv, CollectorTypeOK, gpuVars
<1>4. ReadingsKept'
  BY <1>0, <1>1, ReadingsStay DEF IInv
<1>5. ListsKept'
  <2>1. heartbeat'.at # Never
    BY <1>0, HostCollectorAssumption DEF IInv, CollectorTypeOK, Times, Never
  <2> QED
    BY <1>0, <1>1, <2>1 DEF IInv, ListsKept
<1>6. VersionKept'
  BY <1>0 DEF VersionKept
<1> QED
  BY <1>2, <1>3, <1>4, <1>5, <1>6 DEF IInv

LEMMA IntervalsArePositive ==
    ASSUME PolicyKept, Running, NEW k \in Kinds PROVE Interval(k) \in Nat \ {0}
<1>1. contract \in Contracts /\ config \in Policies \cup {None}
  BY DEF PolicyKept, RunKept, PolicyTypeOK
<1>2. ContractInterval[contract] \in Nat \ {0} /\ StorageInterval \in Nat \ {0}
  BY <1>1, HostCollectorAssumption
<1>3. CASE config # None /\ PolicyInterval[config] > 0
  <2>1. PolicyInterval[config] \in Nat \ {0}
    BY <1>1, <1>3, HostCollectorAssumption
  <2> QED
    BY <1>2, <1>3, <2>1 DEF Interval
<1>4. CASE ~ (config # None /\ PolicyInterval[config] > 0)
  BY <1>2, <1>4 DEF Interval
<1> QED
  BY <1>3, <1>4

(* What CollectLists leaves of either list.                                *)
LEMMA ListIsCurrent ==
    ASSUME IInv, pc = "lists", NEW k \in Kinds, NEW l \in List(k)
    PROVE  /\ l \in Lists
           /\ l.state = "available" => l.list = l.attempt /\ l.attempt # Never
           /\ l.attempt # Never /\ heartbeat.at - l.attempt < Interval(k)
<1>1. Interval(k) \in Nat \ {0}
  BY IntervalsArePositive DEF IInv, Running, Starting
<1>2. /\ heartbeat.at \in Times /\ heartbeat.at # Never /\ lists[k] \in Lists
      /\ lists[k].state = "available" => lists[k].list = lists[k].attempt /\ lists[k].attempt # Never
  BY DEF IInv, CollectorTypeOK, ListsKept, Collecting
<1>3. heartbeat.at - heartbeat.at < Interval(k)
  BY <1>1, <1>2, HostCollectorAssumption DEF Times
<1>4. CASE Due(k)
  <2>1. /\ l.attempt = heartbeat.at
        /\ l.list \in Times \cup {Never} /\ l.state \in {"available", "unavailable"}
        /\ l = [attempt |-> l.attempt, list |-> l.list, state |-> l.state]
        /\ l.state = "available" => l.list = heartbeat.at
    BY <1>2, <1>4 DEF List, Attempts, Read, Lists
  <2> QED
    BY <1>2, <1>3, <2>1 DEF Lists
<1>5. CASE ~ Due(k)
  <2>1. l = lists[k] /\ l.attempt # Never /\ ~ (heartbeat.at - l.attempt >= Interval(k))
    BY <1>5 DEF List, Due
  <2>2. l.attempt \in Times
    BY <1>2, <2>1 DEF Lists
  <2>3. heartbeat.at - l.attempt < Interval(k)
    BY <1>1, <1>2, <2>1, <2>2, HostCollectorAssumption DEF Times
  <2> QED
    BY <1>2, <2>1, <2>3
<1> QED
  BY <1>4, <1>5

LEMMA CollectListsKeeps ==
    ASSUME IInv, CollectLists PROVE IInv'
<1>0. /\ UNCHANGED <<policyOthers, now, gpuVars, containerVars, heartbeat>>
      /\ pc = "lists" /\ pc' = "containers"
  BY DEF CollectLists
<1>1. Running /\ Running' /\ Sampling' /\ pc \in Collecting /\ pc' \in Collecting
      /\ pc' \notin {"resolve again", "list again"}
  BY <1>0 DEF Running, Starting, Sampling, Collecting
<1>2. PolicyKept'
  BY <1>0, <1>1, CollectionKeepsPolicy DEF IInv
<1>3. PICK s \in List("services"), d \in List("storage") :
          lists' = [k \in Kinds |-> IF k = "services" THEN s ELSE d]
  BY DEF CollectLists
<1>4. \A k \in Kinds : lists'[k] \in List(k)
  BY <1>3 DEF Kinds
<1>5. DOMAIN lists' = Kinds /\ lists' = [k \in Kinds |-> lists'[k]]
  BY <1>3
<1>6. CollectorTypeOK'
  <2>1. lists' \in [Kinds -> Lists]
    BY <1>0, <1>4, <1>5, ListIsCurrent
  <2> QED
    BY <1>0, <2>1 DEF IInv, CollectorTypeOK, gpuVars, containerVars
<1>7. ReadingsKept'
  BY <1>0, <1>1, ReadingsStay DEF IInv
<1>8. ListsKept'
  <2>1. \A k \in Kinds : Interval(k)' = Interval(k)
    BY <1>0 DEF Interval, policyOthers
  <2>2. heartbeat' = heartbeat /\ heartbeat.at # Never
    BY <1>0, <1>1 DEF IInv, ListsKept
  <2> QED
    BY <1>0, <1>4, <2>1, <2>2, ListIsCurrent DEF ListsKept
<1>9. VersionKept'
  BY <1>0, <1>1, VersionStays DEF IInv
<1> QED
  BY <1>2, <1>6, <1>7, <1>8, <1>9 DEF IInv

-----------------------------------------------------------------------------
(* The containers.                                                         *)
LEMMA CollectContainersKeeps ==
    ASSUME IInv, CollectContainers PROVE IInv'
<1>0. /\ UNCHANGED <<policyOthers, now, lists, gpuVars, containerVars>>
      /\ pc = "containers" /\ pc' \in {"resolve", "collected"}
      /\ heartbeat' \in {heartbeat, [heartbeat EXCEPT !.containers = "disabled"]}
  BY DEF CollectContainers, ReportContainers
<1>1. /\ Running /\ Running' /\ Sampling' /\ pc \in Complete /\ pc' \in Complete
      /\ pc \in Collecting /\ pc' \in Collecting /\ pc' \notin {"resolve again", "list again"}
  BY <1>0 DEF Running, Starting, Sampling, Collecting, Complete
<1>2. PolicyKept'
  BY <1>0, <1>1, CollectionKeepsPolicy DEF IInv
<1>3. CollectorTypeOK' /\ heartbeat'.at = heartbeat.at
      /\ heartbeat'.containers \in {heartbeat.containers, "disabled"}
  BY <1>0 DEF IInv, CollectorTypeOK, gpuVars, containerVars
<1>4. ReadingsKept' /\ ListsKept' /\ VersionKept'
  BY <1>0, <1>1, <1>3, ReadingsStay, ListsStay, VersionStays DEF IInv, policyOthers
<1> QED
  BY <1>2, <1>3, <1>4 DEF IInv

LEMMA AskedVersions ==
    ASSUME NEW v
    PROVE  /\ Asked(v).prefix = v
           /\ v \in APIVersions \cup {None} =>
                 Asked(v) \in [resolved : BOOLEAN, prefix : APIVersions \cup {None}]
  BY DEF Asked

LEMMA ResolveAPIPrefixKeeps ==
    ASSUME IInv, ResolveAPIPrefix PROVE IInv'
<1>0. /\ UNCHANGED <<policyOthers, now, lists, gpuVars, runtime, heartbeat, upgraded>>
      /\ \/ pc = "resolve" /\ pc' = "list"
         \/ pc = "resolve again" /\ pc' = "list again"
      /\ api' \in Resolved
  BY DEF ResolveAPIPrefix
<1>1. /\ Running /\ Running' /\ Sampling' /\ pc \in Complete /\ pc' \in Complete
      /\ pc \in Collecting /\ pc' \in Collecting
  BY <1>0 DEF Running, Starting, Sampling, Collecting, Complete
<1>2. PolicyKept'
  BY <1>0, <1>1, CollectionKeepsPolicy DEF IInv
<1>3. \/ api' = api /\ api.resolved
      \/ api' = Asked(runtime) \/ api' = Asked(None)
  BY <1>0 DEF Resolved, Negotiated
<1>4. CollectorTypeOK'
  <2>1. api' \in [resolved : BOOLEAN, prefix : APIVersions \cup {None}]
    BY <1>3, AskedVersions DEF IInv, CollectorTypeOK
  <2> QED
    BY <1>0, <2>1 DEF IInv, CollectorTypeOK, gpuVars
<1>5. ReadingsKept' /\ ListsKept'
  BY <1>0, <1>1, ReadingsStay, ListsStay DEF IInv, policyOthers
<1>6. VersionKept'
  <2>1. CASE pc = "resolve"
    BY <1>0, <1>1, <2>1 DEF IInv, VersionKept
  <2>2. CASE pc = "resolve again"
    <3>1. api'.prefix \in {runtime, None}
      BY <1>3, <2>2, AskedVersions DEF IInv, VersionKept
    <3> QED
      BY <1>0, <1>1, <2>2, <3>1 DEF IInv, VersionKept, Mismatch
  <2> QED
    BY <1>0, <2>1, <2>2
<1> QED
  BY <1>2, <1>4, <1>5, <1>6 DEF IInv

LEMMA ListContainersKeeps ==
    ASSUME IInv, ListContainers PROVE IInv'
<1>0. /\ UNCHANGED <<policyOthers, now, lists, gpuVars, containerVars>>
      /\ pc \in {"list", "list again"} /\ pc' = "collected"
  BY DEF ListContainers, ReportContainers
<1>1. /\ Running /\ Running' /\ Sampling' /\ pc \in Complete /\ pc' \in Complete
      /\ pc \in Collecting /\ pc' \in Collecting /\ pc' \notin {"resolve again", "list again"}
  BY <1>0 DEF Running, Starting, Sampling, Collecting, Complete
<1>2. PolicyKept'
  BY <1>0, <1>1, CollectionKeepsPolicy DEF IInv
<1>3. PICK s \in {"available", "unavailable", "mismatch"} :
          /\ heartbeat' = [heartbeat EXCEPT !.containers = s]
          /\ s = "mismatch" => pc = "list again" /\ Mismatch
  BY DEF ListContainers, ReportContainers
<1>4. CollectorTypeOK' /\ heartbeat'.at = heartbeat.at /\ heartbeat'.containers = s
  BY <1>0, <1>3 DEF IInv, CollectorTypeOK, gpuVars, containerVars
<1>5. ReadingsKept' /\ ListsKept'
  BY <1>0, <1>1, <1>4, ReadingsStay, ListsStay DEF IInv, policyOthers
<1>6. VersionKept'
  BY <1>0, <1>1, <1>3, <1>4 DEF IInv, VersionKept, containerVars
<1> QED
  BY <1>2, <1>4, <1>5, <1>6 DEF IInv

LEMMA ForgetPrefixKeeps ==
    ASSUME IInv, ForgetPrefix PROVE IInv'
<1>0. /\ UNCHANGED <<policyOthers, now, lists, gpuVars, runtime, upgraded, heartbeat>>
      /\ pc = "list" /\ pc' = "resolve again" /\ api' = Unresolved
  BY DEF ForgetPrefix
<1>1. /\ Running /\ Running' /\ Sampling' /\ pc \in Complete /\ pc' \in Complete
      /\ pc \in Collecting /\ pc' \in Collecting
  BY <1>0 DEF Running, Starting, Sampling, Collecting, Complete
<1>2. PolicyKept'
  BY <1>0, <1>1, CollectionKeepsPolicy DEF IInv
<1>3. CollectorTypeOK'
  BY <1>0 DEF IInv, CollectorTypeOK, gpuVars, Unresolved
<1>4. ReadingsKept' /\ ListsKept'
  BY <1>0, <1>1, ReadingsStay, ListsStay DEF IInv, policyOthers
<1>5. VersionKept'
  BY <1>0, <1>1 DEF IInv, VersionKept, Unresolved
<1> QED
  BY <1>2, <1>3, <1>4, <1>5 DEF IInv

LEMMA CollectedKeeps ==
    ASSUME IInv, Collected PROVE IInv'
<1>0. /\ UNCHANGED <<policyOthers, now, lists, gpuVars, runtime>> /\ pc = "collected"
      /\ api' \in {api, Asked(runtime), Asked(None)}
      /\ \/ pc' = "flush" /\ UNCHANGED <<heartbeat, upgraded>>
         \/ pc' = "wait" /\ Sent
  BY DEF Collected, Negotiated
<1>1. /\ Running /\ Running' /\ Sampling' /\ pc \in Complete /\ pc \in Collecting
      /\ pc' \notin {"resolve again", "list again"} /\ (pc' = "flush" => pc' \in Collecting)
  BY <1>0 DEF Running, Starting, Sampling, Collecting, Complete
<1>2. PolicyKept'
  BY <1>0, <1>1, CollectionKeepsPolicy DEF IInv
<1>3. /\ heartbeat'.at = heartbeat.at /\ upgraded' \in {upgraded, FALSE}
      /\ heartbeat'.containers \in {heartbeat.containers, "none"}
      /\ heartbeat'.containers # "none" => pc' = "flush" /\ UNCHANGED <<heartbeat, upgraded>>
      /\ heartbeat' \in [at : Times \cup {Never},
                         containers : {"none", "disabled", "available", "unavailable", "mismatch"}]
  BY <1>0 DEF IInv, CollectorTypeOK, Sent
<1>4. CollectorTypeOK'
  <2>1. api' \in [resolved : BOOLEAN, prefix : APIVersions \cup {None}]
    BY <1>0, AskedVersions DEF IInv, CollectorTypeOK
  <2>2. upgraded' \in BOOLEAN
    BY <1>3 DEF IInv, CollectorTypeOK
  <2> QED
    BY <1>0, <1>3, <2>1, <2>2 DEF IInv, CollectorTypeOK, gpuVars
<1>5. ReadingsKept' /\ ListsKept'
  BY <1>0, <1>1, <1>3, ReadingsStay, ListsStay DEF IInv, policyOthers
<1>6. VersionKept'
  <2>1. CASE heartbeat'.containers = "none"
    BY <1>1, <2>1 DEF VersionKept
  <2>2. CASE pc' = "flush" /\ heartbeat' = heartbeat /\ upgraded' = upgraded
    BY <1>1, <2>2 DEF IInv, VersionKept
  <2> QED
    BY <1>3, <2>1, <2>2
<1> QED
  BY <1>2, <1>4, <1>5, <1>6 DEF IInv

-----------------------------------------------------------------------------
(* The answer, the end of the process, and the world around it.            *)
LEMMA FlushAnsweredKeeps ==
    ASSUME IInv, FlushAnswered PROVE IInv'
<1>0. PolicyKept' /\ pc = "flush" /\ pc' = "wait"
      /\ Sent /\ UNCHANGED <<now, lists, gpuVars, api, runtime>>
  BY AnsweredKeepsPolicy DEF IInv, FlushAnswered
<1>1. Sampling' /\ pc' \notin Collecting /\ pc' \notin Complete
      /\ pc' \notin {"resolve again", "list again"}
  BY <1>0 DEF Running, Starting, Sampling, Collecting, Complete
<1>2. CollectorTypeOK' /\ heartbeat'.containers = "none"
  BY <1>0 DEF IInv, CollectorTypeOK, gpuVars, Sent
<1>3. ReadingsKept'
  BY <1>0, <1>1, ReadingsStay DEF IInv
<1>4. ListsKept'
  BY <1>0, <1>1 DEF IInv, ListsKept
<1>5. VersionKept'
  BY <1>1, <1>2 DEF VersionKept
<1> QED
  BY <1>0, <1>2, <1>3, <1>4, <1>5 DEF IInv

LEMMA StopAgentKeeps ==
    ASSUME IInv, StopAgent PROVE IInv'
<1>0. PolicyKept' /\ pc' = "down" /\ Forgotten
  BY StopKeepsPolicy DEF IInv, StopAgent
<1>1. CollectorTypeOK'
  <2>1. taken' \in 0 .. MaxReadings
    BY <1>0, HostCollectorAssumption DEF Forgotten
  <2> QED
    BY <1>0, <2>1 DEF Forgotten, IInv, CollectorTypeOK, Unread, Lists, Unresolved, NoHeartbeat
<1>2. ReadingsKept'
  <2>1. taken' = 0 /\ pending' = {} /\ reported' = {} /\ {sampler'} \ {Nothing, Error} = {}
    BY <1>0 DEF Forgotten
  <2>2. 1 .. taken' = {}
    BY <2>1
  <2> QED
    BY <2>1, <2>2 DEF ReadingsKept, ReadingsReportedOnce
<1>3. ListsKept'
  BY <1>0 DEF Forgotten, Unread, ListsKept, Complete, Collecting
<1>4. VersionKept'
  BY <1>0 DEF Forgotten, NoHeartbeat, VersionKept
<1> QED
  BY <1>0, <1>1, <1>2, <1>3, <1>4 DEF IInv

LEMMA TickKeeps ==
    ASSUME IInv, Tick PROVE IInv'
<1>0. UNCHANGED <<pc, policyOthers, lists, gpuVars, containerVars, heartbeat>>
  BY DEF Tick
<1>1. PolicyKept'
  BY <1>0, CollectionKeepsPolicy DEF IInv
<1>2. now' \in Times
  BY HostCollectorAssumption DEF Tick, IInv, CollectorTypeOK, Times
<1>3. CollectorTypeOK'
  BY <1>0, <1>2 DEF IInv, CollectorTypeOK, gpuVars, containerVars
<1>4. Sampling' = Sampling
  BY <1>0 DEF Sampling, Running
<1>5. ReadingsKept' /\ ListsKept'
  BY <1>0, <1>4, ReadingsStay, ListsStay DEF IInv, policyOthers
<1>6. VersionKept'
  BY <1>0 DEF IInv, VersionKept, containerVars, Mismatch
<1> QED
  BY <1>1, <1>3, <1>5, <1>6 DEF IInv

LEMMA UpgradeKeeps ==
    ASSUME IInv, Upgrade PROVE IInv'
<1>0. /\ UNCHANGED <<pc, policyOthers, now, lists, gpuVars, api, heartbeat>>
      /\ runtime' \in APIVersions /\ upgraded' = (pc \in Collecting)
  BY DEF Upgrade
<1>1. PolicyKept'
  BY <1>0, CollectionKeepsPolicy DEF IInv
<1>2. CollectorTypeOK'
  BY <1>0 DEF IInv, CollectorTypeOK, gpuVars
<1>3. Sampling' = Sampling
  BY <1>0 DEF Sampling, Running
<1>4. ReadingsKept' /\ ListsKept'
  BY <1>0, <1>3, ReadingsStay, ListsStay DEF IInv, policyOthers
<1>5. VersionKept'
  BY <1>0 DEF IInv, VersionKept, Collecting
<1> QED
  BY <1>1, <1>2, <1>4, <1>5 DEF IInv

-----------------------------------------------------------------------------
LEMMA InitIsKept == Init => IInv
<1> SUFFICES ASSUME Init PROVE IInv
  OBVIOUS
<1>1. /\ contractFile = NoCache /\ published = 1 /\ pc = "down" /\ configFile = None
      /\ seen = [contract |-> None, revision |-> None]
  BY DEF Init, PolicyInit
<1>2. PolicyTypeOK
  BY <1>1, PolicyAssumption DEF Init, PolicyInit, PolicyTypeOK, Caches
<1>3. FilesKept
  <2>1. seen.contract = 0 /\ contractFile.contract = 0 /\ seen.revision = 0 /\ configFile = 0
    BY <1>1 DEF NoCache, Cache, None
  <2> QED
    BY <1>1, <2>1 DEF FilesKept
<1>4. StartKept /\ RunKept
  BY <1>1 DEF StartKept, RunKept, Starting, Running
<1>5. taken = 0 /\ pending = {} /\ reported = {} /\ sampler = Nothing /\ 1 .. taken = {}
  BY DEF Init
<1>6. CollectorTypeOK
  <2>1. now \in Times /\ taken \in 0 .. MaxReadings
    BY HostCollectorAssumption DEF Init, Times
  <2> QED
    BY <2>1 DEF Init, CollectorTypeOK, Unread, Lists, Unresolved, NoHeartbeat
<1>7. ReadingsKept
  BY <1>5 DEF ReadingsKept, ReadingsReportedOnce
<1>8. ListsKept /\ VersionKept
  BY <1>1 DEF Init, ListsKept, VersionKept, Complete, Collecting, Unread, NoHeartbeat
<1> QED
  BY <1>2, <1>3, <1>4, <1>6, <1>7, <1>8 DEF IInv, PolicyKept

LEMMA StutterKeeps ==
    ASSUME IInv, UNCHANGED vars PROVE IInv'
<1>1. UNCHANGED collectorVars /\ UNCHANGED policyOthers /\ pc' = pc
  BY DEF vars, collectorVars, policyOthers
<1>2. PolicyKept' /\ UNCHANGED <<config, contract>>
  BY <1>1, CollectionKeepsPolicy DEF IInv, policyOthers
<1> QED
  BY <1>1, <1>2, PolicyStepKeeps

(***************************************************************************)
(* The inductive invariant: what the files and the memory of a process     *)
(* hold, from Contract to the answer to its heartbeat.                     *)
(***************************************************************************)
THEOREM CollectorInvariance == Spec => []IInv
<1>1. IInv /\ [Next]_vars => IInv'
  BY StartAgentKeeps, FetchContractKeeps, StartKeeps, SampleReadKeeps, SampleAddKeeps, CollectKeeps,
     DrainKeeps, DirectReadingKeeps, CollectListsKeeps, CollectContainersKeeps,
     ResolveAPIPrefixKeeps, ListContainersKeeps, ForgetPrefixKeeps, CollectedKeeps,
     FlushAnsweredKeeps, StopAgentKeeps, ApplicationChangesKeeps, TickKeeps, UpgradeKeeps,
     StutterKeeps
  DEF Next
<1> QED
  BY <1>1, InitIsKept, PTL DEF Spec

(* Every variable has the shape of the code's state.                       *)
THEOREM CollectorTypeCorrect == Spec => []TypeOK
<1>1. IInv => TypeOK
  BY DEF IInv, PolicyKept, TypeOK
<1> QED
  BY <1>1, CollectorInvariance, PTL

(***************************************************************************)
(* Over restarts, changed releases, lost connections and failed writes,    *)
(* the contract and the policy that Run goes by are the newest the agent   *)
(* ever had, the contract fits the running release, and a 304 always finds *)
(* the cached contract (Agent.Contract, applyMonitoringConfig).            *)
(***************************************************************************)
THEOREM NewestDecisions == Spec => []DecisionsAreKept
<1>1. IInv => DecisionsAreKept
  <2> SUFFICES ASSUME IInv PROVE DecisionsAreKept
    OBVIOUS
  <2>1. ContractFits
    BY DEF IInv, PolicyKept, StartKept, RunKept, ContractFits
  <2>2. ASSUME Running PROVE contract >= seen.contract /\ config >= seen.revision
    <3>1. contract = seen.contract /\ config = configFile /\ seen.revision <= configFile
      BY <2>2 DEF IInv, PolicyKept, RunKept, FilesKept, Running
    <3> QED
      BY <3>1, PolicyNumbers DEF IInv, PolicyKept
  <2> QED
    BY <2>1, <2>2 DEF DecisionsAreKept, NothingOlder
<1> QED
  BY <1>1, CollectorInvariance, PTL

(* No reading of a GPU is lost between the goroutine that samples and the  *)
(* one that collects, and none is averaged twice (gpuAggregate).           *)
THEOREM EveryReadingOnce == Spec => []ReadingsReportedOnce
<1>1. IInv => ReadingsReportedOnce
  BY DEF IInv, ReadingsKept
<1> QED
  BY <1>1, CollectorInvariance, PTL

(* A heartbeat never calls a list available that is older than the         *)
(* interval in effect, whichever policy changed it (collectServices,       *)
(* collectStorage).                                                        *)
THEOREM NoStaleList == Spec => []ListsAreCurrent
<1>1. IInv => ListsAreCurrent
  BY DEF IInv, ListsKept, ListsAreCurrent
<1> QED
  BY <1>1, CollectorInvariance, PTL

(* Containers are missed for their API version only when the runtime was   *)
(* replaced during the collection itself (resolveAPIPrefix, listSocket).   *)
THEOREM VersionsAreAskedAnew == Spec => []MismatchMeansChanged
<1>1. IInv => MismatchMeansChanged
  BY DEF IInv, VersionKept, MismatchMeansChanged
<1> QED
  BY <1>1, CollectorInvariance, PTL
=============================================================================
