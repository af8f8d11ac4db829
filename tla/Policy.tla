------------------------------- MODULE Policy -------------------------------
(***************************************************************************)
(* What the application decides and the agent keeps: the contract with its *)
(* cache (Agent.Contract, contract_cache.go, Client.FetchContract) and the *)
(* monitoring policy (Agent.applyMonitoringConfig, monitoring_config.go),  *)
(* over restarts, changes of the installed release and failing requests    *)
(* and writes.  Contracts and policies are known by their order of         *)
(* publication.  HostCollector adds what a cycle does between Start and    *)
(* the next answer.                                                        *)
(***************************************************************************)
EXTENDS Integers

CONSTANTS
    Releases,       \* releases of the agent
    Contracts,      \* contracts of the application: 1 .. n
    Policies,       \* revisions of the monitoring policy: 1 .. n
    Fits,           \* pairs of a release and a contract with its schema digest
    Faults          \* what may fail: a subset of Failures

Failures == {"collect", "file", "offline", "refused", "request"}

ASSUME PolicyAssumption ==
    /\ Releases # {}
    /\ Contracts \subseteq Nat /\ 0 \notin Contracts /\ 1 \in Contracts
    /\ Policies \subseteq Nat /\ 0 \notin Policies
    /\ Fits \subseteq Releases \X Contracts
    /\ Faults \subseteq Failures

VARIABLES
    pc,            \* the main goroutine's next step
    release,       \* the running release
    contractFile,  \* contract.json
    cached,        \* the variable of Contract
    fetched,       \* a contract received and not stored yet
    contract,      \* the contract of Run
    configFile,    \* the revision in monitoring-config.json
    config,        \* a.monitoring.Revision
    published,     \* the application's contract
    revision,      \* the application's newest policy
    seen           \* history: the newest contract and policy ever in use

-----------------------------------------------------------------------------

None == 0

Cache(etag, c) == [etag |-> etag, contract |-> c]

NoCache == Cache(None, None)

Starting == {"fetch", "store", "not modified"}

Newest(a, b) == IF a > b THEN a ELSE b

Note(c, r) == seen' = [contract |-> Newest(seen.contract, c), revision |-> Newest(seen.revision, r)]

application == <<published, revision>>

Locals == cached' = NoCache /\ fetched' = None

(* The process ends, and its memory with it. *)
End ==
    /\ pc' = "down"
    /\ Locals
    /\ contract' = None
    /\ config' = None
    /\ UNCHANGED <<release, application, seen>>

-----------------------------------------------------------------------------

(* A cache of another schema is forgotten, with its entity tag. *)
LoadContract(r) ==
    IF <<r, contractFile.contract>> \in Fits THEN contractFile ELSE NoCache

(* A process of any release starts: New, and Contract up to the request. *)
StartProcess ==
    /\ pc = "down"
    /\ \E r \in Releases :
          /\ release' = r
          /\ cached' = LoadContract(r)
    /\ config' = configFile
    /\ pc' = "fetch"
    /\ UNCHANGED <<contractFile, fetched, contract, configFile, application, seen>>

(* The contract is taken when the queue's limits could be set. *)
Use(c) ==
    \/ /\ contract' = c
       /\ pc' = "start"
       /\ Locals
       /\ Note(c, config)
       /\ UNCHANGED <<release, config, application>>
    \/ "file" \in Faults /\ End

(* The contract of the cache, or an error when there is none. *)
UseCached ==
    \/ cached.contract # None /\ Use(cached.contract)
    \/ cached.contract = None /\ End

(* A transport error falls back to the cache; an HTTP error does not. *)
FetchFails ==
    /\ pc = "fetch"
    /\ \/ "offline" \in Faults /\ UseCached
       \/ "refused" \in Faults /\ End
    /\ UNCHANGED <<contractFile, configFile>>

(* The application answers the request with If-None-Match.  A contract     *)
(* that does not fit the release is an error of the client's own, not an   *)
(* HTTP error: it falls back to the cache as well.                         *)
FetchAnswered ==
    /\ pc = "fetch"
    /\ \/ /\ cached.etag = published
          /\ pc' = "not modified"
          /\ UNCHANGED <<cached, fetched, contract, config, release, application, seen>>
       \/ /\ cached.etag # published
          /\ <<release, published>> \in Fits
          /\ pc' = "store"
          /\ fetched' = published
          /\ UNCHANGED <<cached, contract, config, release, application, seen>>
       \/ /\ cached.etag # published
          /\ <<release, published>> \notin Fits
          /\ UseCached
    /\ UNCHANGED <<contractFile, configFile>>

NotModified ==
    /\ pc = "not modified"
    /\ UseCached
    /\ UNCHANGED <<contractFile, configFile>>

(* writeContractCache, then the limits. *)
StoreOptional ==
    /\ pc = "store"
    /\ \/ contractFile' = Cache(fetched, fetched)
       \/ "file" \in Faults /\ UNCHANGED contractFile
    /\ Use(fetched)
    /\ UNCHANGED configFile

Store ==
    /\ pc = "store"
    /\ \/ contractFile' = Cache(fetched, fetched) /\ Use(fetched)
       \/ "file" \in Faults /\ UNCHANGED contractFile /\ End
    /\ UNCHANGED configFile

-----------------------------------------------------------------------------

(* applyMonitoringConfig: only a newer revision is written and taken. *)
ApplyConfig(r) ==
    \/ /\ r > config
       /\ configFile' = r
       /\ config' = r
       /\ pc' = "wait"
    \/ /\ r <= config \/ "file" \in Faults
       /\ pc' = "wait"
       /\ UNCHANGED <<configFile, config>>

(***************************************************************************)
(* Flush has an answer, with any policy that was ever current: the guard   *)
(* of applyMonitoringConfig is there for answers out of order.             *)
(***************************************************************************)
Answered ==
    /\ pc = "flush"
    /\ \/ \E r \in Policies : r <= revision /\ ApplyConfig(r)
       \/ pc' = "wait" /\ UNCHANGED <<configFile, config>>
    /\ Note(contract, config')
    /\ UNCHANGED <<contractFile, cached, fetched, contract, release, application>>

(* The process ends: a signal, or the host.  Every file is replaced by a   *)
(* rename, which may just have happened.                                   *)
Stop ==
    /\ pc # "down"
    /\ End
    /\ \/ UNCHANGED <<contractFile, configFile>>
       \/ pc = "store" /\ contractFile' = Cache(fetched, fetched) /\ UNCHANGED configFile
       \/ /\ pc = "flush"
          /\ \E r \in Policies : config < r /\ r <= revision /\ configFile' = r
          /\ UNCHANGED contractFile

Publish ==
    /\ published + 1 \in Contracts
    /\ published' = published + 1
    /\ UNCHANGED <<pc, release, contractFile, cached, fetched, contract, configFile, config, revision, seen>>

Revise ==
    /\ revision + 1 \in Policies
    /\ revision' = revision + 1
    /\ UNCHANGED <<pc, release, contractFile, cached, fetched, contract, configFile, config, published, seen>>

PolicyInit ==
    /\ pc = "down"
    /\ release \in Releases
    /\ contractFile = NoCache
    /\ cached = NoCache
    /\ fetched = None
    /\ contract = None
    /\ configFile = None
    /\ config = None
    /\ published = 1
    /\ revision = None
    /\ seen = [contract |-> None, revision |-> None]

-----------------------------------------------------------------------------

Caches == {NoCache} \cup {Cache(c, c) : c \in Contracts}

PolicyTypeOK ==
    /\ release \in Releases
    /\ contractFile \in Caches /\ cached \in Caches
    /\ {fetched, contract} \subseteq Contracts \cup {None}
    /\ {configFile, config, revision} \subseteq Policies \cup {None}
    /\ published \in Contracts
    /\ seen \in [contract : Contracts \cup {None}, revision : Policies \cup {None}]

Running == pc \notin {"down"} \cup Starting

(***************************************************************************)
(* The agent never goes back to an older contract or policy: not when it   *)
(* starts without a connection, not when answers come out of order, and    *)
(* not after a crash around a write ("atomically persists only newer       *)
(* revisions").                                                            *)
(***************************************************************************)
NothingOlder ==
    Running => contract >= seen.contract /\ config >= seen.revision

(***************************************************************************)
(* The contract in use has the schema of the running release, whichever    *)
(* release wrote the cache; and "server returned not-modified without a    *)
(* cached contract" never comes from the agent's own entity tag.           *)
(***************************************************************************)
ContractFits ==
    /\ Running => <<release, contract>> \in Fits
    /\ pc = "not modified" => cached.contract # None

(***************************************************************************)
(* What the agent goes by is the newest it ever had and fits its release.  *)
(***************************************************************************)
DecisionsAreKept == NothingOlder /\ ContractFits
=============================================================================
