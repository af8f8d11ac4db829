----------------------------- MODULE AgentUpdate -----------------------------
(***************************************************************************)
(* The native update (src/internal/agentupdate): `homelab-inventory-agent  *)
(* update` replaces the executable and the service definition, restarts    *)
(* the service and takes both back when a step fails.  Administrators may  *)
(* start it more than once; the update lock keeps the transactions apart.  *)
(*                                                                         *)
(* Every updater is a process with a program counter, one action per step  *)
(* of Run.  A version stands for the executable and the definition of one  *)
(* release; Name gives the text compareVersions reads.                     *)
(***************************************************************************)
EXTENDS VersionOrder

CONSTANTS
    Updaters,       \* runs of the update command
    Requesters,     \* those that may be told a release with --version
    Versions,       \* releases
    Name,           \* their names, malformed ones included
    Installed,      \* the releases one of which is installed at first
    Broken,         \* releases whose service does not stay up
    HealthChecks,   \* consecutive checks of waitForSustainedHealth
    StartRestarts,  \* the start command replaces a running process
    NeedsReload,    \* the manager keeps a definition until it is told to reload
    Environment     \* what may happen: a subset of Events

Events == {"cancel", "command", "fetch", "file", "kill", "reload", "sync"}

ASSUME UpdateAssumption ==
    /\ Requesters \subseteq Updaters
    /\ Versions \subseteq Nat \ {0}
    /\ Installed \subseteq Versions \ Broken
    /\ HealthChecks \in Nat \ {0}
    /\ {StartRestarts, NeedsReload} \subseteq BOOLEAN
    /\ Environment \subseteq Events

ASSUME NameAssumption ==
    /\ Name \in [Versions -> Texts(Identifiers \cup {""})]
    /\ \A v \in Installed : IsVersion(Name[v])

VARIABLES
    binary,     \* the release the executable is from
    service,    \* the release the service definition is from
    loaded,     \* the release of the definition the service manager uses
    serving,    \* what the service's process was started from, or Down
    wanted,     \* the service manager keeps the service up
    lock,       \* the lock file exists
    pc,         \* per updater, its next step
    target,     \* targetVersion
    saved,      \* previousBinary and previousService
    replaced,   \* the variable of the same name: the executable was written
    checks,     \* health checks passed
    troubled,   \* a step of the rollback failed
    cancelled   \* its context is cancelled

host == <<binary, service, loaded, serving, wanted>>
local == <<target, saved, replaced, checks, troubled, cancelled>>
vars == <<binary, service, loaded, serving, wanted, lock, pc, target, saved,
          replaced, checks, troubled, cancelled>>

Pair(b, s) == [binary |-> b, service |-> s]

Down == Pair(0, 0)

(* Where Run has returned: nothing to do, lock taken, an error before the  *)
(* transaction, success, the cause alone, or "rollback was incomplete".    *)
Results == {"current", "refused", "error", "updated", "rolled back", "incomplete"}

Rollback == {"undo binary", "undo service", "undo reload", "undo start", "undo health"}

Transaction ==
    {"fetch", "stop", "binary", "service", "verify", "reload", "start", "health"} \cup Rollback

Goto(u, step) == pc' = [pc EXCEPT ![u] = step]

(* Run returns; the deferred os.Remove takes the lock away. *)
Return(u, result) == Goto(u, result) /\ lock' = FALSE

-----------------------------------------------------------------------------
(***************************************************************************)
(* Before the lock: ask the application for its current release, whichever *)
(* it is by now, and compare it with the updater's own version, which is   *)
(* the installed executable's.                                             *)
(* A release asked for by name is not compared.  With --check that is all. *)
(***************************************************************************)
Newer(v) == compareVersions(Name[binary], Name[v]) < 0

ChooseCurrent(u) ==
    /\ \E v \in Versions :
          /\ IsVersion(Name[v])
          /\ target' = [target EXCEPT ![u] = v]
          /\ \/ Newer(v) /\ Goto(u, "lock")
             \/ Goto(u, "current")

ChooseRequested(u) ==
    /\ u \in Requesters
    /\ \E v \in Versions :
          /\ IsVersion(Name[v])
          /\ target' = [target EXCEPT ![u] = v]
    /\ Goto(u, "lock")

Choose(u) ==
    /\ pc[u] = "idle"
    /\ \/ ChooseCurrent(u) \/ ChooseRequested(u)
       \/ /\ "fetch" \in Environment \/ \E v \in Versions : ~IsVersion(Name[v])
          /\ Goto(u, "error")
          /\ UNCHANGED target
    /\ UNCHANGED <<host, lock, saved, replaced, checks, troubled, cancelled>>

LockAnyway(u) ==
    /\ pc[u] = "lock"
    /\ lock' = TRUE
    /\ Goto(u, "fetch")
    /\ UNCHANGED <<host, local>>

(* O_CREATE|O_EXCL *)
Lock(u) ==
    /\ pc[u] = "lock"
    /\ \/ lock' = TRUE /\ Goto(u, IF lock THEN "refused" ELSE "fetch")
       \/ "file" \in Environment /\ Goto(u, "error") /\ UNCHANGED lock
    /\ UNCHANGED <<host, local>>

(* Manifest, downloads and snapshots of the two files. *)
Fetch(u) ==
    /\ pc[u] = "fetch"
    /\ \/ /\ ~cancelled[u]
          /\ saved' = [saved EXCEPT ![u] = Pair(binary, service)]
          /\ Goto(u, "stop")
          /\ UNCHANGED lock
       \/ /\ "fetch" \in Environment \/ cancelled[u]
          /\ Return(u, "error")
          /\ UNCHANGED saved
    /\ UNCHANGED <<host, target, replaced, checks, troubled, cancelled>>

-----------------------------------------------------------------------------
(***************************************************************************)
(* Commands.  A cancelled context fails every command; a command that      *)
(* fails may have had its effect.                                          *)
(***************************************************************************)
MayFail(u) == cancelled[u] \/ "command" \in Environment

StopService == serving' = Down /\ wanted' = FALSE

Definition == IF NeedsReload THEN loaded ELSE service

StartService ==
    /\ wanted' = TRUE
    /\ serving' = IF StartRestarts \/ serving = Down THEN Pair(binary, Definition) ELSE serving

StopKeepsLock(u) ==
    /\ pc[u] = "stop"
    /\ \/ ~cancelled[u] /\ StopService /\ Goto(u, "binary")
       \/ MayFail(u) /\ UNCHANGED <<serving, wanted>> /\ Goto(u, "error")
    /\ UNCHANGED <<binary, service, loaded, lock, local>>

(* A stop that fails ends Run without a restart. *)
Stop(u) ==
    /\ pc[u] = "stop"
    /\ \/ ~cancelled[u] /\ StopService /\ Goto(u, "binary") /\ UNCHANGED lock
       \/ /\ MayFail(u)
          /\ StopService \/ UNCHANGED <<serving, wanted>>
          /\ Return(u, "error")
    /\ UNCHANGED <<binary, service, loaded, local>>

(***************************************************************************)
(* atomicWrite renames a synced temporary file and then syncs the          *)
(* directory: "failed" is an error before the rename, "unsure" one after.  *)
(***************************************************************************)
WriteOutcomes ==
    {"ok"} \cup (IF "file" \in Environment THEN {"failed"} ELSE {})
           \cup (IF "sync" \in Environment THEN {"unsure"} ELSE {})

ReplaceBinary(u) ==
    /\ pc[u] = "binary"
    /\ \E outcome \in WriteOutcomes :
          /\ binary' = IF outcome = "failed" THEN binary ELSE target[u]
          /\ replaced' = [replaced EXCEPT ![u] = outcome = "ok"]
          /\ Goto(u, IF outcome = "ok" THEN "service" ELSE "undo reload")
    /\ UNCHANGED <<service, loaded, serving, wanted, lock, target, saved, checks,
                   troubled, cancelled>>

ReplaceServiceUnchecked(u) ==
    /\ pc[u] = "service"
    /\ \E outcome \in WriteOutcomes :
          service' = IF outcome = "failed" THEN service ELSE target[u]
    /\ Goto(u, "verify")
    /\ UNCHANGED <<binary, loaded, serving, wanted, lock, local>>

ReplaceService(u) ==
    /\ pc[u] = "service"
    /\ \E outcome \in WriteOutcomes :
          /\ service' = IF outcome = "failed" THEN service ELSE target[u]
          /\ Goto(u, IF outcome = "ok" THEN "verify" ELSE "undo binary")
    /\ UNCHANGED <<binary, loaded, serving, wanted, lock, local>>

Verify(u) ==
    /\ pc[u] = "verify"
    /\ \/ ~cancelled[u] /\ Goto(u, "reload")
       \/ /\ MayFail(u) \/ binary \in Broken
          /\ Goto(u, "undo binary")
    /\ UNCHANGED <<host, lock, local>>

(* Only systemd has a reload command. *)
Reload(u) ==
    /\ pc[u] = "reload"
    /\ \/ /\ ~cancelled[u]
          /\ loaded' = service
          /\ Goto(u, "start")
       \/ /\ NeedsReload
          /\ MayFail(u) \/ "reload" \in Environment
          /\ Goto(u, "undo binary")
          /\ UNCHANGED loaded
       \/ /\ ~NeedsReload /\ cancelled[u]
          /\ Goto(u, "start")
          /\ UNCHANGED loaded
    /\ UNCHANGED <<binary, service, serving, wanted, lock, local>>

Start(u) ==
    /\ pc[u] = "start"
    /\ \/ ~cancelled[u] /\ StartService /\ Goto(u, "health")
       \/ /\ MayFail(u)
          /\ StartService \/ UNCHANGED <<serving, wanted>>
          /\ Goto(u, "undo binary")
    /\ checks' = [checks EXCEPT ![u] = 0]
    /\ UNCHANGED <<binary, service, loaded, lock, target, saved, replaced,
                   troubled, cancelled>>

CheckOnceMore(u, next) ==
    /\ checks' = [checks EXCEPT ![u] = @ + 1]
    /\ IF checks'[u] > HealthChecks THEN Return(u, next) ELSE UNCHANGED <<lock, pc>>

OneCheck(u, next) ==
    /\ checks' = [checks EXCEPT ![u] = @ + 1]
    /\ IF checks'[u] = HealthChecks THEN Return(u, next) ELSE UNCHANGED <<lock, pc>>

Health(u) ==
    /\ pc[u] = "health"
    /\ \/ ~cancelled[u] /\ serving # Down /\ OneCheck(u, "updated")
       \/ /\ MayFail(u) \/ serving = Down
          /\ Goto(u, "undo binary")
          /\ UNCHANGED <<lock, checks>>
    /\ UNCHANGED <<host, target, saved, replaced, troubled, cancelled>>

-----------------------------------------------------------------------------
(***************************************************************************)
(* The rollback closure.  It goes on after an error and reports it at the  *)
(* end.  When the executable could not be replaced it starts at the reload *)
(* and leaves the files alone: replaced is FALSE.                          *)
(***************************************************************************)
UndoBinary(u) ==
    /\ pc[u] = "undo binary"
    /\ \E outcome \in WriteOutcomes :
          /\ binary' = IF outcome = "failed" THEN binary ELSE saved[u].binary
          /\ troubled' = [troubled EXCEPT ![u] = outcome # "ok"]
    /\ Goto(u, "undo service")
    /\ UNCHANGED <<service, loaded, serving, wanted, lock, target, saved, replaced,
                   checks, cancelled>>

UndoServiceQuietly(u) ==
    /\ pc[u] = "undo service"
    /\ \E outcome \in WriteOutcomes :
          service' = IF outcome = "failed" THEN service ELSE saved[u].service
    /\ Goto(u, "undo reload")
    /\ UNCHANGED <<binary, loaded, serving, wanted, lock, local>>

UndoService(u) ==
    /\ pc[u] = "undo service"
    /\ \E outcome \in WriteOutcomes :
          /\ service' = IF outcome = "failed" THEN service ELSE saved[u].service
          /\ troubled' = [troubled EXCEPT ![u] = @ \/ outcome # "ok"]
    /\ Goto(u, "undo reload")
    /\ UNCHANGED <<binary, loaded, serving, wanted, lock, target, saved, replaced,
                   checks, cancelled>>

(* The result of the reload is ignored. *)
UndoReload(u) ==
    /\ pc[u] = "undo reload"
    /\ Goto(u, "undo start")
    /\ \/ ~cancelled[u] /\ loaded' = service
       \/ cancelled[u] /\ UNCHANGED loaded
       \/ "reload" \in Environment /\ UNCHANGED loaded
    /\ UNCHANGED <<binary, service, serving, wanted, lock, local>>

UndoStart(u) ==
    /\ pc[u] = "undo start"
    /\ \/ ~cancelled[u] /\ StartService /\ Goto(u, "undo health") /\ UNCHANGED lock
       \/ /\ MayFail(u)
          /\ StartService \/ UNCHANGED <<serving, wanted>>
          /\ Return(u, "incomplete")
    /\ checks' = [checks EXCEPT ![u] = 0]
    /\ UNCHANGED <<binary, service, loaded, target, saved, replaced,
                   troubled, cancelled>>

UndoHealth(u) ==
    /\ pc[u] = "undo health"
    /\ \/ /\ ~cancelled[u] /\ serving # Down
          /\ OneCheck(u, IF troubled[u] THEN "incomplete" ELSE "rolled back")
       \/ /\ MayFail(u) \/ serving = Down
          /\ Return(u, "incomplete")
          /\ UNCHANGED checks
    /\ UNCHANGED <<host, target, saved, replaced, troubled, cancelled>>

-----------------------------------------------------------------------------

(* An interrupt reaches the updater; Run goes on with a cancelled context. *)
Cancel(u) ==
    /\ "cancel" \in Environment
    /\ pc[u] \in Transaction \cup {"lock"}
    /\ ~cancelled[u]
    /\ cancelled' = [cancelled EXCEPT ![u] = TRUE]
    /\ UNCHANGED <<host, lock, pc, target, saved, replaced, checks, troubled>>

(* The updater is killed; nothing it deferred runs. *)
Kill(u) ==
    /\ "kill" \in Environment
    /\ pc[u] \in Transaction \cup {"lock"}
    /\ Goto(u, "killed")
    /\ UNCHANGED <<host, lock, local>>

Step(u) ==
    \/ Choose(u) \/ Lock(u) \/ Fetch(u) \/ Stop(u)
    \/ ReplaceBinary(u) \/ ReplaceService(u) \/ Verify(u) \/ Reload(u) \/ Start(u) \/ Health(u)
    \/ UndoBinary(u) \/ UndoService(u) \/ UndoReload(u) \/ UndoStart(u) \/ UndoHealth(u)

(* The service manager (external). *)
ServiceDies ==
    /\ serving # Down
    /\ serving.binary \in Broken
    /\ serving' = Down
    /\ UNCHANGED <<binary, service, loaded, wanted, lock, pc, local>>

ServiceRespawns ==
    /\ wanted
    /\ serving = Down
    /\ serving' = Pair(binary, Definition)
    /\ UNCHANGED <<binary, service, loaded, wanted, lock, pc, local>>

(* Every updater has returned or was killed. *)
AllEnded ==
    /\ \A u \in Updaters : pc[u] \in Results \cup {"killed"}
    /\ UNCHANGED vars

Init ==
    /\ binary \in Installed /\ service = binary /\ loaded = binary
    /\ serving = Pair(binary, binary)
    /\ wanted = TRUE
    /\ lock = FALSE
    /\ pc = [u \in Updaters |-> "idle"]
    /\ target = [u \in Updaters |-> binary]
    /\ saved = [u \in Updaters |-> Pair(binary, binary)]
    /\ replaced = [u \in Updaters |-> FALSE]
    /\ checks = [u \in Updaters |-> 0]
    /\ troubled = [u \in Updaters |-> FALSE]
    /\ cancelled = [u \in Updaters |-> FALSE]

Next ==
    \/ \E u \in Updaters : Step(u) \/ Cancel(u) \/ Kill(u)
    \/ ServiceDies \/ ServiceRespawns
    \/ AllEnded

Spec == Init /\ [][Next]_vars

(* Every updater keeps running: the commands and requests it waits for end *)
(* (the HTTP client has a timeout).                                        *)
FairSpec == Spec /\ \A u \in Updaters : WF_vars(Step(u))

-----------------------------------------------------------------------------

Releases == [binary : Versions, service : Versions]

FilesTyped ==
    /\ binary \in Versions /\ service \in Versions /\ loaded \in Versions
    /\ serving \in Releases \cup {Down}
    /\ target \in [Updaters -> Versions]
    /\ saved \in [Updaters -> Releases]

ControlTyped ==
    /\ pc \in [Updaters -> {"idle", "lock", "killed"} \cup Transaction \cup Results]
    /\ checks \in [Updaters -> 0 .. HealthChecks]
    /\ \A u \in Updaters : pc[u] \in {"health", "undo health"} => checks[u] < HealthChecks

FlagsTyped ==
    /\ wanted \in BOOLEAN /\ lock \in BOOLEAN
    /\ replaced \in [Updaters -> BOOLEAN]
    /\ troubled \in [Updaters -> BOOLEAN]
    /\ cancelled \in [Updaters -> BOOLEAN]

(* Every variable has the shape of the code's state. *)
TypeOK == FilesTyped /\ ControlTyped /\ FlagsTyped

Active == {u \in Updaters : pc[u] \in Transaction}

(***************************************************************************)
(* The lock file does its work: two updates never work on the files and    *)
(* the service at the same time, and the lock exists as long as one does.  *)
(***************************************************************************)
OneTransaction ==
    /\ \A u, v \in Active : u = v
    /\ Active # {} => lock

(* The executable was renamed and its directory not synced: the rollback   *)
(* takes it for not replaced (update.go:166).                              *)
Unsynced(u) ==
    /\ "sync" \in Environment
    /\ ~replaced[u]
    /\ Pair(binary, service) = Pair(target[u], saved[u].service)

(***************************************************************************)
(* A failed update that does not report an incomplete rollback has left    *)
(* the prior executable, the prior definition and a service running on     *)
(* both ("restores the prior binary and service definition").  The         *)
(* exception is a replacement that fails after its rename.                 *)
(***************************************************************************)
RolledBackIsPrior ==
    [][\A u \in Updaters : pc[u] # "rolled back" /\ pc'[u] = "rolled back" =>
          /\ Pair(binary, service) = saved[u] \/ Unsynced(u)
          /\ StartRestarts => serving = Pair(binary, service)]_vars

(***************************************************************************)
(* An update that reports success has installed both files of its release  *)
(* and the service was running on them at its last health check.           *)
(***************************************************************************)
UpdatedIsTarget ==
    [][\A u \in Updaters : pc[u] # "updated" /\ pc'[u] = "updated" =>
          /\ Pair(binary, service) = Pair(target[u], target[u])
          /\ serving = Pair(target[u], target[u])]_vars

(* An update by another updater got as far as the executable, and it is    *)
(* over (or its updater was killed).                                       *)
Interfered(u) ==
    \E v \in Updaters \ {u} : pc[v] \in {"updated", "rolled back", "incomplete", "killed"}

(***************************************************************************)
(* An update that follows the application replaces the executable only by  *)
(* a release semantic versioning ranks above it, also when the application *)
(* goes back to an older release.  The exceptions are an update by someone *)
(* else between its comparison and its lock (update.go:87), and two        *)
(* prereleases of one X.Y.Z with an identifier that strconv.Atoi misreads  *)
(* (version.go:87).                                                        *)
(***************************************************************************)
NeverDowngrades ==
    [][\A u \in Updaters \ Requesters : pc[u] = "binary" /\ binary' # binary =>
          \/ Precedes(Name[binary], Name[target[u]])
          \/ Misordered(Name[binary], Name[target[u]])
          \/ Interfered(u)]_vars

(***************************************************************************)
(* An update ends and gives the lock back, on every path through Run,      *)
(* unless an updater was killed.                                           *)
(***************************************************************************)
LockIsReleased == lock ~> (~lock \/ \E u \in Updaters : pc[u] = "killed")

(***************************************************************************)
(* The inductive invariant: what an updater inside the transaction knows   *)
(* of the files and the service.                                           *)
(***************************************************************************)
FilesStaged(u) ==
    /\ pc[u] \in {"stop", "binary"} => Pair(binary, service) = saved[u]
    /\ pc[u] = "service" => binary = target[u]
    /\ pc[u] \in {"verify", "reload", "start", "health"} =>
          binary = target[u] /\ service = target[u]

ServiceStaged(u) ==
    /\ pc[u] \in {"binary", "service", "verify", "reload", "start"} => serving = Down /\ ~wanted
    /\ pc[u] \in {"start", "health"} => Definition = service
    /\ pc[u] = "health" => serving \in {Down, Pair(target[u], target[u])}

UpdateInv ==
    /\ TypeOK
    /\ OneTransaction
    /\ \A u \in Updaters : FilesStaged(u) /\ ServiceStaged(u)

(* What the rollback knows, when no reload fails behind its back.          *)
RollbackStaged(u) ==
    /\ pc[u] = "undo service" => troubled[u] \/ binary = saved[u].binary
    /\ pc[u] \in {"undo reload", "undo start", "undo health"} =>
          troubled[u] \/ Pair(binary, service) = saved[u] \/ Unsynced(u)
    /\ pc[u] = "undo start" => cancelled[u] \/ Definition = service
    /\ pc[u] = "undo health" =>
          /\ Definition = service
          /\ StartRestarts => serving \in {Down, Pair(binary, service)}

RollbackInv == UpdateInv /\ \A u \in Updaters : RollbackStaged(u)
=============================================================================
