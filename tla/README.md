# Verification of the Homelab Inventory Agent

This directory holds TLA+ models of the Homelab Inventory Agent (`src/`), the
TLC configurations that check them on small instances, and proofs for every
value of the constants that TLAPS checks. `PROJECT.json` says which lines of
the source each definition stands for.

Contents: [the system](#1-the-system) · [modules](#2-modules-and-the-code) ·
[runs](#3-what-the-runs-check) · [disagreements with the
documentation](#4-where-code-and-documentation-disagree) ·
[proofs](#5-what-is-proved) · [limits](#6-what-is-not-covered) ·
[plan](#7-plan)

## 1. The system

The agent is one Go process per host. It collects telemetry every host
interval, puts it into a bounded on-disk buffer, sends it to the Homelab
Inventory application as signed requests with increasing sequence numbers, and
keeps what the application decides: a contract, a monitoring policy,
reconciliation requests, revocation. A second command of the same executable
updates it; shell scripts install and remove it.

| Component | State | Operations | Correct when |
|---|---|---|---|
| Device identity (`internal/identity`) | `identity.json`: key, device, sequence; a copy in memory | LoadOrCreate, Activate, ReserveSequence | no number is used twice; the key and the device never change; whoever signs is on disk |
| Offline buffer (`internal/buffer`) | one file per heartbeat, `metadata.json` with the drop counter, limits | Open, Add, SetLimits, List, Remove, AcknowledgeDropped, ClearDropped | oldest first; never above the contract's limits when sending; every drop is counted once |
| Agent runtime (`internal/runtime/agent.go`) | contract, dormant-state file, telemetry state, monitoring policy | Run, Contract, Collect, Flush, SubmitHardwareSnapshot | a heartbeat is deleted only when it is stored; delivery is in order, at most once; a revoked agent is silent |
| Compact telemetry (`telemetry_delta.go`) | per family a revision and hashes, in memory and in `telemetry-sync.json` | buildCompactHeartbeat, deltaFamily | applying the deltas gives a state the host had; every disturbance heals |
| Contract cache, monitoring policy (`contract_cache.go`, `monitoring_config.go`) | `contract.json`, `monitoring-config.json` | Contract, applyMonitoringConfig | never goes back; fits the running release |
| Transport client (`internal/transport`) | none | SendHeartbeat, SendHardwareSnapshot, FetchContract, Activate | an exchange ends within 20 s; its request may still arrive afterwards |
| Host collectors (`internal/collectors`) | GPU aggregation, cached lists, cached API prefix, the counters read last | Start, Collect | each reading is handed to one heartbeat; a repeated list is not old; a rate never exceeds what was used; what is collected passes the agent's own validation |
| Inventory socket (`internal/inventoryscan`) | one connection at a time | serve, submit | a command reports what is true of the application; nobody waits for ever |
| Native updater (`internal/agentupdate`) | lock file, executable, service definition, running service | Run | success runs the target, failure the prior release; one at a time; never back to an older release unasked |
| Installers (`packaging/*.sh`) | files, state directory, group membership, service | install, upgrade, uninstall | a failed installation leaves the host as it was |

How they interact: `cmd/agent` loads the identity, opens the buffer and starts
`Run` and the socket server. The main loop and the socket's goroutine share the
identity (and its sequence) and the HTTP client; the sampling goroutine and the
main loop share the GPU aggregation under a mutex. Everything that has to
survive a restart is a file replaced by a rename. Responses to heartbeats carry
the monitoring policy and reconciliation requests back into the main loop. The
updater and the scripts replace files under the running service and restart it
through the service manager.

What is hard: a number is reserved (on disk) before it is used, with another
goroutine reserving in between; an answer may be lost while the request was
stored; eviction removes what Flush is about to send; a process may die between
any two files; a rename may have happened although the call reports an error;
the rollback of an update or installation itself runs commands that fail. The
list with its source lines is `hazards` in `PROJECT.json`.

## 2. Modules and the code

| Module | Models | Built on |
|---|---|---|
| `Identity` | identity.go | |
| `Queue` | queue.go, one action per file it changes | |
| `HeartbeatChannel` | what delivery promises (abstract) | |
| `Delivery` | agent.go's main loop, SubmitHardwareSnapshot, client, application | `I == INSTANCE Identity`, `Q == INSTANCE Queue` |
| `TelemetrySync` | telemetry_delta.go and what Flush does with its results | |
| `Policy` | contract cache, monitoring policy, restarts with other releases | |
| `HostCollector` | the Linux collector's goroutine and caches | EXTENDS `Policy` |
| `VersionOrder` | version.go, and the precedence of semantic versioning as its reference | |
| `AgentUpdate` | agentupdate.Run on a systemd, OpenRC or FreeBSD host | EXTENDS `VersionOrder` |
| `Installer` | install.sh (and install-freebsd.sh) with cleanup, the service, uninstall | |
| `InventorySocket` | socket.go, the command and the daemon's socket with their timeouts | |
| `CounterRates` | the rates of systemd services, containers and the processor | |
| `Sampling` | the rounds of Run: what a heartbeat carries, its validation, the queue | EXTENDS `CounterRates` |
| `StoreProofs` | theorems about `Identity` and `Queue` | INSTANCE of both |
| `UpdateProofs` | theorems about `VersionOrder` and `AgentUpdate` | EXTENDS `AgentUpdate` |
| `DeliveryProofs`, `TelemetryProofs`, `CollectorProofs`, `InstallerProofs`, `SocketProofs`, `SamplingProofs` | the theorems of one module each | the module of that name (`TelemetrySync`, `HostCollector` and `InventorySocket` for the second, third and fifth) |
| `MC*` | values of constants that a .cfg cannot write | |

Where a step ends. An action is everything the code does between two points at
which someone else can interfere or the process can die with an effect: a
network exchange, a file replacement, a command of the service manager, an
unlocked section between two goroutines. Program counters (`pc`) are named
after what is about to happen.

* **Identity.** `persistLocked` is the replacement of the file with three
  outcomes: `ok`, `failed` (the file is as before) and `unsure` (the rename
  happened, an error is returned all the same). `ReserveSequence` returns a
  number only on `ok`; `CrashInReserve` dies after the rename. Sequence numbers
  end at `MaxSequence`, which stands for `^uint64(0)`.
* **Queue.** `files` maps sequence numbers to bodies. `Add` and `SetLimits`
  write and leave the buffer in phase `enforce`; `EvictOldest` removes one file
  each, `CountDropped` writes the counter, `EnforceFails` returns early. So a
  crash or an error can separate removals from their count, as in the code.
  `lost` and `credited` are history.
* **Delivery.** The main goroutine's `pc` runs off → boot → (limits) → tick →
  build → add → flush → send → await → remove → ack. `request` holds the
  exchange in flight per endpoint; after a timeout the request moves to `late`
  and may still be accepted. The application accepts a number above the highest
  accepted one of its replay window; `SharedWindow` says whether there is one
  window per device or one per endpoint, which this repository does not
  determine. `disturbed` notes that something went wrong since Flush began.
* **TelemetrySync.** One family of keyed resources. `mem` and `disk` are
  `Agent.telemetry` and the file. Building a heartbeat changes the family in
  memory before the file is written, as the shared map does in the code. Hashes
  are represented by the states they digest; time by whether the last full
  family is younger than six hours.
* **Policy / HostCollector.** Contracts and policies are numbered in their order
  of publication; `Fits` says which release has which schema digest. A contract
  that does not fit is an error of the client's own and leads to the cached one,
  as a request without an answer does (`UseCached`). The
  collector's actions follow `Collect` from the GPU drain to the container list
  with its one renegotiation. `lists` keeps when a list was attempted and read;
  the interval in effect comes from contract and policy.
* **VersionOrder.** A name is its core, its prerelease identifiers and whether it
  has build metadata. An identifier keeps whether it consists of digits and of
  what value, whether and to what `strconv.Atoi` reads it, whether it is padded,
  and its rank among strings. `compareVersions` and its parts follow the code and
  use what Atoi reads; `Precedes` is written from semantic versioning, uses the
  digits and their value, and only properties use it. The two differ where an
  identifier is `Misread`: `-1` is a number to Atoi, and digits beyond `MaxInt`
  are not.
* **AgentUpdate.** `pc[u]` walks through `Run`; the rollback is the `undo`
  steps. `serving` is what the running process was started from: executable and
  the definition the manager had loaded (`loaded`, where a manager has a reload
  command). `troubled` is what the rollback reports as incomplete.
* **Installer.** One action per command of the script. A failing command and a
  signal both lead to `cleanup` (the trap); a signal in cleanup starts it
  again. The service runs beside the script and goes on sending wherever it was
  not stopped. `readable` is whether config.json belongs to the group of the
  unprivileged service.
* **InventorySocket.** `pc` is the server's loop; `backlog` are connections the
  kernel has completed, `serving` the one being handled. Time passes in units of
  5 s and only while the server waits for its peer or for the application;
  `deadline` and `timeout` count the 15 s of the connection and the 20 s of the
  HTTP client. A submission that was given up travels on in `late`. `held` and
  `doubtful` are history.
* **CounterRates / Sampling.** `counter` is what the system shows of a service or
  container, `used` (history) what it really used over all its starts, `base`
  (history) the same at the beginning of the collection from which the next rate
  counts its time. Between any two counters that are read, the host may use,
  stop, start or unload anything. A host is given by the sizes of its lists
  (`Inventories`), a heartbeat by the sizes it carries; each reader of the code
  is an operator of its name that says where it stops. `crowded` are the families
  of which `Agent.telemetry` holds more than 512 keys, any of which the next
  compact heartbeat may report as removed, `crowdedFile` those of its file. They
  change although the heartbeat is refused, because the map of families is
  shared. `oversized` (history) says that the host was one of those the code is
  known not to fit.

## 3. What the runs check

Everything under "holds" is checked by TLC over all behaviours of the instance.
All configurations check for deadlock; where the system stops for good (all
updaters ended), the module has an explicit stuttering action.

| Run | Configuration | What holds |
|---|---|---|
| identity | MCIdentity | numbers increase strictly through failed writes and crashes; a number's signer is on disk |
| queue | MCQueue | eviction is FIFO; the counter never claims a drop that did not happen; `Add` never evicts its own entry |
| delivery_faults | DeliveryFaults | delivery implements `HeartbeatChannel`; a "replay" answer means stored; dormant means silent; Flush sends from a buffer within the contract; an undisturbed Flush empties the buffer |
| telemetry | TelemetrySync | the application's copy is a state the host had, and the file agrees with it on the revision both have |
| telemetry_converges | TelemetryConverges | after any disturbance, restarts and an emptied state file included, the application's copy becomes and stays the host's state |
| collector | HostCollector | contracts and policies never go back and fit the release; readings are handed to one heartbeat; lists are younger than their interval; a cached API version is not why containers are missing |
| update | AgentUpdate | one transaction at a time; success runs the target; a plain error means the prior release runs; an update nobody named a release for only goes up in the order of versions; the lock is given back |
| installer | Installer | a failed script that ends its cleanup has restored the contents of the files and the identity; a successful one runs what it installed; earlier group membership survives; the counter falls behind what was sent only by the rollback |
| socket | InventorySocket | "sent for review" means stored, and an error means not stored up to three named cases; nobody is held up beyond both deadlines; every command ends |
| sampling | Sampling | no rate exceeds what was used in its time; the agent's validation refuses only hosts named in `Oversized`; once Collect has stopped to fail on a host that fits, the queue is emptied again and again, whatever failed rounds have left in it |

`delivery_ledger` and `installer_unreadable` end in a counterexample; section 4
explains them. The largest instances are `collector` (3.1 million states),
`installer` (1.7 million), `update` (550 thousand), `socket` (330 thousand) and
`sampling` (260 thousand).

### Bounds, and why they are enough

* **identity**: five numbers, two keys, two devices. Losing a number takes a
  failed write or crash, a restart and two reservations; rebinding takes a
  second key or device.
* **queue**: four entries with sizes one and two, limits of one to three samples
  and one to four units. Either limit can be the one exceeded, by one entry or
  several; a body can be too large for the limit.
* **delivery_faults**: four numbers, a buffer opened with three and limited to
  two by the contract. One heartbeat can be evicted, one stored with its answer
  lost, one queued, and one number held by a snapshot or by Collect at the same
  time. Every kind of event is enabled.
* **delivery_ledger**: six numbers, which leave room for two reporting heartbeats
  and a later drop; only the network fails.
* **telemetry**: two resources (one may change while the other is removed), a
  buffer of two, seven revisions: an evicted delta, a gap, and two full
  families. The process does not stop in this run: a stop between queueing and
  writing uses a revision twice, and the application's copy can then be wrong
  until the next full family. That this heals is what the next run shows.
* **telemetry_converges**: one resource, two capability maps, a buffer of one and
  five revisions, two of which are left to the calm phase.
* **collector**: two releases, contracts, policies and API versions, two
  readings, a clock of three units that covers a service interval and a tick.
* **update**: two updaters, one of which may be told a release, and five
  releases: 1.0.0-rc.2, whose service does not stay up, 1.0.0-rc.10, which a
  comparison of texts would put before it, 1.0.0+1, a malformed name, and
  1.0.0-rc.-2, which Atoi misreads; two health checks. Installed is the second or
  the fifth: from the fifth, one update can overtake another that also goes up by
  the code's order. Two updaters suffice for the lock. The environment has cancellations,
  kills, failing commands, downloads, writes and syncs, and an application whose
  current release is any of them whenever it is asked. Silent failures of a reload
  are left out: with them `RolledBackIsPrior` fails (see section 5).
* **installer**: two releases and keys, one script, two health checks, numbers
  up to two. Every command, file operation and signal may fail or happen. One
  script never meets what an earlier one left behind, for instance a service
  that an uninstall could not stop and that a later script enrolls beside;
  several scripts in a row are covered by the theorems, whose invariant was
  model-checked on smaller instances of two and three first. There the
  properties' first forms turned out to hold of one script only.
* **socket**: two commands of root, one of which may stop before it has written,
  and another account; the timeouts in the proportion of the code (3 and 4
  units). Two connections wait while one is handled, and the submission can
  outlast the connection.
* **sampling**: one service and one container, which share no state, with two
  units of use and one step of the clock: a rate needs two readings and one
  interval, a wrong one a restart or failure between them. The hosts are at every
  limit of the protocol or just over one or several, a list of 1025 processors
  and one of more than 512 filesystems included; the limits are the code's.

### Fairness, and why the code justifies it

* `Delivery!FairSpec`: weak fairness of the main goroutine's steps (the Go
  scheduler runs it) and of "the application answers or the client times out"
  (`http.Client` has a 20 s timeout). Nothing is assumed of crashes, restarts
  or the snapshot goroutine. `FlushDrains` therefore says: from the first send,
  the buffer becomes empty or something disturbs the Flush.
* `TelemetrySync!FairSpec`: weak fairness of the agent's loop (a ticker) and of
  time passing. `Converges` starts when the environment is calm.
* `AgentUpdate!FairSpec`: weak fairness of each updater's steps; commands and
  downloads end (the HTTP client has a 30 s timeout, commands are waited for).
  An updater that is killed is exempted by `LockIsReleased`.
* `InventorySocket!FairSpec`: weak fairness of the server's steps, of time, and
  of the write of a command that does not stall. Nothing is assumed of the
  application: its silence ends with the timeout.
* `Sampling!FairSpec`: weak fairness of the rounds (a ticker) and strong fairness
  of a successful Flush: an application that is reached again and again in the
  rounds that get to Flush answers at some time. `QueueDrains` assumes that from
  some time on Collect does not fail for reasons other than validation, the host
  fits and the process is not restarted.

## 4. Where code and documentation disagree

1. **delivery_ledger** (queue.go:247). Heartbeats that were queued offline carry
   the same `droppedSamples`. Each acknowledgement subtracts it from the one
   counter, so two of them erase drops that no heartbeat reported.
2. **installer_unreadable** (install.sh:239). Backups are made with plain `cp`
   by root; the rollback brings `config.json` back as root:root 0640. The prior
   service, restarted as `homelab-inventory-agent`, cannot open it. Every
   rollback after the backup ends this way, on Linux and FreeBSD.

More behaviours are kept visible as named exceptions of properties that hold
otherwise; without its exception each of them fails:

* `RolledBackIsPrior` excepts `Unsynced` (update.go:166): `atomicWrite` may fail
  in the directory sync after the rename; `replaced` is still false, and the
  rollback starts the new executable under the old definition and reports only
  the cause.
* `CounterFallsInRollback` excepts the restored state directory (install.sh:141):
  `identity.json` comes back with the sequence of before the upgrade, below
  numbers the new release has used. The next heartbeats are refused as replays,
  and Flush deletes what is refused as a replay. From then on the counter is
  behind; a service that goes on from it (`Straggles`) keeps it there.
* `NeverDowngrades` excepts an update that another one overtook between its
  comparison and its lock (update.go:87), and two prereleases of one X.Y.Z with
  an identifier that `strconv.Atoi` reads otherwise than semantic versioning does
  (`Misordered`, version.go:87): of 1.0.0-rc.-2 and 1.0.0-rc.2 the code installs
  the second over the first unasked, and semantic versioning has them the other
  way round. The order is strict all the same (`ComparisonIsStrict`).
* `ErrorMeansNotStored` (in `ReportsAreTrue`) excepts a submission whose answer
  was lost, a process that ended under the command, and a submission that
  outlasts the connection: the socket's deadline of 15 s is shorter than the
  20 s of the HTTP client (socket.go:102), and after it even a success cannot be
  written back.
* `CollectedIsValid` excepts the hosts of `Oversized`. Without compact telemetry
  the protocol allows 64 filesystems, but the Linux reader stops at 256 and
  FreeBSD's at nothing, and 128 ports per container, which nothing cuts; with it,
  512 filesystems on FreeBSD, changed or removed: after more than 512 were
  collected, the next heartbeat may be refused for its removed keys. More than
  1024 processors exceed the bound on arrays of metrics (models.go:265) unless
  telemetry is compact. And either heartbeat may be larger than the contract
  allows. The lengths of texts and the number and depth of an object's fields
  (models.go:217) are not modelled. Every Collect of such a host fails, and since
  a failed Collect skips Flush (agent.go:446), heartbeats that were queued before
  are not sent either.
* `FailedMeansRestored` excepts (`spoiled`) a service that the script started
  and that writes its identity over the restored state directory before it is
  restarted (install.sh:138), and backups that are themselves cut short or
  already being removed. `InstalledIsRunning` excepts the first of these too,
  for the identity only: a service that an uninstall could not stop writes its
  own over the one a later script enrolled.
* `LockIsReleased` excepts a killed updater, whose lock file nobody removes
  (update.go:102).

## 5. What is proved

All theorems hold for every value of the constants that satisfies the named
assumptions of the modules (`IdentityAssumption`, `QueueAssumption`,
`DeliveryAssumption`, `TelemetryAssumption`, `PolicyAssumption`,
`HostCollectorAssumption`, `OrderAssumption`, `UpdateAssumption`,
`NameAssumption`, `InstallerAssumption`, `SocketAssumption`,
`MetersAssumption`, `SamplingAssumption`), and TLC evaluates these assumptions
on the runs of those modules. Type correctness is a theorem for each module
that keeps state, and so is every other invariant and every action property of
the passing runs, and the refinement. Three of these have a further hypothesis,
named below. In most proofs the property itself is not inductive; what is added
to it, and why:

* **StoreProofs.** `IdentityInv`: the file is never behind memory
  (`DiskAheadOfMemory`), and everything handed out is at most the number on disk
  (`IssuedIsPersisted`). `SequencesIncrease` alone is not inductive: from a state
  with an old file, a crash would bring an old number back. From the invariant
  follow `SignerIsOnDisk` and the action property `BindingIsFinal`. `QueueInv`
  adds to FIFO eviction and honest counting that the set of lost entries is
  finite, which its cardinality needs. A step removes the oldest entry and makes
  it the newest lost one. `AddKeepsItsEntry` needs no invariant but types: the
  entry just added is the newest, so an eviction that takes it finds it alone,
  and `Add` has refused a body that is too large alone.
* **DeliveryProofs.** `DeliveryCore` holds whatever the application's replay
  window is: goroutine, identity and buffer agree on the stage (`StagesAgree`);
  Flush works on the oldest entry and holds the rest (`FlushInOrder`); past the
  first contract the limits are a contract's, and from the end of an `Add` the
  buffer is within them (`LimitsAreKept`); an answer "revoked" is never wrong
  (`DormantIsKnown`). From it: `DormantMeansSilent` and `BufferIsBounded`. The
  second is not obvious because evictions are separate steps and `SetLimits` may
  shrink the limit between them: `StagesAgree` ties the buffer's unfinished
  phase to the two stages that end it. Assuming `~SharedWindow`, `DeliveryInv`
  is inductive as well. It adds that numbers in the buffer, stored or lost are
  reserved and below the one Collect holds (`UsedIsReserved`); the application's
  window covers exactly what it stored (`WindowIsCommitted`); Flush removes only
  what the application has (`RemovesTheCommitted`); a late request is not above
  anything queued (`LateInOrder`); only the oldest entry may be stored already
  (`OnlyTheOldestIsResent`). From it: `ReplayMeansCommitted`, and that every
  step is a step of `HeartbeatChannel` or a stutter
  (`DeliveryImplementsChannel`). With `SharedWindow` this part fails: a snapshot
  overtakes a queued heartbeat, which is then refused as a replay and deleted
  although it was never stored. Which of the two holds is decided by the
  application.
* **TelemetryProofs.** `ViewsAgree` compares the application's copy with the
  present host only where the revisions meet. `TelemetryInv` says it of every
  heartbeat on its way: revisions ascend through file, application, queue and
  memory (`RevisionsInOrder`); whoever has the newest revision has the newest
  state (`NewestAgree`); a queued delta leads from the state of the revision
  before it, queued or applied, to its own (`ChangesFollow`); the file is the
  state of the revision it carries (`FileAgrees`). The proof treats every step as
  keeping the queue or dropping its head, so that evictions and answers share
  their lemmas. The hypothesis `NeverStops` (neither "stop" nor "power" is in
  `Environment`) is needed: a process that ends between queueing a heartbeat and
  writing the file uses that revision again for another state. What then heals
  it is `Converges`.
* **InstallerProofs.** `FailedMeansRestored` speaks of the end of a script; the
  invariant says at each step what cleanup would find. A file that is not as it
  was found has a backup that is (`Covered`, `FilesAreCovered`), and so has the
  identity once the state directory is marked as saved (`StateIsCovered`). This
  survives a signal at any step, because a cleanup that begins again only
  repeats what it did. `AddedByThisScript` and `RestingIsClean` are for
  `AccessIsKept`: the mark that a membership was added comes after it and never
  outlives its script. `TargetIsInstalled` and `UpgradeKeeps` carry success. For
  the counter, `CounterIsShared` says that a service running beside an
  enrollment has the identity of the directory. Number of scripts, releases,
  keys, both kinds of `start` and every failure are arbitrary.
* **CollectorProofs.** `DecisionsAreKept` is not inductive, because a start takes
  over what a former process left in its files: `FilesKept` says that the files
  hold at least what was ever in use and nothing that was never published,
  `StartKept` that what a start has taken from them fits the release that
  starts. `ListsKept` says that an available list is the one of its last attempt,
  `VersionKept` that a version asked for anew is outdated only by an upgrade
  since. `ReadingsReportedOnce` is inductive together with the fact that nothing
  was taken before the sampler started. It is about the way from the sampler to a
  heartbeat: when that heartbeat's Collect fails afterwards, the readings in it
  are gone, as in the code.
* **UpdateProofs**, of `VersionOrder`: `compareVersions(x, y) = -1` exactly when
  x precedes y as semantic versioning says (`CompareIsPrecedence`), unless x and
  y are `Misordered`. Where they are, the code's order is another one, but still
  irreflexive and transitive (`ComparisonIsStrict`), so that no chain of updates
  leads back to a release. Both follow from one lemma, that the comparison is the
  precedence over whatever order of single identifiers the code uses
  (`CompareIsNameOrder`); on identifiers that are not misread that order is
  semantic versioning's (`OrdersCoincide`). The one fact about recursion this needs, that two
  different sequences differ first somewhere, is a lemma about least elements.
  `CompareDecides` says that 0 means the same release up to build metadata, and
  that exchanging the names exchanges the answer. The second needs that the two
  names do not spell one number in two ways: `parseVersion` admits leading zeros
  in prerelease identifiers, which semantic versioning does not, and of
  `1.0.0-01` and `1.0.0-1` each is then taken to be above the other
  (version.go:93), so that neither replaces the other unasked.
* **UpdateProofs**, of `AgentUpdate`: `UpdateInv` is mutual exclusion by the
  lock, and at each stage which files are in place and whether the service is
  down. Mutual exclusion is needed for the rest, because one updater's stage
  speaks of files another could write. `LockHasOwner` is the safety half of
  `LockIsReleased`: while the lock exists an update is at work or an updater was
  killed. `RollbackRestores` has the further assumption that no reload fails
  silently (`"reload"` is not in `Environment`), which can start the prior
  executable under the new definition. `FollowersNeverDowngrade` cites
  `CompareIsPrecedence` and has its exception; its invariant says that what an updater compared is
  still installed unless another has got that far.
* **SocketProofs.** A client is in one place (`OnePlace`), the outcome about to
  be written agrees with what the application stored (`OutcomeIsFaithful`), a
  stored snapshot is that of a command that is answered, being served or doubtful
  (`StoredFate`), and the time a connection was held is bounded by what is left
  of its timers (`Timing`).
* **SamplingProofs.** The invariant behind `RatesAreCovered` says that since a
  value was kept its counter has grown by no more than what was used since the
  collection began that kept it (`ServicesKept`, `ContainersKept`), and the same
  of what the present command has shown so far and of the services it has passed
  by (`OutputKept`): these counted nothing before the collection.
  `LimitsAgree` holds for hosts of any size (`FittingIsValid`); it needs that
  only FreeBSD's filesystems can be more than a compact heartbeat carries
  (`CrowdedKept`), so that no other family can have too many removed keys.
  `PercentageShares` is about unsigned counters of any width whose sum does not
  overflow.

Only model-checked: the liveness properties `FlushDrains`, `Converges`,
`LockIsReleased`, `InvocationsEnd` and `QueueDrains`, since temporal reasoning
with fairness and ENABLED are beyond the prover used here. `Converges` is thus
also all that is known of the telemetry copies after a process stopped. That the
configuration is readable after a rollback and that reported drops are counted
are false (section 4) and stay runs that end in a counterexample.

## 6. What is not covered

* A second process: `-once` run by hand beside the daemon, which reserves numbers
  from the same file without a lock between processes; two installers at once.
* A power failure that undoes a rename in identity, queue, contract and policy
  files (there is no directory sync); in `TelemetrySync` it is the event `power`.
* The wall clock stepping back.
* Cryptography, the canonical request, JSON decoding and the validation of single
  fields; the manifest's and downloads' checks are one step that may fail.
* Parsing in the collectors, the CPU use of containers (which the runtime gives
  as two readings in one answer), classifying services, hardware scanning.
  Configuration, the command runner and the release tooling keep no state.
* In `CounterRates`: counters of a container that are sums over networks or
  devices, of which one may disappear; the first load FreeBSD reports, which is
  the average since boot, because its collector starts from zero counters.
* In `TelemetrySync`: requests that arrive after their timeout (`Delivery` has
  them), several families at once, heartbeats of the older non-compact protocol.
* In `HostCollector`: hosts without a supported GPU in the aggregation.
* OpenRC in the runs: there `start` leaves a running process alone
  (`StartRestarts` FALSE). The theorems about `AgentUpdate` and `Installer` cover
  it; a successful installation then does not promise that the process is of the
  new release.
* Modes and ownership, except for the group of the configuration.

`PROJECT.json` lists every component with its status and reason.

## 7. Plan

Done, in this order: `Identity`, `Queue`, `Delivery` over both with
`HeartbeatChannel` as its abstract specification; `TelemetrySync`;
`AgentUpdate`; `Installer`; `Policy` and `HostCollector`; `VersionOrder` under
`AgentUpdate`; `InventorySocket`; `CounterRates` and `Sampling`; proofs for all
of these, so that no safety property of a passing run is left to the model
checker alone.

Next, modelling:

1. A second process in `Identity` (`-once` beside the daemon).
2. Release manifest checks in front of `AgentUpdate!Fetch`.
3. Several families at once in `TelemetrySync`, with the non-compact heartbeat.
4. OpenRC in the runs of `AgentUpdate` and `Installer`.

Next, proofs: the part of `ViewsAgree` that survives a stop after the state file
was written; safety parts of the other liveness properties, as `LockHasOwner` is
of `LockIsReleased`.
