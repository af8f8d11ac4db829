------------------------------ MODULE Installer ------------------------------
(***************************************************************************)
(* Installation, re-installation and upgrade by the packaged scripts       *)
(* (src/packaging/install.sh; install-freebsd.sh is the same transaction   *)
(* with other commands and SocketMode FALSE), with the service they        *)
(* replace and its identity, and uninstallation.                           *)
(*                                                                         *)
(* The script runs under `set -e` with one trap: a command that fails and  *)
(* a signal both end in cleanup, which restores what was backed up.  A     *)
(* step is one command with an effect.  The service runs beside the        *)
(* script wherever the script has not stopped it.                          *)
(***************************************************************************)
EXTENDS Integers, Sequences

CONSTANTS
    Versions,       \* releases that are installed
    Keys,           \* identities that enrollment may create
    MaxSequence,    \* bound on the sequence numbers of a model
    MaxInstalls,    \* bound on the scripts run in a model
    HealthChecks,   \* checks of service_is_sustained_healthy
    StartRestarts,  \* service_start replaces a running process
    SocketMode,     \* --containers-mode socket
    Environment     \* what may happen: a subset of Events

Events == {"again", "command", "die", "file", "interrupt", "torn"}

ASSUME InstallerAssumption ==
    /\ Versions \subseteq Nat \ {0} /\ Versions # {}
    /\ Keys # {} /\ {"absent", "empty"} \cap Keys = {}
    /\ {MaxSequence, MaxInstalls, HealthChecks} \subseteq Nat \ {0}
    /\ {StartRestarts, SocketMode} \subseteq BOOLEAN
    /\ Environment \subseteq Events

VARIABLES
    pc,        \* the script's next step
    at,        \* position in the loop of that step
    mode,      \* "fresh" or "upgrade"
    target,    \* the release being installed
    installs,  \* scripts started so far
    file,      \* the installed files: a release, None or Torn
    readable,  \* the configuration belongs to the service's group (mode 0640)
    state,     \* the state directory, as far as its identity goes
    secret,    \* .enrollment-code exists
    member,    \* the service account belongs to the socket's group
    saved,     \* the $temporary/*.previous and *.created files
    savedState,\* $temporary/state.previous
    marked,    \* $temporary/state.transaction exists
    added,     \* socket_group_added
    process,   \* the running service, or Down
    accepted,  \* per identity, the last number the application accepted
    before,    \* history: the host as the script found it
    spoiled    \* history: a backup was cut short or lost, or the restored
               \* state was overwritten

script == <<pc, at, mode, target, installs>>
host == <<file, readable, state, secret, member>>
backup == <<saved, savedState, marked, added>>
service == <<process, accepted>>
history == <<before, spoiled>>
vars == <<pc, at, mode, target, installs, file, readable, state, secret, member, saved, savedState, marked,
          added, process, accepted, before, spoiled>>

-----------------------------------------------------------------------------

None == 0

Torn == -1

Unsaved == -2  \* neither .previous nor .created exists

Contents == Versions \cup {None, Torn}

Entries == {"binary", "config", "service"}

(* The loops over the files, in the scripts' order. *)
BackupOrder == <<"binary", "config", "service">>

InstallOrder == IF mode = "fresh" THEN <<"binary", "service", "config">> ELSE <<"binary", "service">>

Identity(k, s) == [key |-> k, sequence |-> s]

(* No state directory; a directory without an identity. *)
Absent == Identity("absent", 0)

Empty == Identity("empty", 0)

HasIdentity == state.key \in Keys

(* Identities nobody holds or has used. *)
NewKeys == {k \in Keys : accepted[k] = 0 /\ k \notin {state.key, savedState.key, process.key}}

Down == [binary |-> None, key |-> "absent", sequence |-> 0]

Up == process # Down

(* A service that is started reads its files, or exits at once. *)
Started ==
    IF HasIdentity /\ readable /\ \A e \in Entries : file[e] \in Versions
    THEN [binary |-> file.binary, key |-> state.key, sequence |-> state.sequence]
    ELSE Down

Resting == {"idle", "installed", "failed", "aborted"}

Cleanup == {"restore", "restore_state", "restore_group", "restart", "tidy"}

Goto(step) == pc' = step /\ at' = 1

Continue(step) == Goto(step) /\ UNCHANGED <<mode, target, installs>>

(* A failing command, or a signal while one runs, leads to cleanup.  After *)
(* a signal the EXIT trap runs cleanup once more when the first run ends.  *)
Fail == Continue("restore")

MaySignal == {"again", "interrupt"} \cap Environment # {}

Discarded == [e \in Entries |-> Unsaved]

(* The temporary directory and the script's variables are gone. *)
Discard ==
    /\ saved' = Discarded
    /\ savedState' = Absent
    /\ marked' = FALSE
    /\ added' = FALSE

MayFail == {"command", "interrupt"} \cap Environment # {}

MayFailFile == {"file", "interrupt"} \cap Environment # {}

-----------------------------------------------------------------------------
(***************************************************************************)
(* Up to the backup nothing on the host changes.                           *)
(***************************************************************************)

(* Arguments are checked; an upgrade needs a configuration and identity.   *)
Begin ==
    /\ pc \in Resting
    /\ installs < MaxInstalls
    /\ installs' = installs + 1
    /\ \E m \in {"fresh", "upgrade"}, v \in Versions :
          /\ m = "upgrade" => file.config # None /\ HasIdentity
          /\ m = "fresh" => NewKeys # {}
          /\ mode' = m
          /\ target' = v
    /\ Goto("fetch")
    /\ before' = [file |-> file, key |-> state.key, member |-> member]
    /\ spoiled' = FALSE
    /\ UNCHANGED <<host, backup, service>>

(* Downloads, checksums and the candidate's -version. *)
Fetch ==
    /\ pc = "fetch"
    /\ Continue("backup") \/ (MayFail /\ Fail)
    /\ UNCHANGED <<host, backup, service, history>>

(* cp target .previous, or an empty .created where there is no target.  A  *)
(* copy that fails half way leaves its beginning as .previous.             *)
BackupAfterStop ==
    /\ pc = "backup"
    /\ Continue("account")
    /\ UNCHANGED <<host, backup, service, history>>

Backup ==
    /\ pc = "backup"
    /\ LET e == BackupOrder[at]
       IN  \/ /\ saved' = [saved EXCEPT ![e] = file[e]]
              /\ IF at < Len(BackupOrder)
                 THEN at' = at + 1 /\ UNCHANGED <<pc, mode, target, installs>>
                 ELSE Continue("account")
              /\ UNCHANGED spoiled
           \/ /\ MayFailFile
              /\ Fail
              /\ UNCHANGED <<saved, spoiled>>
           \/ /\ "torn" \in Environment
              /\ file[e] # None
              /\ saved' = [saved EXCEPT ![e] = Torn]
              /\ spoiled' = TRUE
              /\ Fail
    /\ UNCHANGED <<host, savedState, marked, added, service, before>>

NoteAlways ==
    /\ pc = "account"
    /\ added' = SocketMode
    /\ \/ Continue(IF ~SocketMode THEN "stop" ELSE IF member THEN "access" ELSE "join")
       \/ MayFail /\ Fail
    /\ UNCHANGED <<host, saved, savedState, marked, service, history>>

(***************************************************************************)
(* ensure_service_account and configure_direct_socket_access: the account  *)
(* joins the socket's group, the script notes that it did, and access is   *)
(* tried out.                                                              *)
(***************************************************************************)
Account ==
    /\ pc = "account"
    /\ \/ Continue(IF ~SocketMode THEN "stop" ELSE IF member THEN "access" ELSE "join")
       \/ MayFail /\ Fail
    /\ UNCHANGED <<host, backup, service, history>>

Join ==
    /\ pc = "join"
    /\ \/ member' = TRUE /\ Continue("note")
       \/ MayFail /\ member' \in {member, TRUE} /\ Fail
    /\ UNCHANGED <<file, readable, state, secret, backup, service, history>>

NoteJoined ==
    /\ pc = "note"
    /\ added' = TRUE
    /\ Continue("access")
    /\ UNCHANGED <<host, saved, savedState, marked, service, history>>

VerifyAccess ==
    /\ pc = "access"
    /\ Continue("stop") \/ (MayFail /\ Fail)
    /\ UNCHANGED <<host, backup, service, history>>

(* service_stop ignores failures. *)
StopService ==
    /\ pc = "stop"
    /\ \/ process' = Down /\ Continue("save")
       \/ "command" \in Environment /\ UNCHANGED process /\ Continue("save")
       \/ "interrupt" \in Environment /\ process' \in {process, Down} /\ Fail
    /\ UNCHANGED <<host, backup, accepted, history>>

(* The state directory is copied, then state.transaction says so. *)
SaveState ==
    /\ pc = "save"
    /\ \/ /\ savedState' = state
          /\ marked' = TRUE
          /\ Continue(IF mode = "fresh" THEN "wipe" ELSE "install")
       \/ /\ MayFailFile
          /\ Fail
          /\ UNCHANGED <<savedState, marked>>
    /\ UNCHANGED <<host, saved, added, service, history>>

-----------------------------------------------------------------------------
(***************************************************************************)
(* The replacement.                                                        *)
(***************************************************************************)

WipeState ==
    /\ pc = "wipe"
    /\ \/ state' = Absent /\ Continue("install")
       \/ MayFailFile /\ state' \in {state, Empty, Absent} /\ Fail
    /\ UNCHANGED <<file, readable, secret, member, backup, service, history>>

(* install(1) of the executable, the service definition and, for a fresh   *)
(* installation, the configuration, after the directories were made.       *)
InstallFile ==
    /\ pc = "install"
    /\ state' = IF state = Absent THEN Empty ELSE state
    /\ LET e == InstallOrder[at]
       IN  \/ /\ file' = [file EXCEPT ![e] = target]
              /\ IF at < Len(InstallOrder)
                 THEN at' = at + 1 /\ UNCHANGED <<pc, mode, target, installs>>
                 ELSE Continue("own")
              /\ readable' = (readable /\ e # "config")
           \/ /\ MayFailFile
              /\ \E c \in {file[e], None, Torn} : file' = [file EXCEPT ![e] = c]
              /\ readable' \in {readable, readable /\ e # "config"}
              /\ Fail
    /\ UNCHANGED <<secret, member, backup, service, history>>

(* The state directory and the configuration are handed to the service.    *)
Own ==
    /\ pc = "own"
    /\ \/ readable' = TRUE /\ Continue(IF mode = "fresh" THEN "secret" ELSE "enable")
       \/ MayFail /\ readable' \in {readable, TRUE} /\ Fail
    /\ UNCHANGED <<file, state, secret, member, backup, service, history>>

WriteSecret ==
    /\ pc = "secret"
    /\ secret' = TRUE
    /\ Continue("enroll") \/ (MayFailFile /\ Fail)
    /\ UNCHANGED <<file, readable, state, member, backup, service, history>>

(***************************************************************************)
(* The new executable runs with -once: it creates and activates an         *)
(* identity, unless it finds one, and sends one heartbeat.  It may fail    *)
(* anywhere in between.                                                    *)
(***************************************************************************)
Enroll ==
    /\ pc = "enroll"
    /\ \E k \in IF HasIdentity THEN {state.key} ELSE NewKeys :
          LET s == IF HasIdentity THEN state.sequence + 1 ELSE 1
          IN  \/ /\ s <= MaxSequence
                 /\ state' = Identity(k, s)
                 /\ accepted' = [accepted EXCEPT ![k] = IF s > @ THEN s ELSE @]
                 /\ secret' = FALSE
                 /\ Continue("enable")
              \/ /\ MayFail
                 /\ state' \in {state, Identity(k, s - 1)}
                 /\ UNCHANGED <<accepted, secret>>
                 /\ Fail
    /\ UNCHANGED <<file, readable, member, backup, process, history>>

(* service_reload and service_enable *)
Enable ==
    /\ pc = "enable"
    /\ Continue("start") \/ (MayFail /\ Fail)
    /\ UNCHANGED <<host, backup, service, history>>

(* What a start command leaves running. *)
AfterStart == IF Up /\ ~StartRestarts THEN process ELSE Started

StartService ==
    /\ pc = "start"
    /\ \/ process' = AfterStart /\ Continue("health")
       \/ MayFail /\ process' \in {process, Down, AfterStart} /\ Fail
    /\ UNCHANGED <<host, backup, accepted, history>>

HealthUnchecked ==
    /\ pc = "health"
    /\ Continue("installed")
    /\ Discard
    /\ UNCHANGED <<host, service, history>>

(* Three checks in a row; after the last one nothing is rolled back.       *)
Health ==
    /\ pc = "health"
    /\ \/ /\ Up
          /\ at < HealthChecks
          /\ at' = at + 1
          /\ UNCHANGED <<pc, mode, target, installs, secret, backup>>
       \/ /\ Up
          /\ at = HealthChecks
          /\ Continue("installed")
          /\ secret' = FALSE
          /\ Discard
       \/ /\ ~Up \/ "interrupt" \in Environment
          /\ Fail
          /\ UNCHANGED <<secret, backup>>
    /\ UNCHANGED <<file, readable, state, member, service, history>>

-----------------------------------------------------------------------------
(***************************************************************************)
(* cleanup, with rollback=1.  A command that fails here ends the script:   *)
(* `set -e` holds in a trap too.                                           *)
(***************************************************************************)

Abort ==
    \/ Continue("aborted") /\ Discard
    \/ MaySignal /\ Fail /\ UNCHANGED backup

RestoreUnsaved ==
    /\ pc = "restore"
    /\ LET e == BackupOrder[at]
       IN  file' = [file EXCEPT ![e] = saved[e]]
    /\ IF at < Len(BackupOrder)
       THEN at' = at + 1 /\ UNCHANGED <<pc, mode, target, installs>>
       ELSE Continue("restore_state")
    /\ UNCHANGED <<readable, state, secret, member, backup, service, history>>

(* The copies in the temporary directory were made by cp without -p: they  *)
(* belong to root's group, and so does what cp -p brings back.             *)
RestoreFile ==
    /\ pc = "restore"
    /\ LET e == BackupOrder[at]
           restored == IF saved[e] = Unsaved THEN file[e] ELSE saved[e]
       IN  \/ /\ file' = [file EXCEPT ![e] = restored]
              /\ IF at < Len(BackupOrder)
                 THEN at' = at + 1 /\ UNCHANGED <<pc, mode, target, installs>>
                 ELSE Continue("restore_state")
              /\ UNCHANGED backup
           \/ /\ "file" \in Environment
              /\ saved[e] \notin {Unsaved, None}
              /\ \E c \in {None, Torn} : file' = [file EXCEPT ![e] = c]
              /\ Abort
    /\ LET e == BackupOrder[at]
       IN  readable' = (readable /\ (e # "config" \/ saved[e] = Unsaved))
    /\ UNCHANGED <<state, secret, member, service, history>>

(* rm -rf of the state directory takes the enrollment code with it. *)
RestoreState ==
    /\ pc = "restore_state"
    /\ IF marked
       THEN /\ secret' = FALSE
            /\ \/ /\ state' = savedState
                  /\ Continue("restore_group")
                  /\ UNCHANGED backup
               \/ /\ "file" \in Environment
                  /\ state' \in {Absent, Empty}
                  /\ Abort
       ELSE /\ Continue("restore_group")
            /\ UNCHANGED <<state, secret, backup>>
    /\ UNCHANGED <<file, readable, member, service, history>>

(* Failures from here on are ignored. *)
RestoreGroup ==
    /\ pc = "restore_group"
    /\ \/ member' = (member /\ ~added)
       \/ "command" \in Environment /\ UNCHANGED member
    /\ Continue("restart")
    /\ UNCHANGED <<file, readable, state, secret, backup, service, history>>

Restart ==
    /\ pc = "restart"
    /\ \/ process' = AfterStart
       \/ "command" \in Environment /\ UNCHANGED process
    /\ Continue("tidy")
    /\ UNCHANGED <<host, backup, accepted, history>>

(* The enrollment code and the temporary directory are removed. *)
Tidy ==
    /\ pc = "tidy"
    /\ secret' = FALSE
    /\ \/ Continue("failed") /\ added' = FALSE
       \/ MaySignal /\ Fail /\ UNCHANGED added
    /\ saved' = Discarded
    /\ savedState' = Absent
    /\ marked' = FALSE
    /\ UNCHANGED <<file, readable, state, member, service, history>>

(***************************************************************************)
(* A signal during cleanup runs cleanup again from its start.  While the   *)
(* temporary directory is being removed, some of it is gone by then.       *)
(***************************************************************************)
Interrupted ==
    /\ "again" \in Environment
    /\ pc \in Cleanup
    /\ \/ UNCHANGED <<backup, spoiled>>
       \/ /\ pc = "tidy"
          /\ \E gone \in SUBSET Entries :
                saved' = [e \in Entries |-> IF e \in gone THEN Unsaved ELSE saved[e]]
          /\ savedState' \in {savedState, Absent}
          /\ marked' \in {marked, FALSE}
          /\ spoiled' = TRUE
          /\ UNCHANGED added
    /\ Fail
    /\ UNCHANGED <<host, service, before>>

-----------------------------------------------------------------------------
(***************************************************************************)
(* The service (see Delivery) and the uninstaller.                         *)
(***************************************************************************)

(* The script makes the directory as root and gives it away later. *)
Writable == HasIdentity \/ (state = Empty /\ pc \in {"secret", "enroll"})

SendUnpersisted ==
    /\ Up
    /\ Writable
    /\ process.sequence < MaxSequence
    /\ LET s == process.sequence + 1
       IN  /\ process' = [process EXCEPT !.sequence = s]
           /\ accepted' = [accepted EXCEPT ![process.key] = IF s > @ THEN s ELSE @]
    /\ UNCHANGED <<script, host, backup, history>>

(* A heartbeat or snapshot: the number is persisted, then sent. *)
Send ==
    /\ Up
    /\ Writable
    /\ process.sequence < MaxSequence
    /\ LET s == process.sequence + 1
       IN  /\ process' = [process EXCEPT !.sequence = s]
           /\ state' = Identity(process.key, s)
           /\ accepted' = [accepted EXCEPT ![process.key] = IF s > @ THEN s ELSE @]
    /\ spoiled' = (spoiled \/ (HasIdentity /\ state.key # process.key))
    /\ UNCHANGED <<script, file, readable, secret, member, backup, before>>

Die ==
    /\ "die" \in Environment
    /\ Up
    /\ process' = Down
    /\ UNCHANGED <<script, host, backup, accepted, history>>

Remaining(purge) ==
    [binary |-> None, service |-> None, config |-> IF purge THEN None ELSE file.config]

(* uninstall.sh, with or without --purge; stopping may fail. *)
Uninstall ==
    /\ pc \in Resting
    /\ \E purge \in BOOLEAN :
          /\ file' = Remaining(purge)
          /\ readable' = (readable /\ ~purge)
          /\ state' = IF purge THEN Absent ELSE state
          /\ secret' = (secret /\ ~purge)
          /\ member' = (member /\ ~purge)
    /\ \/ process' = Down
       \/ "command" \in Environment /\ UNCHANGED process
    /\ Continue("idle")
    /\ UNCHANGED <<backup, accepted, history>>

-----------------------------------------------------------------------------

(* A host without an agent, or one with an agent that has been at work. *)
Init ==
    /\ pc = "idle"
    /\ at = 1
    /\ mode = "fresh"
    /\ installs = 0
    /\ target = CHOOSE v \in Versions : TRUE
    /\ secret = FALSE
    /\ saved = Discarded
    /\ savedState = Absent
    /\ marked = FALSE
    /\ added = FALSE
    /\ spoiled = FALSE
    /\ \/ /\ file = [e \in Entries |-> None]
          /\ readable = FALSE
          /\ state = Absent
          /\ member = FALSE
          /\ accepted = [k \in Keys |-> 0]
       \/ \E v \in Versions, k \in Keys :
             /\ file = [e \in Entries |-> v]
             /\ readable = TRUE
             /\ state = Identity(k, 1)
             /\ member \in BOOLEAN
             /\ accepted = [x \in Keys |-> IF x = k THEN 1 ELSE 0]
    /\ process = Started
    /\ before = [file |-> file, key |-> state.key, member |-> member]

Forward ==
    \/ Begin \/ Fetch \/ Backup
    \/ Account \/ Join \/ NoteJoined \/ VerifyAccess
    \/ StopService \/ SaveState \/ WipeState
    \/ InstallFile \/ Own \/ WriteSecret \/ Enroll
    \/ Enable \/ StartService \/ Health

Backward ==
    \/ RestoreFile \/ RestoreState \/ RestoreGroup
    \/ Restart \/ Tidy \/ Interrupted

Next == Forward \/ Backward \/ Send \/ Die \/ Uninstall

Spec == Init /\ [][Next]_vars

-----------------------------------------------------------------------------

Identities == {Absent, Empty} \cup [key : Keys, sequence : 0 .. MaxSequence]

(* Every variable has the shape of the scripts' state. *)
TypeOK ==
    /\ pc \in Resting \cup Cleanup \cup
              {"fetch", "backup", "account", "join", "note", "access", "stop", "save", "wipe",
               "install", "own", "secret", "enroll", "enable", "start", "health"}
    /\ at \in Nat
    /\ mode \in {"fresh", "upgrade"}
    /\ target \in Versions
    /\ installs \in 0 .. MaxInstalls
    /\ file \in [Entries -> Contents]
    /\ state \in Identities
    /\ saved \in [Entries -> Contents \cup {Unsaved}]
    /\ savedState \in Identities
    /\ {readable, secret, member, marked, added, spoiled} \subseteq BOOLEAN
    /\ process \in {Down} \cup [binary : Versions, key : Keys, sequence : 0 .. MaxSequence]
    /\ accepted \in [Keys -> 0 .. MaxSequence]
    /\ before \in [file : [Entries -> Contents], key : Keys \cup {"absent", "empty"}, member : BOOLEAN]

(***************************************************************************)
(* A script that failed and could run its cleanup to the end has left the  *)
(* contents of the files and the identity it found ("preserve              *)
(* configuration, identity ... across update and rollback"), whatever      *)
(* failed or was interrupted, how often cleanup started over, and whether  *)
(* or not the old service could be stopped.  Three things are excepted: a  *)
(* backup copy that was cut short, a cleanup interrupted while it removed  *)
(* the backups, and a service that wrote its own identity over the         *)
(* restored one.                                                           *)
(***************************************************************************)
AsBefore ==
    /\ \A e \in Entries : file[e] = before.file[e]
    /\ state.key = before.key

FailedMeansRestored == pc = "failed" /\ ~spoiled => AsBefore

(***************************************************************************)
(* Where there was a configuration, the service can read it after a        *)
(* rollback ("Restore the previous binary and service definition and       *)
(* restart the previous service").  It does not hold: RestoreFile brings   *)
(* the configuration back without its group, which is what lets the        *)
(* unprivileged service open it.                                           *)
(***************************************************************************)
FailedMeansReadable == pc = "failed" /\ before.file.config # None => readable

(***************************************************************************)
(* An installation that reports success runs on the files it installed,    *)
(* and an upgrade among them keeps the enrolled identity and configuration *)
(* ("that transaction preserves both").  Where start leaves a running      *)
(* process alone this fails when the old service could not be stopped.     *)
(* Only a service of an earlier installation, left running by a failed     *)
(* stop, can write another identity over the one that was there.           *)
(***************************************************************************)
InstalledIsRunning ==
    [][pc # "installed" /\ pc' = "installed" =>
          /\ file.binary = target /\ file.service = target
          /\ Up
          /\ StartRestarts => process.binary = target
          /\ mode = "upgrade" =>
                /\ file.config = before.file.config
                /\ ~spoiled => state.key = before.key]_vars

(***************************************************************************)
(* Rollback takes back only a membership that this script has added        *)
(* ("rollback never removes pre-existing access").                         *)
(***************************************************************************)
AccessIsKept == pc # "idle" /\ before.member => member

(* The next requests would be taken for replays, and Flush deletes what is *)
(* refused as a replay.                                                    *)
Behind == HasIdentity /\ state.sequence < accepted[state.key]

(* The counter a running service goes on from.  An enrollment beside it    *)
(* may have used the next number already.                                  *)
Straggles == Up /\ process.sequence + 1 < accepted[process.key]

(***************************************************************************)
(* A counter, that of the state directory or a running service's own,      *)
(* falls behind the numbers the application has accepted only where        *)
(* cleanup brings back the directory of before the upgrade                 *)
(* (install.sh:141): no other step of script and service, in any order,    *)
(* loses a number that was used.                                           *)
(***************************************************************************)
CounterFallsInRollback ==
    [][Behind' \/ Straggles' => Behind \/ Straggles \/ pc = "restore_state"]_vars

-----------------------------------------------------------------------------
(***************************************************************************)
(* Why they hold: an invariant that every step of script, service and      *)
(* uninstaller keeps, whatever the order.                                  *)
(***************************************************************************)

(* From the last backup on every file has its copy; up to "wipe" nothing   *)
(* was replaced, from "install" on the state directory has a copy too.     *)
Guarded == {"account", "join", "note", "access", "stop", "save", "wipe"}

Replacing == {"install", "own", "secret", "enroll", "enable", "start", "health"}

Advancing == {"fetch", "backup"} \cup Guarded \cup Replacing

(* The steps of cleanup behind the loop over the files, and behind that    *)
(* the ones behind the state directory.                                    *)
StateRestored == {"restore_group", "restart", "tidy", "failed"}

FilesRestored == {"restore_state"} \cup StateRestored

Positions ==
    /\ pc \in {"backup", "restore"} => at \in 1 .. Len(BackupOrder)
    /\ pc = "install" => at \in 1 .. Len(InstallOrder)

RestingIsClean == pc \in Resting => saved = Discarded /\ ~marked /\ ~added

AddedByThisScript == added \/ pc \in {"join", "note"} => ~before.member

(* What is not as it was found has its backup. *)
Covered(e) == saved[e] = before.file[e] \/ (saved[e] = Unsaved /\ file[e] = before.file[e])

FilesAreCovered ==
    /\ pc \in {"fetch", "backup"} \cup Guarded => file = before.file
    /\ ~spoiled /\ pc \in Advancing \cup Cleanup =>
          \A e \in Entries : Covered(e)
    /\ pc = "backup" => \A i \in 1 .. at - 1 : saved[BackupOrder[i]] # Unsaved
    /\ pc \in Guarded \cup Replacing => \A e \in Entries : saved[e] # Unsaved
    /\ ~spoiled /\ pc = "restore" =>
          \A i \in 1 .. at - 1 : file[BackupOrder[i]] = before.file[BackupOrder[i]]
    /\ ~spoiled /\ pc \in FilesRestored => file = before.file

StateIsCovered ==
    /\ pc \in {"fetch", "backup"} \cup (Guarded \ {"wipe"}) => ~marked
    /\ pc \in {"wipe"} \cup Replacing => marked
    /\ ~spoiled /\ pc \in Advancing \cup Cleanup => (IF marked THEN savedState ELSE state).key = before.key
    /\ ~spoiled /\ pc \in StateRestored => state.key = before.key

TargetIsInstalled ==
    /\ pc = "install" /\ at > 1 => file.binary = target
    /\ pc = "install" /\ at > 2 => file.service = target
    /\ pc \in Replacing \ {"install"} => file.binary = target /\ file.service = target
    /\ pc = "health" /\ Up /\ StartRestarts => process.binary = target

UpgradeKeeps ==
    mode = "upgrade" /\ pc \in Advancing =>
        /\ pc \notin {"wipe", "secret", "enroll"}
        /\ before.key \in Keys
        /\ file.config = before.file.config
        /\ ~spoiled => state.key = before.key

(* A fresh installation starts from no identity; one that appears before   *)
(* it enrolls is that of a service it could not stop.                      *)
CounterIsShared ==
    /\ mode = "fresh" /\ pc \in {"install", "own"} => ~HasIdentity
    /\ pc \in {"secret", "enroll"} /\ HasIdentity /\ Up =>
          state.key = process.key /\ state.sequence = process.sequence

InstallerInv ==
    /\ TypeOK
    /\ Positions
    /\ RestingIsClean
    /\ AddedByThisScript
    /\ AccessIsKept
    /\ FilesAreCovered
    /\ StateIsCovered
    /\ TargetIsInstalled
    /\ UpgradeKeeps
    /\ CounterIsShared
=============================================================================
