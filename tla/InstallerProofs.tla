-------------------------- MODULE InstallerProofs --------------------------
(***************************************************************************)
(* Proofs about Installer, for every release, identity and number of       *)
(* installations, whatever the environment makes fail and in both service  *)
(* managers.                                                               *)
(***************************************************************************)
EXTENDS Installer, TLAPS

LEMMA Constants ==
    /\ Versions \subseteq Contents /\ None \in Contents /\ Torn \in Contents
    /\ Unsaved \notin Contents /\ None \notin Versions /\ Torn \notin Versions
    /\ Absent \in Identities /\ Empty \in Identities
    /\ Absent.key \notin Keys /\ Empty.key \notin Keys /\ Down.key \notin Keys
    /\ 0 \in 0 .. MaxSequence /\ 1 \in 0 .. MaxSequence
BY InstallerAssumption DEF Contents, None, Torn, Unsaved, Absent, Empty, Down, Identity, Identities

LEMMA Orders ==
    /\ Len(BackupOrder) = 3 /\ Len(InstallOrder) \in {2, 3}
    /\ BackupOrder[1] = "binary" /\ BackupOrder[2] = "config" /\ BackupOrder[3] = "service"
    /\ InstallOrder[1] = "binary" /\ InstallOrder[2] = "service"
    /\ mode = "fresh" => Len(InstallOrder) = 3 /\ InstallOrder[3] = "config"
    /\ mode # "fresh" => Len(InstallOrder) = 2
    /\ \A i \in 1 .. 3 : BackupOrder[i] \in Entries
    /\ \A i \in 1 .. Len(InstallOrder) : InstallOrder[i] \in Entries
<1>1. CASE mode = "fresh"
  BY <1>1 DEF BackupOrder, InstallOrder, Entries
<1>2. CASE mode # "fresh"
  BY <1>2 DEF BackupOrder, InstallOrder, Entries
<1> QED
  BY <1>1, <1>2

(* What a start leaves is down, or runs the release and the identity of    *)
(* the files.                                                              *)
LEMMA StartedIs ==
    ASSUME TypeOK
    PROVE  \/ Started = Down
           \/ /\ Started = [binary |-> file.binary, key |-> state.key, sequence |-> state.sequence]
              /\ HasIdentity
              /\ Started \in [binary : Versions, key : Keys, sequence : 0 .. MaxSequence]
<1>1. state.sequence \in 0 .. MaxSequence
  BY Constants DEF TypeOK, Identities, Absent, Empty, Identity
<1> QED
  BY <1>1 DEF Started, HasIdentity, Entries

-----------------------------------------------------------------------------
(***************************************************************************)
(* Types, by the parts of the state.                                       *)
(***************************************************************************)

Steps == Resting \cup Cleanup \cup Advancing

ScriptOK ==
    /\ at \in Nat
    /\ mode \in {"fresh", "upgrade"}
    /\ target \in Versions
    /\ installs \in 0 .. MaxInstalls

HostOK ==
    /\ file \in [Entries -> Contents]
    /\ state \in Identities
    /\ readable \in BOOLEAN /\ secret \in BOOLEAN /\ member \in BOOLEAN

BackupOK ==
    /\ saved \in [Entries -> Contents \cup {Unsaved}]
    /\ savedState \in Identities
    /\ marked \in BOOLEAN /\ added \in BOOLEAN

ServiceOK ==
    /\ process \in {Down} \cup [binary : Versions, key : Keys, sequence : 0 .. MaxSequence]
    /\ accepted \in [Keys -> 0 .. MaxSequence]

HistoryOK ==
    /\ before \in [file : [Entries -> Contents], key : Keys \cup {"absent", "empty"}, member : BOOLEAN]
    /\ spoiled \in BOOLEAN

LEMMA IdentityTyped ==
    ASSUME NEW k \in Keys, NEW n \in 0 .. MaxSequence
    PROVE  Identity(k, n) \in Identities
BY DEF Identity, Identities

LEMMA StateTyped ==
    ASSUME TypeOK
    PROVE  /\ state.key \in Keys \cup {"absent", "empty"}
           /\ state.sequence \in 0 .. MaxSequence
           /\ HasIdentity => state = Identity(state.key, state.sequence)
BY Constants DEF TypeOK, Identities, Identity, Absent, Empty, HasIdentity

LEMMA UpIs ==
    ASSUME TypeOK, Up
    PROVE  process \in [binary : Versions, key : Keys, sequence : 0 .. MaxSequence]
BY DEF TypeOK, Up

LEMMA TypeParts == TypeOK <=> pc \in Steps /\ ScriptOK /\ HostOK /\ BackupOK /\ ServiceOK /\ HistoryOK
<1>1. Steps = Resting \cup Cleanup \cup
              {"fetch", "backup", "account", "join", "note", "access", "stop", "save", "wipe",
               "install", "own", "secret", "enroll", "enable", "start", "health"}
  BY DEF Steps, Advancing, Guarded, Replacing
<1>2. {readable, secret, member, marked, added, spoiled} \subseteq BOOLEAN
      <=> /\ readable \in BOOLEAN /\ secret \in BOOLEAN /\ member \in BOOLEAN
          /\ marked \in BOOLEAN /\ added \in BOOLEAN /\ spoiled \in BOOLEAN
  BY Zenon
<1> QED
  BY <1>1, <1>2, Zenon DEF TypeOK, ScriptOK, HostOK, BackupOK, ServiceOK, HistoryOK

LEMMA PcType ==
    ASSUME TypeOK, [Next]_vars
    PROVE  pc' \in Steps
<1>0. pc \in Steps
  BY TypeParts
<1> USE DEF Continue, Fail, Goto, Steps, Resting, Cleanup, Advancing, Guarded, Replacing
<1>1. CASE Begin
  BY <1>1 DEF Begin
<1>2. CASE Fetch
  BY <1>2 DEF Fetch
<1>3. CASE Backup
  BY <1>0, <1>3 DEF Backup
<1>4. CASE Account
  BY <1>4 DEF Account
<1>5. CASE Join
  BY <1>5 DEF Join
<1>6. CASE NoteJoined
  BY <1>6 DEF NoteJoined
<1>7. CASE VerifyAccess
  BY <1>7 DEF VerifyAccess
<1>8. CASE StopService
  BY <1>8 DEF StopService
<1>9. CASE SaveState
  BY <1>9 DEF SaveState
<1>10. CASE WipeState
  BY <1>10 DEF WipeState
<1>11. CASE InstallFile
  BY <1>0, <1>11 DEF InstallFile
<1>12. CASE Own
  BY <1>12 DEF Own
<1>13. CASE WriteSecret
  BY <1>13 DEF WriteSecret
<1>14. CASE Enroll
  BY <1>14 DEF Enroll
<1>15. CASE Enable
  BY <1>15 DEF Enable
<1>16. CASE StartService
  BY <1>16 DEF StartService
<1>17. CASE Health
  BY <1>0, <1>17 DEF Health
<1>18. CASE RestoreFile
  BY <1>0, <1>18 DEF RestoreFile, Abort
<1>19. CASE RestoreState
  BY <1>19 DEF RestoreState, Abort
<1>20. CASE RestoreGroup
  BY <1>20 DEF RestoreGroup
<1>21. CASE Restart
  BY <1>21 DEF Restart
<1>22. CASE Tidy
  BY <1>22 DEF Tidy
<1>23. CASE Interrupted
  BY <1>23 DEF Interrupted
<1>24. CASE Uninstall
  BY <1>24 DEF Uninstall
<1>25. CASE UNCHANGED script
  BY <1>0, <1>25 DEF script
<1> QED
  BY <1>1, <1>2, <1>3, <1>4, <1>5, <1>6, <1>7, <1>8, <1>9, <1>10, <1>11, <1>12, <1>13, <1>14, <1>15, <1>16,
     <1>17, <1>18, <1>19, <1>20, <1>21, <1>22, <1>23, <1>24, <1>25
     DEF Next, Forward, Backward, Send, Die, vars, script

LEMMA ScriptTypes ==
    ASSUME TypeOK, [Next]_vars
    PROVE  ScriptOK'
<1>0. ScriptOK
  BY TypeParts
<1> USE DEF ScriptOK, Continue, Fail, Goto
<1>1. CASE Begin
  BY InstallerAssumption, <1>0, <1>1 DEF Begin
<1>2. CASE Fetch
  BY <1>0, <1>2 DEF Fetch
<1>3. CASE Backup
  BY <1>0, <1>3 DEF Backup
<1>4. CASE Account
  BY <1>0, <1>4 DEF Account
<1>5. CASE Join
  <2>1. at' = 1 /\ UNCHANGED <<mode, target, installs>>
    BY <1>5 DEF Join
  <2> QED
    BY <1>0, <2>1
<1>6. CASE NoteJoined
  BY <1>0, <1>6 DEF NoteJoined
<1>7. CASE VerifyAccess
  BY <1>0, <1>7 DEF VerifyAccess
<1>8. CASE StopService
  BY <1>0, <1>8 DEF StopService
<1>9. CASE SaveState
  BY <1>0, <1>9 DEF SaveState
<1>10. CASE WipeState
  BY <1>0, <1>10 DEF WipeState
<1>11. CASE InstallFile
  BY <1>0, <1>11 DEF InstallFile
<1>12. CASE Own
  <2>1. at' = 1 /\ UNCHANGED <<mode, target, installs>>
    BY <1>12 DEF Own
  <2> QED
    BY <1>0, <2>1
<1>13. CASE WriteSecret
  BY <1>0, <1>13 DEF WriteSecret
<1>14. CASE Enroll
  BY <1>0, <1>14 DEF Enroll
<1>15. CASE Enable
  BY <1>0, <1>15 DEF Enable
<1>16. CASE StartService
  BY <1>0, <1>16 DEF StartService
<1>17. CASE Health
  BY <1>0, <1>17 DEF Health
<1>18. CASE RestoreFile
  <2>1. at' \in {1, at + 1} /\ UNCHANGED <<mode, target, installs>>
    BY <1>18 DEF RestoreFile, Abort
  <2> QED
    BY <1>0, <2>1
<1>19. CASE RestoreState
  <2>1. at' = 1 /\ UNCHANGED <<mode, target, installs>>
    BY <1>19 DEF RestoreState, Abort
  <2> QED
    BY <1>0, <2>1
<1>20. CASE RestoreGroup
  BY <1>0, <1>20 DEF RestoreGroup
<1>21. CASE Restart
  BY <1>0, <1>21 DEF Restart
<1>22. CASE Tidy
  BY <1>0, <1>22 DEF Tidy
<1>23. CASE Interrupted
  BY <1>0, <1>23 DEF Interrupted
<1>24. CASE Uninstall
  BY <1>0, <1>24 DEF Uninstall
<1>25. CASE UNCHANGED script
  BY <1>0, <1>25 DEF script
<1> QED
  BY <1>1, <1>2, <1>3, <1>4, <1>5, <1>6, <1>7, <1>8, <1>9, <1>10, <1>11, <1>12, <1>13, <1>14, <1>15, <1>16,
     <1>17, <1>18, <1>19, <1>20, <1>21, <1>22, <1>23, <1>24, <1>25
     DEF Next, Forward, Backward, Send, Die, vars, script

LEMMA HostTypes ==
    ASSUME TypeOK, [Next]_vars
    PROVE  HostOK'
<1>0. TypeOK /\ HostOK
  BY TypeParts
<1> USE DEF HostOK
<1>1. CASE Join
  BY <1>0, Constants, <1>1 DEF Join
<1>2. CASE WipeState
  BY <1>0, Constants, <1>2 DEF WipeState
<1>3. CASE InstallFile
  <2>1. state' \in Identities
    BY <1>0, <1>3, Constants DEF InstallFile
  <2>2. file' \in [Entries -> Contents]
    <3>1. PICK e \in Entries \cup {InstallOrder[at]} :
             \/ file' = [file EXCEPT ![e] = target]
             \/ \E c \in {file[e], None, Torn} : file' = [file EXCEPT ![e] = c]
      BY <1>3 DEF InstallFile
    <3>2. target \in Contents
      BY <1>0, Constants DEF TypeOK
    <3>3. CASE e \in Entries
      BY <1>0, <3>1, <3>2, <3>3, Constants
    <3>4. CASE e \notin Entries
      <4>1. file' = file
        BY <1>0, <3>1, <3>4
      <4> QED
        BY <1>0, <4>1, Constants
    <3> QED
      BY <3>3, <3>4
  <2>3. readable' \in BOOLEAN /\ UNCHANGED <<secret, member>>
    BY <1>0, <1>3 DEF InstallFile
  <2> QED
    BY <1>0, <2>1, <2>2, <2>3
<1>4. CASE Own
  BY <1>0, Constants, <1>4 DEF Own
<1>5. CASE WriteSecret
  BY <1>0, Constants, <1>5 DEF WriteSecret
<1>6. CASE Enroll
  <2>1. PICK k \in IF HasIdentity THEN {state.key} ELSE NewKeys :
           LET s == IF HasIdentity THEN state.sequence + 1 ELSE 1
           IN  \/ s <= MaxSequence /\ state' = Identity(k, s)
               \/ state' \in {state, Identity(k, s - 1)}
    BY <1>6 DEF Enroll
  <2>2. k \in Keys
    BY DEF HasIdentity, NewKeys
  <2>3. state' \in Identities
    BY <1>0, <2>1, <2>2, IdentityTyped, StateTyped, InstallerAssumption
  <2>4. secret' \in BOOLEAN /\ UNCHANGED <<file, readable, member>>
    BY <1>0, <1>6 DEF Enroll
  <2> QED
    BY <1>0, <2>3, <2>4
<1>7. CASE Health
  BY <1>0, <1>7 DEF Health
<1>8. CASE RestoreFile
  <2>1. PICK e, c : /\ file' = [file EXCEPT ![e] = c]
                    /\ c \in {None, Torn, IF saved[e] = Unsaved THEN file[e] ELSE saved[e]}
    BY <1>8 DEF RestoreFile
  <2>2. file' \in [Entries -> Contents]
    <3>1. CASE e \in Entries
      <4>1. file[e] \in Contents /\ saved[e] \in Contents \cup {Unsaved}
        BY <1>0, <3>1 DEF TypeOK
      <4> QED
        BY <1>0, <2>1, <4>1, Constants
    <3>2. CASE e \notin Entries
      BY <1>0, <2>1, <3>2
    <3> QED
      BY <3>1, <3>2
  <2>3. readable' \in BOOLEAN /\ UNCHANGED <<state, secret, member>>
    BY <1>0, <1>8 DEF RestoreFile
  <2> QED
    BY <1>0, <2>2, <2>3
<1>9. CASE RestoreState
  <2>1. state' \in {state, savedState, Absent, Empty}
    BY <1>9 DEF RestoreState
  <2>2. secret' \in BOOLEAN /\ UNCHANGED <<file, readable, member>>
    BY <1>0, <1>9 DEF RestoreState
  <2> QED
    BY <1>0, <2>1, <2>2, Constants, TypeParts DEF BackupOK
<1>10. CASE RestoreGroup
  BY <1>0, Constants, <1>10 DEF RestoreGroup
<1>11. CASE Tidy
  BY <1>0, Constants, <1>11 DEF Tidy
<1>12. CASE Send
  <2>1. process.key \in Keys /\ process.sequence + 1 \in 0 .. MaxSequence
    BY <1>0, <1>12, UpIs, InstallerAssumption DEF Send
  <2> QED
    BY <1>0, <1>12, <2>1, IdentityTyped DEF Send
<1>13. CASE Uninstall
  <2>1. \E purge \in BOOLEAN : file' = Remaining(purge)
    BY <1>13 DEF Uninstall
  <2>2. file' \in [Entries -> Contents]
    BY <1>0, <2>1, Constants DEF Remaining, Entries
  <2>3. /\ state' \in {state, Absent}
        /\ readable' \in BOOLEAN /\ secret' \in BOOLEAN /\ member' \in BOOLEAN
    BY <1>0, <1>13 DEF Uninstall
  <2> QED
    BY <1>0, <2>2, <2>3, Constants
<1>14. CASE UNCHANGED host
  BY <1>0, <1>14 DEF host
<1> QED
  BY <1>1, <1>2, <1>3, <1>4, <1>5, <1>6, <1>7, <1>8, <1>9, <1>10, <1>11, <1>12, <1>13, <1>14
     DEF Next, Forward, Backward, Begin, Fetch, Backup, Account, NoteJoined, VerifyAccess, StopService,
         SaveState, Enable, StartService, Restart, Interrupted, Die, vars, host

LEMMA BackupTypes ==
    ASSUME TypeOK, [Next]_vars
    PROVE  BackupOK'
<1>0. BackupOK /\ HostOK
  BY TypeParts
<1> USE DEF BackupOK, HostOK
<1>1. CASE Backup
  BY <1>0, Constants, <1>1 DEF Backup, backup
<1>2. CASE NoteJoined
  BY <1>0, Constants, <1>2 DEF NoteJoined
<1>3. CASE SaveState
  BY <1>0, Constants, <1>3 DEF SaveState
<1>4. CASE Health
  BY <1>0, Constants, <1>4 DEF Health, Discard, Discarded, backup
<1>5. CASE RestoreFile
  BY <1>0, Constants, <1>5 DEF RestoreFile, Abort, Discard, Discarded, backup
<1>6. CASE RestoreState
  BY <1>0, Constants, <1>6 DEF RestoreState, Abort, Discard, Discarded, backup
<1>7. CASE Tidy
  BY <1>0, Constants, <1>7 DEF Tidy, Discarded
<1>8. CASE Interrupted
  BY <1>0, Constants, <1>8 DEF Interrupted, backup
<1>9. CASE UNCHANGED backup
  BY <1>0, <1>9 DEF backup
<1> QED
  BY <1>1, <1>2, <1>3, <1>4, <1>5, <1>6, <1>7, <1>8, <1>9
     DEF Next, Forward, Backward, Begin, Fetch, Account, Join, VerifyAccess, StopService, WipeState,
         InstallFile, Own, WriteSecret, Enroll, Enable, StartService, RestoreGroup, Restart, Send, Die,
         Uninstall, vars, backup

LEMMA ServiceTypes ==
    ASSUME TypeOK, [Next]_vars
    PROVE  ServiceOK'
<1>0. TypeOK /\ ServiceOK
  BY TypeParts
<1> USE DEF ServiceOK
<1>1. CASE StopService
  BY <1>0, StartedIs, <1>1 DEF StopService
<1>2. CASE Enroll
  <2>1. accepted' = accepted \/ \E k, n : n \in 0 .. MaxSequence /\ accepted' = [accepted EXCEPT ![k] = n]
    <3>1. PICK k \in IF HasIdentity THEN {state.key} ELSE NewKeys :
             LET s == IF HasIdentity THEN state.sequence + 1 ELSE 1
             IN  \/ s <= MaxSequence /\ accepted' = [accepted EXCEPT ![k] = IF s > @ THEN s ELSE @]
                 \/ accepted' = accepted
      BY <1>2 DEF Enroll
    <3>2. k \in Keys /\ accepted[k] \in 0 .. MaxSequence
      BY <1>0 DEF HasIdentity, NewKeys
    <3> QED
      BY <1>0, <3>1, <3>2, StateTyped, InstallerAssumption
  <2>2. process' = process
    BY <1>2 DEF Enroll
  <2> QED
    BY <1>0, <2>1, <2>2
<1>3. CASE StartService
  BY <1>0, StartedIs, <1>3 DEF StartService, AfterStart
<1>4. CASE Restart
  BY <1>0, StartedIs, <1>4 DEF Restart, AfterStart
<1>5. CASE Send
  <2>1. /\ process.key \in Keys /\ process.sequence + 1 \in 0 .. MaxSequence
        /\ process \in [binary : Versions, key : Keys, sequence : 0 .. MaxSequence]
    BY <1>0, <1>5, UpIs, InstallerAssumption DEF Send
  <2>2. process' \in [binary : Versions, key : Keys, sequence : 0 .. MaxSequence]
    BY <1>5, <2>1 DEF Send
  <2>3. \E n : n \in 0 .. MaxSequence /\ accepted' = [accepted EXCEPT ![process.key] = n]
    BY <1>0, <1>5, <2>1 DEF Send
  <2> QED
    BY <1>0, <2>2, <2>3
<1>6. CASE Die
  BY <1>0, StartedIs, <1>6 DEF Die
<1>7. CASE Uninstall
  BY <1>0, StartedIs, <1>7 DEF Uninstall
<1>8. CASE UNCHANGED service
  BY <1>0, <1>8 DEF service
<1> QED
  BY <1>1, <1>2, <1>3, <1>4, <1>5, <1>6, <1>7, <1>8
     DEF Next, Forward, Backward, Begin, Fetch, Backup, Account, Join, NoteJoined, VerifyAccess, SaveState,
         WipeState, InstallFile, Own, WriteSecret, Enable, Health, RestoreFile, RestoreState, RestoreGroup,
         Tidy, Interrupted, vars, service

LEMMA HistoryTypes ==
    ASSUME TypeOK, [Next]_vars
    PROVE  HistoryOK'
<1>0. TypeOK /\ HistoryOK /\ HostOK
  BY TypeParts
<1> USE DEF HistoryOK
<1>1. CASE Begin
  <2>1. before' = [file |-> file, key |-> state.key, member |-> member] /\ spoiled' = FALSE
    BY <1>1 DEF Begin
  <2>2. file \in [Entries -> Contents] /\ member \in BOOLEAN
    BY <1>0 DEF HostOK
  <2>3. state.key \in Keys \cup {"absent", "empty"}
    BY <1>0, StateTyped
  <2> HIDE DEF HistoryOK
  <2>4. before' \in [file : [Entries -> Contents], key : Keys \cup {"absent", "empty"}, member : BOOLEAN]
    BY <2>1, <2>2, <2>3
  <2> QED
    BY <2>1, <2>4 DEF HistoryOK
<1>2. CASE Backup
  BY <1>0, <1>2 DEF Backup
<1>3. CASE Interrupted
  BY <1>0, <1>3 DEF Interrupted
<1>4. CASE Send
  BY <1>0, <1>4 DEF Send
<1>5. CASE UNCHANGED history
  BY <1>0, <1>5 DEF history
<1> QED
  BY <1>1, <1>2, <1>3, <1>4, <1>5
     DEF Next, Forward, Backward, Fetch, Account, Join, NoteJoined, VerifyAccess, StopService, SaveState,
         WipeState, InstallFile, Own, WriteSecret, Enroll, Enable, StartService, Health, RestoreFile,
         RestoreState, RestoreGroup, Restart, Tidy, Die, Uninstall, vars, history

LEMMA TypeStep == ASSUME TypeOK, [Next]_vars PROVE TypeOK'
<1>1. pc' \in Steps /\ ScriptOK' /\ HostOK' /\ BackupOK' /\ ServiceOK' /\ HistoryOK'
  BY PcType, ScriptTypes, HostTypes, BackupTypes, ServiceTypes, HistoryTypes
<1>2. pc' \in Resting \cup Cleanup \cup
                {"fetch", "backup", "account", "join", "note", "access", "stop", "save", "wipe",
                 "install", "own", "secret", "enroll", "enable", "start", "health"}
  BY <1>1 DEF Steps, Advancing, Guarded, Replacing
<1>3. {readable', secret', member', marked', added', spoiled'} \subseteq BOOLEAN
  BY <1>1, Zenon DEF HostOK, BackupOK, HistoryOK
<1> QED
  BY <1>1, <1>2, <1>3, Zenon DEF TypeOK, ScriptOK, HostOK, BackupOK, ServiceOK, HistoryOK

-----------------------------------------------------------------------------
(***************************************************************************)
(* Control: the loops stay in their bounds, a script that rests has left   *)
(* nothing behind, and cleanup takes back only what this script added.     *)
(***************************************************************************)

LEMMA Moves ==
    ASSUME [Next]_vars
    PROVE  \/ at' = 1
           \/ UNCHANGED script
           \/ /\ at' = at + 1
              /\ UNCHANGED <<pc, mode, target, installs>>
              /\ \/ pc \in {"backup", "restore"} /\ at < Len(BackupOrder)
                 \/ pc = "install" /\ at < Len(InstallOrder)
                 \/ pc = "health"
<1> USE DEF Continue, Fail, Goto
<1>1. CASE Begin
  BY <1>1 DEF Begin
<1>2. CASE Fetch
  BY <1>2 DEF Fetch
<1>3. CASE Backup
  BY <1>3 DEF Backup
<1>4. CASE Account
  BY <1>4 DEF Account
<1>5. CASE Join
  BY <1>5 DEF Join
<1>6. CASE NoteJoined
  BY <1>6 DEF NoteJoined
<1>7. CASE VerifyAccess
  BY <1>7 DEF VerifyAccess
<1>8. CASE StopService
  BY <1>8 DEF StopService
<1>9. CASE SaveState
  BY <1>9 DEF SaveState
<1>10. CASE WipeState
  BY <1>10 DEF WipeState
<1>11. CASE InstallFile
  BY <1>11 DEF InstallFile
<1>12. CASE Own
  BY <1>12 DEF Own
<1>13. CASE WriteSecret
  BY <1>13 DEF WriteSecret
<1>14. CASE Enroll
  BY <1>14 DEF Enroll
<1>15. CASE Enable
  BY <1>15 DEF Enable
<1>16. CASE StartService
  BY <1>16 DEF StartService
<1>17. CASE Health
  BY <1>17 DEF Health
<1>18. CASE RestoreFile
  BY <1>18 DEF RestoreFile, Abort
<1>19. CASE RestoreState
  BY <1>19 DEF RestoreState, Abort
<1>20. CASE RestoreGroup
  BY <1>20 DEF RestoreGroup
<1>21. CASE Restart
  BY <1>21 DEF Restart
<1>22. CASE Tidy
  BY <1>22 DEF Tidy
<1>23. CASE Interrupted
  BY <1>23 DEF Interrupted
<1>24. CASE Uninstall
  BY <1>24 DEF Uninstall
<1>25. CASE UNCHANGED script
  BY <1>25 DEF script
<1> QED
  BY <1>1, <1>2, <1>3, <1>4, <1>5, <1>6, <1>7, <1>8, <1>9, <1>10, <1>11, <1>12, <1>13, <1>14, <1>15, <1>16,
     <1>17, <1>18, <1>19, <1>20, <1>21, <1>22, <1>23, <1>24, <1>25
     DEF Next, Forward, Backward, Send, Die, vars, script

LEMMA PositionsStep ==
    ASSUME TypeOK, Positions, [Next]_vars
    PROVE  Positions'
<1>1. at \in Nat
  BY DEF TypeOK
<1>2. CASE at' = 1
  BY <1>2, Orders DEF Positions, BackupOrder, InstallOrder
<1>3. CASE UNCHANGED script
  BY <1>3 DEF Positions, script, InstallOrder
<1>4. CASE /\ at' = at + 1
           /\ UNCHANGED <<pc, mode, target, installs>>
           /\ \/ pc \in {"backup", "restore"} /\ at < Len(BackupOrder)
              \/ pc = "install" /\ at < Len(InstallOrder)
              \/ pc = "health"
  <2>1. InstallOrder' = InstallOrder
    BY <1>4 DEF InstallOrder
  <2> QED
    BY <1>1, <1>4, <2>1, Orders DEF Positions
<1> QED
  BY <1>2, <1>3, <1>4, Moves

LEMMA RestingIsCleanStep ==
    ASSUME RestingIsClean, [Next]_vars
    PROVE  RestingIsClean'
<1>0. RestingIsClean
  OBVIOUS
<1> USE DEF RestingIsClean, Continue, Fail, Goto, Resting
<1>1. CASE Begin
  BY <1>0, <1>1 DEF Begin, backup
<1>2. CASE Fetch
  BY <1>0, <1>2 DEF Fetch, backup
<1>3. CASE Backup
  BY <1>0, <1>3 DEF Backup, backup
<1>4. CASE Account
  BY <1>0, <1>4 DEF Account, backup
<1>5. CASE Join
  BY <1>0, <1>5 DEF Join, backup
<1>6. CASE NoteJoined
  BY <1>0, <1>6 DEF NoteJoined
<1>7. CASE VerifyAccess
  BY <1>0, <1>7 DEF VerifyAccess, backup
<1>8. CASE StopService
  BY <1>0, <1>8 DEF StopService, backup
<1>9. CASE SaveState
  BY <1>0, <1>9 DEF SaveState
<1>10. CASE WipeState
  BY <1>0, <1>10 DEF WipeState, backup
<1>11. CASE InstallFile
  BY <1>0, <1>11 DEF InstallFile, backup
<1>12. CASE Own
  BY <1>0, <1>12 DEF Own, backup
<1>13. CASE WriteSecret
  BY <1>0, <1>13 DEF WriteSecret, backup
<1>14. CASE Enroll
  BY <1>0, <1>14 DEF Enroll, backup
<1>15. CASE Enable
  BY <1>0, <1>15 DEF Enable, backup
<1>16. CASE StartService
  BY <1>0, <1>16 DEF StartService, backup
<1>17. CASE Health
  BY <1>0, <1>17 DEF Health, backup, Discard
<1>18. CASE RestoreFile
  BY <1>0, <1>18 DEF RestoreFile, Abort, backup, Discard
<1>19. CASE RestoreState
  BY <1>0, <1>19 DEF RestoreState, Abort, backup, Discard
<1>20. CASE RestoreGroup
  BY <1>0, <1>20 DEF RestoreGroup, backup
<1>21. CASE Restart
  BY <1>0, <1>21 DEF Restart, backup
<1>22. CASE Tidy
  BY <1>0, <1>22 DEF Tidy
<1>23. CASE Interrupted
  BY <1>0, <1>23 DEF Interrupted, backup
<1>24. CASE Uninstall
  BY <1>0, <1>24 DEF Uninstall, backup
<1>25. CASE UNCHANGED <<pc, backup>>
  BY <1>0, <1>25 DEF backup
<1> QED
  BY <1>1, <1>2, <1>3, <1>4, <1>5, <1>6, <1>7, <1>8, <1>9, <1>10, <1>11, <1>12, <1>13, <1>14, <1>15, <1>16,
     <1>17, <1>18, <1>19, <1>20, <1>21, <1>22, <1>23, <1>24, <1>25
     DEF Next, Forward, Backward, Send, Die, vars, script, backup

LEMMA AddedStep ==
    ASSUME TypeOK, RestingIsClean, AddedByThisScript, AccessIsKept, [Next]_vars
    PROVE  AddedByThisScript' /\ AccessIsKept'
<1>0. TypeOK
  OBVIOUS
<1> USE DEF AddedByThisScript, AccessIsKept, RestingIsClean, Continue, Fail, Goto, Resting
<1>1. CASE Begin
  BY <1>1 DEF Begin, backup, host
<1>2. CASE Fetch
  BY <1>2 DEF Fetch, backup, host, history
<1>3. CASE Backup
  BY <1>3 DEF Backup, backup, host
<1>4. CASE Account
  BY <1>4 DEF Account, backup, host, history
<1>5. CASE Join
  BY <1>5 DEF Join, backup, history
<1>6. CASE NoteJoined
  BY <1>6 DEF NoteJoined, host, history
<1>7. CASE VerifyAccess
  BY <1>7 DEF VerifyAccess, backup, host, history
<1>8. CASE StopService
  BY <1>8 DEF StopService, backup, host, history
<1>9. CASE SaveState
  BY <1>9 DEF SaveState, host, history
<1>10. CASE WipeState
  BY <1>10 DEF WipeState, backup, history
<1>11. CASE InstallFile
  BY <1>11 DEF InstallFile, backup, history
<1>12. CASE Own
  BY <1>12 DEF Own, backup, history
<1>13. CASE WriteSecret
  BY <1>13 DEF WriteSecret, backup, history
<1>14. CASE Enroll
  BY <1>14 DEF Enroll, backup, history
<1>15. CASE Enable
  BY <1>15 DEF Enable, backup, host, history
<1>16. CASE StartService
  BY <1>16 DEF StartService, backup, host, history
<1>17. CASE Health
  BY <1>17 DEF Health, backup, history, Discard
<1>18. CASE RestoreFile
  <2>1. pc = "restore" /\ pc' \in {"restore", "restore_state", "aborted"}
    BY <1>18 DEF RestoreFile, Abort
  <2>2. added' => added
    BY <1>18 DEF RestoreFile, Abort, Discard, backup
  <2>3. UNCHANGED <<member, before>>
    BY <1>18 DEF RestoreFile, history
  <2> QED
    BY <2>1, <2>2, <2>3
<1>19. CASE RestoreState
  <2>1. /\ pc # "idle" /\ pc' \notin {"idle", "join", "note"} /\ UNCHANGED <<member, before>>
        /\ added' => added
    BY <1>19 DEF RestoreState, Abort, Discard, backup, history
  <2> QED
    BY <2>1
<1>20. CASE RestoreGroup
  <2>1. member /\ ~added => member'
    BY <1>20 DEF RestoreGroup
  <2>2. added' = added /\ before' = before /\ pc' = "restart" /\ pc # "idle"
    BY <1>20 DEF RestoreGroup, backup, history
  <2>3. AddedByThisScript'
    BY <2>2
  <2>4. AccessIsKept'
    BY <2>1, <2>2
  <2> QED
    BY <2>3, <2>4, Zenon
<1>21. CASE Restart
  BY <1>21 DEF Restart, backup, host, history
<1>22. CASE Tidy
  BY <1>22 DEF Tidy, history
<1>23. CASE Interrupted
  <2>1. pc' = "restore" /\ pc # "idle" /\ UNCHANGED <<added, member, before>>
    BY <1>23 DEF Interrupted, Cleanup, backup, host
  <2> QED
    BY <2>1
<1>24. CASE Uninstall
  BY <1>24 DEF Uninstall, backup, history
<1>25. CASE UNCHANGED <<pc, member, added, before>>
  BY <1>0, <1>25 DEF host
<1>26. CASE Send \/ Die \/ UNCHANGED vars
  <2>1. UNCHANGED <<pc, member, added, before>>
    BY <1>26 DEF Send, Die, vars, script, host, backup, history
  <2> QED
    BY <1>25, <2>1
<1> HIDE DEF AddedByThisScript, AccessIsKept
<1> QED
  BY <1>1, <1>2, <1>3, <1>4, <1>5, <1>6, <1>7, <1>8, <1>9, <1>10, <1>11, <1>12, <1>13, <1>14, <1>15, <1>16,
     <1>17, <1>18, <1>19, <1>20, <1>21, <1>22, <1>23, <1>24, <1>26
     DEF Next, Forward, Backward

-----------------------------------------------------------------------------
(***************************************************************************)
(* Files.                                                                  *)
(***************************************************************************)

(* A step that leaves files and copies alone, and enters no stretch of the *)
(* script about which FilesAreCovered says more than it said before.       *)
FilesEdge ==
    /\ UNCHANGED <<file, saved, before>>
    /\ spoiled => spoiled'
    /\ pc' \in {"fetch", "backup"} \cup Guarded => pc \in {"fetch", "backup"} \cup Guarded
    /\ pc' \in Advancing \cup Cleanup => pc \in Advancing \cup Cleanup
    /\ pc' \in Guarded \cup Replacing => pc \in Guarded \cup Replacing
    /\ pc' \in FilesRestored => pc \in FilesRestored
    /\ at' = 1 \/ UNCHANGED <<pc, at>> \/ pc' = "health"

LEMMA FilesKept ==
    ASSUME FilesAreCovered, FilesEdge
    PROVE  FilesAreCovered'
<1> USE DEF FilesEdge
<1>1. pc' \in {"fetch", "backup"} \cup Guarded => file' = before'.file
  BY DEF FilesAreCovered
<1>2. ~spoiled' /\ pc' \in Advancing \cup Cleanup =>
         \A e \in Entries : Covered(e)'
  BY DEF FilesAreCovered, Covered
<1>3. pc' = "backup" => \A i \in 1 .. at' - 1 : saved'[BackupOrder[i]] # Unsaved
  BY DEF FilesAreCovered
<1>4. pc' \in Guarded \cup Replacing => \A e \in Entries : saved'[e] # Unsaved
  BY DEF FilesAreCovered
<1>5. ~spoiled' /\ pc' = "restore" =>
         \A i \in 1 .. at' - 1 : file'[BackupOrder[i]] = before'.file[BackupOrder[i]]
  BY DEF FilesAreCovered
<1>6. ~spoiled' /\ pc' \in FilesRestored => file' = before'.file
  BY DEF FilesAreCovered
<1> HIDE DEF FilesEdge
<1> QED
  BY <1>1, <1>2, <1>3, <1>4, <1>5, <1>6, Zenon DEF FilesAreCovered

LEMMA FilesLeft ==
    ASSUME pc' \in {"idle", "installed", "aborted"}
    PROVE  FilesAreCovered'
<1>1. /\ pc' \notin {"fetch", "backup"} \cup Guarded /\ pc' \notin Advancing \cup Cleanup
      /\ pc' # "backup" /\ pc' \notin Guarded \cup Replacing /\ pc' # "restore"
      /\ pc' \notin FilesRestored
  BY DEF Guarded, Advancing, Cleanup, Replacing, FilesRestored, StateRestored
<1> QED
  BY <1>1, Zenon DEF FilesAreCovered

(* Cleanup begins, or begins again. *)
LEMMA FilesAtRestore ==
    ASSUME pc' = "restore", at' = 1,
           ~spoiled' => \A e \in Entries : Covered(e)'
    PROVE  FilesAreCovered'
<1>1. /\ pc' \notin {"fetch", "backup"} \cup Guarded
      /\ pc' # "backup" /\ pc' \notin Guarded \cup Replacing
      /\ pc' \notin FilesRestored
      /\ 1 .. at' - 1 = {}
  BY DEF Guarded, Advancing, Cleanup, Replacing, FilesRestored, StateRestored
<1> QED
  BY <1>1, Zenon DEF FilesAreCovered

LEMMA QuietFiles ==
    ASSUME Fetch \/ Account \/ Join \/ NoteJoined \/ VerifyAccess \/ StopService \/ SaveState \/ WipeState \/ Own
           \/ WriteSecret \/ Enroll \/ Enable \/ StartService \/ RestoreGroup \/ Restart
           \/ Send \/ Die \/ UNCHANGED vars
    PROVE  FilesEdge
<1> USE DEF Continue, Fail, Goto, Guarded, Advancing, Cleanup, Replacing, FilesRestored, StateRestored,
            host, backup, history, service, script, FilesEdge
<1>1. CASE Fetch
  BY <1>1 DEF Fetch
<1>2. CASE Account
  BY <1>2 DEF Account
<1>3. CASE Join
  BY <1>3 DEF Join
<1>4. CASE NoteJoined
  BY <1>4 DEF NoteJoined
<1>5. CASE VerifyAccess
  BY <1>5 DEF VerifyAccess
<1>6. CASE StopService
  BY <1>6 DEF StopService
<1>7. CASE SaveState
  BY <1>7 DEF SaveState
<1>8. CASE WipeState
  BY <1>8 DEF WipeState
<1>9. CASE Own
  BY <1>9 DEF Own
<1>10. CASE WriteSecret
  BY <1>10 DEF WriteSecret
<1>11. CASE Enroll
  BY <1>11 DEF Enroll
<1>12. CASE Enable
  BY <1>12 DEF Enable
<1>13. CASE StartService
  BY <1>13 DEF StartService
<1>14. CASE RestoreGroup
  BY <1>14 DEF RestoreGroup
<1>15. CASE Restart
  BY <1>15 DEF Restart
<1>16. CASE Send
  BY <1>16 DEF Send
<1>17. CASE Die
  BY <1>17 DEF Die
<1>18. CASE UNCHANGED vars
  BY <1>18 DEF vars
<1> HIDE DEF FilesEdge
<1> QED
  BY <1>1, <1>2, <1>3, <1>4, <1>5, <1>6, <1>7, <1>8, <1>9, <1>10, <1>11, <1>12, <1>13, <1>14, <1>15, <1>16,
     <1>17, <1>18
LEMMA FilesStep ==
    ASSUME TypeOK, Positions, RestingIsClean, FilesAreCovered, [Next]_vars
    PROVE  FilesAreCovered'
<1> USE DEF Continue, Fail, Goto
<1>0. /\ file \in [Entries -> Contents] /\ saved \in [Entries -> Contents \cup {Unsaved}]
      /\ before.file \in [Entries -> Contents] /\ at \in Nat
  BY DEF TypeOK
<1>1. CASE Begin
  <2>1. /\ pc' = "fetch" /\ saved' = saved /\ file' = file /\ before'.file = file
        /\ saved = Discarded
    BY <1>1 DEF Begin, backup, host, RestingIsClean
  <2>2. \A e \in Entries : Covered(e)'
    BY <2>1 DEF Covered, Discarded
  <2>3. pc' \notin {"backup", "restore"} /\ pc' \notin Guarded \cup Replacing /\ pc' \notin FilesRestored
    BY <2>1 DEF Guarded, Replacing, FilesRestored, StateRestored
  <2> QED
    BY <2>1, <2>2, <2>3, Zenon DEF FilesAreCovered
<1>2. CASE Backup
  <2> DEFINE e == BackupOrder[at]
  <2>1. /\ pc = "backup" /\ file = before.file /\ UNCHANGED <<file, before>> /\ e \in Entries
        /\ at \in 1 .. 3
    BY <1>2, Orders DEF Backup, host, FilesAreCovered, Positions
  <2>2. ~spoiled => \A x \in Entries : Covered(x)
    BY <2>1 DEF FilesAreCovered, Advancing
  <2>3. CASE saved' = [saved EXCEPT ![e] = file[e]] /\ spoiled' = spoiled
    <3>1. ~spoiled' => \A x \in Entries : Covered(x)'
      BY <1>0, <2>1, <2>2, <2>3 DEF Covered
    <3>2. \A i \in 1 .. at : saved'[BackupOrder[i]] # Unsaved
      BY <1>0, <2>1, <2>3, Orders, Constants DEF FilesAreCovered
    <3>3. CASE at' = at + 1 /\ pc' = "backup"
      <4>1. /\ pc' \notin Guarded \cup Replacing /\ pc' \notin FilesRestored /\ pc' # "restore"
            /\ 1 .. at' - 1 = 1 .. at
        BY <1>0, <3>3 DEF Guarded, Replacing, FilesRestored, StateRestored
      <4> QED
        BY <2>1, <3>1, <3>2, <3>3, <4>1, Zenon DEF FilesAreCovered
    <3>4. CASE at = 3 /\ pc' = "account"
      <4>1. \A x \in Entries : saved'[x] # Unsaved
        BY <3>2, <3>4, Orders DEF Entries
      <4>2. pc' \notin {"restore", "backup"} /\ pc' \notin FilesRestored
        BY <3>4 DEF FilesRestored, StateRestored
      <4> QED
        BY <2>1, <3>1, <4>1, <4>2, Zenon DEF FilesAreCovered
    <3>5. CASE pc' = "restore" /\ at' = 1
      BY <3>1, <3>5, FilesAtRestore
    <3> QED
      BY <1>2, <2>1, <2>3, <3>3, <3>4, <3>5, Orders DEF Backup
  <2>4. CASE saved' = saved /\ spoiled' = spoiled /\ Fail
    <3>1. ~spoiled' => \A x \in Entries : Covered(x)'
      BY <2>1, <2>2, <2>4 DEF Covered
    <3> QED
      BY <2>4, <3>1, FilesAtRestore
  <2>5. CASE spoiled' = TRUE /\ Fail
    BY <2>5, FilesAtRestore
  <2> QED
    BY <1>2, <2>3, <2>4, <2>5 DEF Backup
<1>3. CASE InstallFile
  <2> DEFINE e == InstallOrder[at]
  <2>1. /\ pc = "install" /\ UNCHANGED <<saved, before, spoiled>> /\ e \in Entries
    BY <1>3, Orders DEF InstallFile, backup, history, Positions
  <2>2. PICK c : file' = [file EXCEPT ![e] = c]
    BY <1>3 DEF InstallFile
  <2>3. /\ pc \in Guarded \cup Replacing /\ pc \in Advancing \cup Cleanup
    BY <2>1 DEF Replacing, Advancing
  <2>4. (\A x \in Entries : saved[x] # Unsaved) /\ (~spoiled => \A x \in Entries : Covered(x))
    BY <2>3 DEF FilesAreCovered
  <2>5. ~spoiled' => \A x \in Entries : Covered(x)'
    BY <2>1, <2>4 DEF Covered
  <2>6. CASE pc' \in {"install", "own"}
    <3>1. /\ pc' \notin {"fetch", "backup"} \cup Guarded /\ pc' \notin {"restore", "backup"}
          /\ pc' \notin FilesRestored
      BY <2>6 DEF Guarded, FilesRestored, StateRestored
    <3> QED
      BY <2>1, <2>4, <2>5, <3>1, Zenon DEF FilesAreCovered
  <2>7. CASE Fail
    BY <2>5, <2>7, FilesAtRestore
  <2> QED
    BY <1>3, <2>1, <2>6, <2>7 DEF InstallFile
<1>4. CASE Health
  <2>1. CASE pc' = "installed"
    BY <2>1, FilesLeft
  <2>2. CASE pc' # "installed"
    <3>1. FilesEdge
      BY <1>4, <2>2 DEF Health, FilesEdge, backup, history, Replacing, Guarded, FilesRestored, StateRestored,
         Advancing
    <3> QED
      BY <3>1, FilesKept
  <2> QED
    BY <2>1, <2>2
<1>5. CASE RestoreState
  <2>1. CASE pc' = "aborted"
    BY <2>1, FilesLeft
  <2>2. CASE pc' # "aborted"
    <3>1. FilesEdge
      BY <1>5, <2>2 DEF RestoreState, Abort, FilesEdge, backup, history, Replacing, Guarded, FilesRestored,
         StateRestored, Advancing, Cleanup
    <3> QED
      BY <3>1, FilesKept
  <2> QED
    BY <2>1, <2>2
<1>6. CASE Uninstall
  BY <1>6, FilesLeft DEF Uninstall
<1>7. CASE Fetch \/ Account \/ Join \/ NoteJoined \/ VerifyAccess \/ StopService \/ SaveState \/ WipeState \/ Own
           \/ WriteSecret \/ Enroll \/ Enable \/ StartService \/ RestoreGroup \/ Restart
           \/ Send \/ Die \/ UNCHANGED vars
  BY <1>7, QuietFiles, FilesKept
<1>8. CASE RestoreFile
  <2>0. pc = "restore" /\ at \in 1 .. 3
    BY <1>8, Orders DEF RestoreFile, Positions
  <2>1. PICK e \in Entries : pc = "restore" /\ at \in 1 .. 3 /\ e = BackupOrder[at]
    BY <2>0, Orders
  <2>2. UNCHANGED <<before, spoiled>>
    BY <1>8 DEF RestoreFile, history
  <2>3. ~spoiled => \A x \in Entries : Covered(x)
    BY <2>1 DEF FilesAreCovered, Cleanup
  <2>4. CASE pc' = "aborted"
    BY <2>4, FilesLeft
  <2>5. CASE /\ file' = [file EXCEPT ![e] = IF saved[e] = Unsaved THEN file[e] ELSE saved[e]]
             /\ UNCHANGED saved
             /\ \/ at < Len(BackupOrder) /\ at' = at + 1 /\ pc' = "restore"
                \/ ~(at < Len(BackupOrder)) /\ pc' = "restore_state"
    <3>1. ~spoiled => file'[e] = before.file[e] /\ \A x \in Entries : Covered(x)'
      <4> SUFFICES ASSUME ~spoiled
                   PROVE  file'[e] = before.file[e] /\ \A x \in Entries : Covered(x)'
        OBVIOUS
      <4>1. file'[e] = before.file[e] /\ Covered(e)'
        <5>1. file'[e] = IF saved[e] = Unsaved THEN file[e] ELSE saved[e]
          BY <1>0, <2>1, <2>5
        <5>2. Covered(e) /\ before.file[e] # Unsaved
          BY <1>0, <2>1, <2>3, Constants
        <5> QED
          BY <2>2, <2>5, <5>1, <5>2 DEF Covered
      <4>2. \A x \in Entries \ {e} : file'[x] = file[x] /\ saved'[x] = saved[x] /\ before' = before
        BY <1>0, <2>1, <2>2, <2>5
      <4>3. \A x \in Entries \ {e} : Covered(x)'
        BY <2>3, <4>2 DEF Covered
      <4> QED
        BY <4>1, <4>3
    <3>2. ~spoiled => \A i \in 1 .. at : file'[BackupOrder[i]] = before.file[BackupOrder[i]]
      <4> SUFFICES ASSUME ~spoiled, NEW i \in 1 .. at
                   PROVE  file'[BackupOrder[i]] = before.file[BackupOrder[i]]
        OBVIOUS
      <4>1. CASE i = at
        BY <2>1, <3>1, <4>1
      <4>2. CASE i \in 1 .. at - 1
        <5>1. file[BackupOrder[i]] = before.file[BackupOrder[i]] /\ BackupOrder[i] \in Entries
          BY <2>1, <4>2, Orders DEF FilesAreCovered
        <5> QED
          BY <1>0, <2>5, <3>1, <5>1
      <4> QED
        BY <2>1, <4>1, <4>2
    <3>3. CASE at' = at + 1 /\ pc' = "restore"
      <4>1. /\ pc' \notin {"fetch", "backup"} \cup Guarded /\ pc' \notin Guarded \cup Replacing
            /\ pc' # "backup" /\ pc' \notin FilesRestored
            /\ 1 .. at' - 1 = 1 .. at
        BY <1>0, <3>3 DEF Guarded, Replacing, FilesRestored, StateRestored
      <4> QED
        BY <2>2, <3>1, <3>2, <4>1, Zenon DEF FilesAreCovered
    <3>4. CASE at = 3 /\ pc' = "restore_state"
      <4>1. ~spoiled => \A x \in Entries : file'[x] = before.file[x]
        <5>1. 1 \in 1 .. at /\ 2 \in 1 .. at /\ 3 \in 1 .. at
          BY <1>0, <3>4
        <5>2. Entries = {BackupOrder[1], BackupOrder[2], BackupOrder[3]}
          BY Orders DEF Entries
        <5> QED
          BY <3>2, <5>1, <5>2
      <4>2. file' \in [Entries -> Contents]
        BY HostTypes DEF HostOK
      <4>3. ~spoiled => file' = before.file
        BY <1>0, <4>1, <4>2
      <4>4. /\ pc' \notin {"fetch", "backup"} \cup Guarded /\ pc' \notin Guarded \cup Replacing
            /\ pc' \notin {"restore", "backup"}
        BY <3>4 DEF Guarded, Replacing
      <4> QED
        BY <2>2, <3>1, <4>3, <4>4, Zenon DEF FilesAreCovered
    <3> QED
      BY <1>0, <2>1, <2>5, <3>3, <3>4, Orders
  <2>6. CASE saved[e] \notin {Unsaved, None} /\ Fail /\ UNCHANGED backup
             /\ \E c : file' = [file EXCEPT ![e] = c]
    <3>1. ~spoiled' => \A x \in Entries : Covered(x)'
      BY <1>0, <2>1, <2>2, <2>3, <2>6 DEF Covered, backup
    <3> QED
      BY <2>6, <3>1, FilesAtRestore
  <2> QED
    BY <1>8, <2>1, <2>4, <2>5, <2>6 DEF RestoreFile, Abort, backup
<1>9. CASE Tidy
  <2>1. pc = "tidy" /\ saved' = Discarded /\ UNCHANGED <<file, before, spoiled>>
    BY <1>9 DEF Tidy, history
  <2>2. ~spoiled => file = before.file
    BY <2>1 DEF FilesAreCovered, FilesRestored, StateRestored
  <2>3. ~spoiled' => \A x \in Entries : Covered(x)'
    BY <2>1, <2>2 DEF Covered, Discarded
  <2>4. CASE pc' = "failed"
    <3>1. /\ pc' \notin {"fetch", "backup"} \cup Guarded /\ pc' \notin Guarded \cup Replacing
          /\ pc' \notin {"restore", "backup"} /\ pc' \notin Advancing \cup Cleanup
      BY <2>4 DEF Guarded, Replacing, Advancing, Cleanup
    <3> QED
      BY <2>1, <2>2, <3>1, Zenon DEF FilesAreCovered
  <2>5. CASE Fail
    BY <2>3, <2>5, FilesAtRestore
  <2> QED
    BY <1>9, <2>4, <2>5 DEF Tidy
<1>10. CASE Interrupted
  <2>1. pc \in Cleanup /\ Fail /\ UNCHANGED <<file, before>>
    BY <1>10 DEF Interrupted, host
  <2>2. CASE spoiled' = TRUE
    BY <2>1, <2>2, FilesAtRestore
  <2>3. CASE UNCHANGED <<saved, spoiled>>
    <3>1. ~spoiled' => \A x \in Entries : Covered(x)'
      BY <2>1, <2>3 DEF FilesAreCovered, Covered
    <3> QED
      BY <2>1, <3>1, FilesAtRestore
  <2> QED
    BY <1>10, <2>2, <2>3 DEF Interrupted, backup
<1> QED
  BY <1>1, <1>2, <1>3, <1>4, <1>5, <1>6, <1>7, <1>8, <1>9, <1>10 DEF Next, Forward, Backward

-----------------------------------------------------------------------------
(***************************************************************************)
(* The identity.                                                           *)
(***************************************************************************)

(* A step that leaves the copy of the state directory alone, and changes   *)
(* the identity itself only where that copy is to be brought back.         *)
StateEdge ==
    /\ UNCHANGED <<marked, savedState, before>>
    /\ spoiled => spoiled'
    /\ state'.key = state.key \/ spoiled' \/ (marked /\ pc' \notin StateRestored)
    /\ pc' \in {"fetch", "backup"} \cup (Guarded \ {"wipe"}) => pc \in {"fetch", "backup"} \cup (Guarded \ {"wipe"})
    /\ pc' \in {"wipe"} \cup Replacing => pc \in {"wipe"} \cup Replacing
    /\ pc' \in Advancing \cup Cleanup => pc \in Advancing \cup Cleanup
    /\ pc' \in StateRestored => pc \in StateRestored

LEMMA StateKept ==
    ASSUME StateIsCovered, StateEdge
    PROVE  StateIsCovered'
<1>0. pc' \in {"fetch", "backup"} \cup (Guarded \ {"wipe"}) => ~marked'
  BY DEF StateIsCovered, StateEdge
<1>1. pc' \in {"wipe"} \cup Replacing => marked'
  BY DEF StateIsCovered, StateEdge
<1>2. ~spoiled' /\ pc' \in Advancing \cup Cleanup =>
         (IF marked' THEN savedState' ELSE state').key = before'.key
  BY DEF StateIsCovered, StateEdge
<1>3. ~spoiled' /\ pc' \in StateRestored => state'.key = before'.key
  BY DEF StateIsCovered, StateEdge
<1> QED
  BY <1>0, <1>1, <1>2, <1>3, Zenon DEF StateIsCovered

LEMMA StateLeft ==
    ASSUME pc' \in {"idle", "installed", "aborted"}
    PROVE  StateIsCovered'
<1>1. /\ pc' \notin {"wipe"} \cup Replacing /\ pc' \notin Advancing \cup Cleanup
      /\ pc' \notin StateRestored /\ pc' \notin {"fetch", "backup"} \cup (Guarded \ {"wipe"})
  BY DEF Guarded, Advancing, Cleanup, Replacing, StateRestored
<1> QED
  BY <1>1, Zenon DEF StateIsCovered

LEMMA StateAtRestore ==
    ASSUME pc' = "restore",
           ~spoiled' => (IF marked' THEN savedState' ELSE state').key = before'.key
    PROVE  StateIsCovered'
<1>1. /\ pc' \notin {"wipe"} \cup Replacing /\ pc' \notin StateRestored
      /\ pc' \notin {"fetch", "backup"} \cup (Guarded \ {"wipe"})
  BY DEF Replacing, StateRestored, Guarded
<1> QED
  BY <1>1, Zenon DEF StateIsCovered

LEMMA QuietState ==
    ASSUME StateIsCovered,
           \/ Fetch \/ Backup \/ Account \/ Join \/ NoteJoined \/ VerifyAccess \/ StopService
           \/ WipeState \/ InstallFile \/ Own \/ WriteSecret \/ Enroll \/ Enable \/ StartService
           \/ RestoreGroup \/ Restart \/ Send \/ Die \/ UNCHANGED vars
    PROVE  StateEdge
<1>0. pc \in {"wipe", "install", "secret", "enroll"} => marked
  BY DEF StateIsCovered, Replacing
<1> USE DEF Continue, Fail, Goto, Guarded, Advancing, Cleanup, Replacing, StateRestored,
            host, backup, history, service, script, StateEdge
<1>1. CASE Fetch
  BY <1>1 DEF Fetch
<1>2. CASE Backup
  BY <1>2 DEF Backup
<1>3. CASE Account
  BY <1>3 DEF Account
<1>4. CASE Join
  BY <1>4 DEF Join
<1>5. CASE NoteJoined
  BY <1>5 DEF NoteJoined
<1>6. CASE VerifyAccess
  BY <1>6 DEF VerifyAccess
<1>7. CASE StopService
  BY <1>7 DEF StopService
<1>8. CASE WipeState
  BY <1>0, <1>8 DEF WipeState
<1>9. CASE InstallFile
  BY <1>0, <1>9 DEF InstallFile
<1>10. CASE Own
  BY <1>10 DEF Own
<1>11. CASE WriteSecret
  BY <1>11 DEF WriteSecret
<1>12. CASE Enroll
  BY <1>0, <1>12 DEF Enroll
<1>13. CASE Enable
  BY <1>13 DEF Enable
<1>14. CASE StartService
  BY <1>14 DEF StartService
<1>15. CASE RestoreGroup
  BY <1>15 DEF RestoreGroup
<1>16. CASE Restart
  BY <1>16 DEF Restart
<1>17. CASE Send
  BY <1>0, <1>17 DEF Send, Writable, HasIdentity, Identity
<1>18. CASE Die
  BY <1>18 DEF Die
<1>19. CASE UNCHANGED vars
  BY <1>19 DEF vars
<1> HIDE DEF StateEdge
<1> QED
  BY <1>1, <1>2, <1>3, <1>4, <1>5, <1>6, <1>7, <1>8, <1>9, <1>10, <1>11, <1>12, <1>13, <1>14, <1>15, <1>16,
     <1>17, <1>18, <1>19

LEMMA StateStep ==
    ASSUME TypeOK, RestingIsClean, StateIsCovered, [Next]_vars
    PROVE  StateIsCovered'
<1> USE DEF Continue, Fail, Goto
<1>1. CASE Begin
  <2>1. /\ pc' = "fetch" /\ marked' = FALSE /\ state' = state /\ before'.key = state.key
    BY <1>1 DEF Begin, backup, host, RestingIsClean
  <2>2. pc' \notin {"wipe"} \cup Replacing /\ pc' \notin StateRestored
    BY <2>1 DEF Replacing, StateRestored
  <2> QED
    BY <2>1, <2>2 DEF StateIsCovered
<1>2. CASE SaveState
  <2>1. pc = "save" /\ UNCHANGED <<state, before, spoiled>>
    BY <1>2 DEF SaveState, host, history
  <2>2. ~marked /\ (~spoiled => state.key = before.key)
    BY <2>1 DEF StateIsCovered, Advancing, Guarded
  <2>3. CASE savedState' = state /\ marked' = TRUE /\ pc' \in {"wipe", "install"}
    <3>1. pc' \notin StateRestored /\ pc' \notin {"fetch", "backup"} \cup (Guarded \ {"wipe"})
      BY <2>3 DEF StateRestored, Guarded
    <3> QED
      BY <2>1, <2>2, <2>3, <3>1 DEF StateIsCovered
  <2>4. CASE Fail /\ UNCHANGED <<savedState, marked>>
    BY <2>1, <2>2, <2>4, StateAtRestore
  <2> QED
    BY <1>2, <2>3, <2>4 DEF SaveState
<1>3. CASE Health
  <2>1. CASE pc' = "installed"
    BY <2>1, StateLeft
  <2>2. CASE pc' # "installed"
    <3>1. StateEdge
      BY <1>3, <2>2 DEF Health, StateEdge, backup, history, Replacing, Guarded, StateRestored, Advancing
    <3> QED
      BY <3>1, StateKept
  <2> QED
    BY <2>1, <2>2
<1>4. CASE RestoreFile
  <2>1. CASE pc' = "aborted"
    BY <2>1, StateLeft
  <2>2. CASE pc' # "aborted"
    <3>1. StateEdge
      BY <1>4, <2>2 DEF RestoreFile, Abort, StateEdge, backup, history, Replacing, Guarded, StateRestored,
         Advancing, Cleanup
    <3> QED
      BY <3>1, StateKept
  <2> QED
    BY <2>1, <2>2
<1>5. CASE RestoreState
  <2>1. /\ pc = "restore_state" /\ UNCHANGED <<before, spoiled>>
        /\ ~spoiled => (IF marked THEN savedState ELSE state).key = before.key
    BY <1>5 DEF RestoreState, history, StateIsCovered, Cleanup
  <2>2. CASE pc' = "aborted"
    BY <2>2, StateLeft
  <2>3. CASE Fail /\ marked /\ UNCHANGED backup
    BY <2>1, <2>3, StateAtRestore DEF backup
  <2>4. CASE pc' = "restore_group" /\ UNCHANGED backup /\ state' = IF marked THEN savedState ELSE state
    <3>1. pc' \notin {"wipe"} \cup Replacing /\ pc' \notin {"fetch", "backup"} \cup (Guarded \ {"wipe"})
      BY <2>4 DEF Replacing, Guarded
    <3>2. UNCHANGED <<marked, savedState>>
      BY <2>4 DEF backup
    <3> QED
      BY <2>1, <2>4, <3>1, <3>2 DEF StateIsCovered
  <2> QED
    BY <1>5, <2>2, <2>3, <2>4 DEF RestoreState, Abort
<1>6. CASE Tidy
  <2>1. pc = "tidy" /\ marked' = FALSE /\ UNCHANGED <<state, before, spoiled>>
    BY <1>6 DEF Tidy, history
  <2>2. ~spoiled => state.key = before.key
    BY <2>1 DEF StateIsCovered, StateRestored
  <2>3. CASE pc' = "failed"
    <3>1. pc' \notin {"wipe"} \cup Replacing /\ pc' \notin {"fetch", "backup"} \cup (Guarded \ {"wipe"})
      BY <2>3 DEF Replacing, Guarded
    <3> QED
      BY <2>1, <2>2, <3>1 DEF StateIsCovered
  <2>4. CASE Fail
    BY <2>1, <2>2, <2>4, StateAtRestore
  <2> QED
    BY <1>6, <2>3, <2>4 DEF Tidy
<1>7. CASE Interrupted
  <2>1. pc \in Cleanup /\ Fail /\ UNCHANGED <<state, before>>
    BY <1>7 DEF Interrupted, host
  <2>2. CASE spoiled' = TRUE
    BY <2>1, <2>2, StateAtRestore
  <2>3. CASE UNCHANGED <<marked, savedState, spoiled>>
    <3>1. ~spoiled' => (IF marked' THEN savedState' ELSE state').key = before'.key
      BY <2>1, <2>3 DEF StateIsCovered
    <3> QED
      BY <2>1, <3>1, StateAtRestore
  <2> QED
    BY <1>7, <2>2, <2>3 DEF Interrupted, backup
<1>8. CASE Uninstall
  BY <1>8, StateLeft DEF Uninstall
<1>9. CASE \/ Fetch \/ Backup \/ Account \/ Join \/ NoteJoined \/ VerifyAccess \/ StopService \/ WipeState
           \/ InstallFile \/ Own \/ WriteSecret \/ Enroll \/ Enable \/ StartService \/ RestoreGroup \/ Restart
           \/ Send \/ Die \/ UNCHANGED vars
  BY <1>9, QuietState, StateKept
<1> QED
  BY <1>1, <1>2, <1>3, <1>4, <1>5, <1>6, <1>7, <1>8, <1>9 DEF Next, Forward, Backward

-----------------------------------------------------------------------------
(***************************************************************************)
(* What is installed, what an upgrade keeps, and the counter.              *)
(***************************************************************************)

(* The steps that end among those that replace files.                      *)
LEMMA ReplacingSteps ==
    ASSUME [Next]_vars, pc' \in Replacing
    PROVE  SaveState \/ WipeState \/ InstallFile \/ Own \/ WriteSecret \/ Enroll \/ Enable \/ StartService
           \/ Health \/ Send \/ Die \/ UNCHANGED vars
<1>1. Begin => pc' \notin Replacing
  BY DEF Begin, Continue, Fail, Goto, Replacing
<1>2. Fetch => pc' \notin Replacing
  BY DEF Fetch, Continue, Fail, Goto, Replacing
<1>3. Backup => pc' \notin Replacing
  BY DEF Backup, Continue, Fail, Goto, Replacing
<1>4. Account => pc' \notin Replacing
  BY DEF Account, Continue, Fail, Goto, Replacing
<1>5. Join => pc' \notin Replacing
  BY DEF Join, Continue, Fail, Goto, Replacing
<1>6. NoteJoined => pc' \notin Replacing
  BY DEF NoteJoined, Continue, Fail, Goto, Replacing
<1>7. VerifyAccess => pc' \notin Replacing
  BY DEF VerifyAccess, Continue, Fail, Goto, Replacing
<1>8. StopService => pc' \notin Replacing
  BY DEF StopService, Continue, Fail, Goto, Replacing
<1>9. RestoreFile => pc' \notin Replacing
  BY DEF RestoreFile, Continue, Fail, Goto, Replacing, Abort
<1>10. RestoreState => pc' \notin Replacing
  BY DEF RestoreState, Continue, Fail, Goto, Replacing, Abort
<1>11. RestoreGroup => pc' \notin Replacing
  BY DEF RestoreGroup, Continue, Fail, Goto, Replacing
<1>12. Restart => pc' \notin Replacing
  BY DEF Restart, Continue, Fail, Goto, Replacing
<1>13. Tidy => pc' \notin Replacing
  BY DEF Tidy, Continue, Fail, Goto, Replacing
<1>14. Interrupted => pc' \notin Replacing
  BY DEF Interrupted, Continue, Fail, Goto, Replacing
<1>15. Uninstall => pc' \notin Replacing
  BY DEF Uninstall, Continue, Fail, Goto, Replacing
<1> QED
  BY <1>1, <1>2, <1>3, <1>4, <1>5, <1>6, <1>7, <1>8, <1>9, <1>10, <1>11, <1>12, <1>13, <1>14, <1>15 DEF Next,
     Forward, Backward

LEMMA TargetStep ==
    ASSUME TypeOK, Positions, TargetIsInstalled, [Next]_vars
    PROVE  TargetIsInstalled'
<1> USE DEF Continue, Fail, Goto
<1>1. CASE pc' \notin Replacing
  BY <1>1 DEF TargetIsInstalled, Replacing
<1>2. CASE InstallFile /\ pc' \in Replacing
  <2>1. PICK e \in Entries : /\ e = InstallOrder[at] /\ pc = "install" /\ at \in 1 .. Len(InstallOrder)
                             /\ file \in [Entries -> Contents]
    BY <1>2, Orders DEF InstallFile, Positions, TypeOK
  <2>2. /\ file' = [file EXCEPT ![e] = target] /\ target' = target
        /\ \/ pc' = "install" /\ at' = at + 1 /\ at < Len(InstallOrder)
           \/ pc' = "own" /\ at = Len(InstallOrder)
    BY <1>2, <2>1, Orders DEF InstallFile, Replacing
  <2>3. (at = 1 => e = "binary") /\ (at = 2 => e = "service") /\ (at = 3 => e = "config")
    BY <2>1, Orders
  <2>4. at > 1 => file.binary = target
    BY <2>1 DEF TargetIsInstalled
  <2>5. at > 2 => file.service = target
    BY <2>1 DEF TargetIsInstalled
  <2>6. file'.binary = target'
    BY <2>1, <2>2, <2>3, <2>4, Orders DEF Entries
  <2>7. at > 1 => file'.service = target'
    BY <2>1, <2>2, <2>3, <2>5, Orders DEF Entries
  <2> QED
    BY <2>1, <2>2, <2>6, <2>7, Orders DEF TargetIsInstalled, Replacing
<1>3. CASE StartService /\ pc' \in Replacing
  <2>1. pc = "start" /\ pc' = "health" /\ process' = AfterStart /\ UNCHANGED <<file, target>>
    BY <1>3 DEF StartService, host, Replacing
  <2>2. file.binary = target /\ file.service = target
    BY <2>1 DEF TargetIsInstalled, Replacing
  <2>3. Up' /\ StartRestarts => process'.binary = target
    BY <2>1, <2>2, StartedIs DEF AfterStart, Up
  <2> QED
    BY <2>1, <2>2, <2>3 DEF TargetIsInstalled, Replacing
<1>4. CASE pc' \in Replacing /\ (SaveState \/ WipeState)
  <2>1. pc' = "install" /\ at' = 1
    BY <1>4 DEF SaveState, WipeState, Replacing
  <2> QED
    BY <2>1 DEF TargetIsInstalled, Replacing
<1>5. CASE pc' \in Replacing /\ (Own \/ WriteSecret \/ Enroll \/ Enable)
  <2>1. pc \in Replacing \ {"install"} /\ pc' \notin {"install", "health"} /\ UNCHANGED <<file, target>>
    BY <1>5 DEF Own, WriteSecret, Enroll, Enable, host, Replacing
  <2> QED
    BY <2>1 DEF TargetIsInstalled
<1>6. CASE pc' \in Replacing /\ (Health \/ Send \/ Die \/ UNCHANGED vars)
  <2>1. UNCHANGED <<pc, file, target>> /\ (pc = "install" => at' = at)
    BY <1>6 DEF Health, Send, Die, vars, script, host, Replacing
  <2>2. Up' => Up /\ process'.binary = process.binary
    <3>1. CASE Send
      BY <3>1, UpIs DEF Send
    <3> QED
      BY <1>6, <3>1 DEF Health, Die, vars, service, Up
  <2> QED
    BY <2>1, <2>2 DEF TargetIsInstalled
<1> QED
  BY <1>1, <1>2, <1>3, <1>4, <1>5, <1>6, ReplacingSteps

LEMMA CounterStep ==
    ASSUME TypeOK, CounterIsShared, [Next]_vars
    PROVE  CounterIsShared'
<1> USE DEF Continue, Fail, Goto
<1>1. CASE pc' \notin Replacing
  BY <1>1 DEF CounterIsShared, Replacing
<1>2. CASE pc' \in Replacing /\ SaveState
  <2>1. pc' = "install" /\ mode' # "fresh"
    BY <1>2 DEF SaveState, Replacing
  <2> QED
    BY <2>1 DEF CounterIsShared
<1>3. CASE pc' \in Replacing /\ WipeState
  <2>1. pc' = "install" /\ state' = Absent
    BY <1>3 DEF WipeState, Replacing
  <2> QED
    BY <2>1, Constants DEF CounterIsShared, HasIdentity
<1>4. CASE pc' \in Replacing /\ InstallFile
  <2>1. /\ pc = "install" /\ pc' \in {"install", "own"} /\ mode' = mode
        /\ state' = IF state = Absent THEN Empty ELSE state
    BY <1>4 DEF InstallFile, Replacing
  <2> QED
    BY <2>1, Constants DEF CounterIsShared, HasIdentity
<1>5. CASE pc' \in Replacing /\ Own
  <2>1. /\ pc = "own" /\ state' = state
        /\ pc' = IF mode = "fresh" THEN "secret" ELSE "enable"
    BY <1>5 DEF Own, Replacing
  <2> QED
    BY <2>1 DEF CounterIsShared, HasIdentity
<1>6. CASE pc' \in Replacing /\ WriteSecret
  <2>1. pc = "secret" /\ pc' = "enroll" /\ UNCHANGED <<state, process>>
    BY <1>6 DEF WriteSecret, service, Replacing
  <2> QED
    BY <2>1 DEF CounterIsShared, HasIdentity, Up
<1>7. CASE pc' \in Replacing /\ (Enroll \/ Enable \/ StartService \/ Health)
  <2>1. pc' \in {"enable", "start", "health"}
    BY <1>7 DEF Enroll, Enable, StartService, Health, Replacing
  <2> QED
    BY <2>1 DEF CounterIsShared
<1>8. CASE Send
  <2>1. UNCHANGED <<pc, mode>> /\ Writable /\ state' = Identity(process.key, process.sequence + 1)
    BY <1>8 DEF Send, script
  <2>2. process' = [process EXCEPT !.sequence = process.sequence + 1]
        /\ process \in [binary : Versions, key : Keys, sequence : 0 .. MaxSequence]
    BY <1>8, UpIs DEF Send
  <2>3. state'.key = process'.key /\ state'.sequence = process'.sequence
    BY <2>1, <2>2 DEF Identity
  <2>4. mode = "fresh" /\ pc \in {"install", "own"} => FALSE
    BY <2>1 DEF CounterIsShared, Writable
  <2> QED
    BY <2>1, <2>3, <2>4 DEF CounterIsShared
<1>9. CASE Die
  <2>1. UNCHANGED <<pc, mode, state>> /\ process' = Down
    BY <1>9 DEF Die, script, host
  <2> QED
    BY <2>1 DEF CounterIsShared, HasIdentity, Up
<1>10. CASE UNCHANGED vars
  BY <1>10 DEF vars, CounterIsShared, HasIdentity, Up
<1> QED
  BY <1>1, <1>2, <1>3, <1>4, <1>5, <1>6, <1>7, <1>8, <1>9, <1>10, ReplacingSteps
(* What a step of an upgrade has to leave alone. *)
UpgradeEdge ==
    /\ UNCHANGED <<mode, before>>
    /\ file'.config = file.config
    /\ spoiled => spoiled'
    /\ state'.key = state.key \/ spoiled'
    /\ pc \in Advancing
    /\ pc' \notin {"wipe", "secret", "enroll"} \/ UNCHANGED pc

LEMMA UpgradeKept ==
    ASSUME UpgradeKeeps, mode = "upgrade", UpgradeEdge
    PROVE  UpgradeKeeps'
BY DEF UpgradeKeeps, UpgradeEdge

LEMMA UpgradeStep ==
    ASSUME TypeOK, Positions, UpgradeKeeps, [Next]_vars
    PROVE  UpgradeKeeps'
<1> USE DEF Continue, Fail, Goto
<1>1. CASE mode' # "upgrade" \/ pc' \notin Advancing
  BY <1>1 DEF UpgradeKeeps
<1> SUFFICES ASSUME mode' = "upgrade", pc' \in Advancing
             PROVE  UpgradeKeeps'
  BY <1>1
<1>2. CASE Begin
  <2>1. /\ pc' = "fetch" /\ HasIdentity /\ UNCHANGED <<file, state>>
        /\ before'.file = file /\ before'.key = state.key
    BY <1>2 DEF Begin, host
  <2> QED
    BY <2>1 DEF UpgradeKeeps, HasIdentity
<1>3. CASE Fetch \/ Backup \/ Account \/ Join \/ NoteJoined \/ VerifyAccess \/ StopService
  <2>1. UNCHANGED <<mode, before, file, state>> /\ (spoiled => spoiled')
    <3>1. CASE Backup
      <4>1. UNCHANGED <<mode, before, file, state>>
        BY <3>1 DEF Backup, host
      <4>2. spoiled => spoiled'
        BY <3>1 DEF Backup
      <4> QED
        BY <4>1, <4>2
    <3>2. CASE Fetch \/ Account \/ Join \/ NoteJoined \/ VerifyAccess \/ StopService
      <4>1. UNCHANGED <<mode, before, file, state, spoiled>>
        BY <3>2 DEF Fetch, Account, Join, NoteJoined, VerifyAccess, StopService, host, history
      <4> QED
        BY <4>1
    <3> QED
      BY <1>3, <3>1, <3>2
  <2>2. pc \in {"fetch", "backup", "account", "join", "note", "access", "stop"}
    BY <1>3 DEF Fetch, Backup, Account, Join, NoteJoined, VerifyAccess, StopService
  <2>3. pc' \in {"backup", "account", "join", "note", "access", "stop", "save", "restore"}
    BY <1>3, <2>2 DEF Fetch, Backup, Account, Join, NoteJoined, VerifyAccess, StopService
  <2> QED
    BY <2>1, <2>2, <2>3, UpgradeKept DEF UpgradeEdge, Advancing, Guarded
<1>4. CASE SaveState \/ Enable \/ StartService \/ Health
  <2>1. /\ UNCHANGED <<mode, before, file, state, spoiled>>
        /\ pc \in {"save", "enable", "start", "health"}
        /\ pc' \notin {"secret", "enroll"} /\ (pc' = "wipe" => mode = "fresh")
    BY <1>4 DEF SaveState, Enable, StartService, Health, host, history
  <2> QED
    BY <2>1, UpgradeKept DEF UpgradeEdge, Advancing, Guarded, Replacing
<1>5. CASE WipeState \/ WriteSecret \/ Enroll
  <2>1. mode' = mode /\ pc \in {"wipe", "secret", "enroll"} /\ pc \in Advancing
    BY <1>5 DEF WipeState, WriteSecret, Enroll, Advancing, Guarded, Replacing
  <2> QED
    BY <2>1 DEF UpgradeKeeps
<1>6. CASE InstallFile
  <2>1. /\ UNCHANGED <<mode, before, spoiled>> /\ pc = "install" /\ pc' \in {"install", "own", "restore"}
        /\ at \in 1 .. Len(InstallOrder) /\ file \in [Entries -> Contents] /\ pc \in Advancing
    BY <1>6 DEF InstallFile, history, Positions, TypeOK, Advancing, Replacing
  <2>2. InstallOrder[at] \in {"binary", "service"}
    BY <2>1, Orders
  <2>5. \E c : file' = [file EXCEPT ![InstallOrder[at]] = c]
    BY <1>6 DEF InstallFile
  <2>3. file'.config = file.config
    BY <2>1, <2>2, <2>5 DEF Entries
  <2>4. state'.key = state.key \/ spoiled'
    BY <1>6, <2>1, Constants DEF InstallFile, UpgradeKeeps
  <2> QED
    BY <2>1, <2>3, <2>4, UpgradeKept DEF UpgradeEdge
<1>7. CASE Own
  <2>1. /\ UNCHANGED <<mode, before, file, state, spoiled>> /\ pc = "own" /\ pc' \in {"enable", "restore"}
    BY <1>7 DEF Own, history
  <2> QED
    BY <2>1, UpgradeKept DEF UpgradeEdge, Advancing, Replacing
<1>8. CASE Send
  <2>1. UNCHANGED <<pc, mode, before, file>> /\ Writable /\ state'.key = process.key
        /\ spoiled' = (spoiled \/ (HasIdentity /\ state.key # process.key))
    BY <1>8 DEF Send, script, Identity
  <2>2. pc \notin {"secret", "enroll"}
    BY <2>1 DEF UpgradeKeeps
  <2> QED
    BY <2>1, <2>2, UpgradeKept DEF UpgradeEdge, Writable
<1>9. CASE Die \/ UNCHANGED vars
  <2>1. UNCHANGED <<pc, mode, before, file, state, spoiled>>
    BY <1>9 DEF Die, vars, script, host, history
  <2> QED
    BY <2>1, UpgradeKept DEF UpgradeEdge
<1>10. CASE RestoreFile \/ RestoreState \/ RestoreGroup \/ Restart \/ Tidy \/ Interrupted \/ Uninstall
  <2>1. pc' \in {"restore", "restore_state", "restore_group", "restart", "tidy", "failed", "aborted", "idle"}
    BY <1>10 DEF RestoreFile, RestoreState, RestoreGroup, Restart, Tidy, Interrupted, Uninstall, Abort
  <2> QED
    BY <2>1 DEF Advancing, Guarded, Replacing
<1> QED
  BY <1>2, <1>3, <1>4, <1>5, <1>6, <1>7, <1>8, <1>9, <1>10 DEF Next, Forward, Backward

-----------------------------------------------------------------------------

LEMMA InstallerInit == Init => InstallerInv
<1> SUFFICES ASSUME Init PROVE InstallerInv
  OBVIOUS
<1>1. /\ pc = "idle" /\ saved = Discarded /\ ~marked /\ ~added /\ at = 1 /\ installs = 0
  BY DEF Init
<1>2. HostOK
  <2>1. CASE file = [e \in Entries |-> None] /\ readable = FALSE /\ state = Absent /\ member = FALSE
    BY <2>1, Constants DEF HostOK, Init
  <2>2. CASE \E v \in Versions, k \in Keys :
                file = [e \in Entries |-> v] /\ readable = TRUE /\ state = Identity(k, 1) /\ member \in BOOLEAN
    BY <2>2, Constants, IdentityTyped DEF HostOK, Init
  <2> QED
    BY <2>1, <2>2 DEF Init
<1>3. target \in Versions
  BY InstallerAssumption DEF Init
<1>4. pc \in Steps /\ ScriptOK
  BY <1>1, <1>3, InstallerAssumption DEF Init, Steps, Resting, ScriptOK
<1>5. BackupOK
  BY Constants DEF Init, BackupOK, Discarded
<1>6. accepted \in [Keys -> 0 .. MaxSequence]
  BY Constants DEF Init
<1>7. state.key \in Keys \cup {"absent", "empty"} /\ state.sequence \in 0 .. MaxSequence
  BY <1>2, Constants DEF HostOK, Identities, Identity, Absent, Empty
<1>8. process \in {Down} \cup [binary : Versions, key : Keys, sequence : 0 .. MaxSequence]
  BY <1>7 DEF Init, Started, HasIdentity, Entries
<1>9. HistoryOK
  BY <1>2, <1>7 DEF Init, HistoryOK, HostOK
<1>10. TypeOK
  BY <1>2, <1>4, <1>5, <1>6, <1>8, <1>9, TypeParts DEF ServiceOK
<1>11. /\ pc \notin {"fetch", "backup"} \cup Guarded /\ pc \notin Advancing \cup Cleanup /\ pc \notin Replacing
       /\ pc \notin StateRestored /\ pc \notin FilesRestored /\ pc \notin {"wipe"} \cup Replacing
       /\ pc \notin {"fetch", "backup"} \cup (Guarded \ {"wipe"})
  BY <1>1 DEF Guarded, Advancing, Cleanup, Replacing, StateRestored, FilesRestored
<1>12. Positions /\ RestingIsClean /\ AddedByThisScript /\ AccessIsKept
  BY <1>1 DEF Positions, RestingIsClean, AddedByThisScript, AccessIsKept
<1>13. FilesAreCovered /\ StateIsCovered
  BY <1>1, <1>11, Zenon DEF FilesAreCovered, StateIsCovered
<1>14. TargetIsInstalled /\ UpgradeKeeps /\ CounterIsShared
  BY <1>1, <1>11 DEF TargetIsInstalled, UpgradeKeeps, CounterIsShared
<1> QED
  BY <1>10, <1>12, <1>13, <1>14 DEF InstallerInv

LEMMA InstallerStep == InstallerInv /\ [Next]_vars => InstallerInv'
BY TypeStep, PositionsStep, RestingIsCleanStep, AddedStep, FilesStep, StateStep, TargetStep, UpgradeStep,
   CounterStep DEF InstallerInv

(* Every step of script, service and uninstaller keeps the invariant. *)
THEOREM InstallerInvariance == Spec => []InstallerInv
BY InstallerInit, InstallerStep, PTL DEF Spec
(* Every variable has the shape of the scripts' state. *)
THEOREM InstallerTypeCorrect == Spec => []TypeOK
<1>1. InstallerInv => TypeOK
  BY DEF InstallerInv
<1> QED
  BY <1>1, InstallerInvariance, PTL

(* Access that was there before the script is never taken away by it. *)
THEOREM RollbackKeepsAccess == Spec => []AccessIsKept
<1>1. InstallerInv => AccessIsKept
  BY DEF InstallerInv
<1> QED
  BY <1>1, InstallerInvariance, PTL

(* Whatever failed and however often cleanup began again, a script that    *)
(* could finish its cleanup leaves the files and the identity it found.    *)
THEOREM RollbackRestores == Spec => []FailedMeansRestored
<1>1. InstallerInv => FailedMeansRestored
  <2> SUFFICES ASSUME InstallerInv, pc = "failed", ~spoiled
               PROVE  AsBefore
    BY DEF FailedMeansRestored
  <2>1. pc \in FilesRestored /\ pc \in StateRestored
    BY DEF FilesRestored, StateRestored
  <2>2. file = before.file /\ state.key = before.key
    BY <2>1 DEF InstallerInv, FilesAreCovered, StateIsCovered
  <2> QED
    BY <2>2 DEF AsBefore
<1> QED
  BY <1>1, InstallerInvariance, PTL

(* A script reports success only when the health checks end, and by then   *)
(* the invariant says what is installed and what was kept.                 *)
LEMMA InstalledStep ==
    ASSUME InstallerInv, [Next]_vars, pc # "installed", pc' = "installed"
    PROVE  /\ file.binary = target /\ file.service = target
           /\ Up
           /\ StartRestarts => process.binary = target
           /\ mode = "upgrade" =>
                 /\ file.config = before.file.config
                 /\ ~spoiled => state.key = before.key
<1>1. Health
  <2>1. Begin => pc' # "installed"
    BY DEF Begin, Continue, Fail, Goto
  <2>2. Fetch => pc' # "installed"
    BY DEF Fetch, Continue, Fail, Goto
  <2>3. Backup => pc' # "installed"
    BY DEF Backup, Continue, Fail, Goto
  <2>4. Account => pc' # "installed"
    BY DEF Account, Continue, Fail, Goto
  <2>5. Join => pc' # "installed"
    BY DEF Join, Continue, Fail, Goto
  <2>6. NoteJoined => pc' # "installed"
    BY DEF NoteJoined, Continue, Fail, Goto
  <2>7. VerifyAccess => pc' # "installed"
    BY DEF VerifyAccess, Continue, Fail, Goto
  <2>8. StopService => pc' # "installed"
    BY DEF StopService, Continue, Fail, Goto
  <2>9. SaveState => pc' # "installed"
    BY DEF SaveState, Continue, Fail, Goto
  <2>10. WipeState => pc' # "installed"
    BY DEF WipeState, Continue, Fail, Goto
  <2>11. InstallFile => pc' # "installed"
    BY DEF InstallFile, Continue, Fail, Goto
  <2>12. Own => pc' # "installed"
    BY DEF Own, Continue, Fail, Goto
  <2>13. WriteSecret => pc' # "installed"
    BY DEF WriteSecret, Continue, Fail, Goto
  <2>14. Enroll => pc' # "installed"
    BY DEF Enroll, Continue, Fail, Goto
  <2>15. Enable => pc' # "installed"
    BY DEF Enable, Continue, Fail, Goto
  <2>16. StartService => pc' # "installed"
    BY DEF StartService, Continue, Fail, Goto
  <2>17. RestoreFile => pc' # "installed"
    BY DEF RestoreFile, Continue, Fail, Goto, Abort
  <2>18. RestoreState => pc' # "installed"
    BY DEF RestoreState, Continue, Fail, Goto, Abort
  <2>19. RestoreGroup => pc' # "installed"
    BY DEF RestoreGroup, Continue, Fail, Goto
  <2>20. Restart => pc' # "installed"
    BY DEF Restart, Continue, Fail, Goto
  <2>21. Tidy => pc' # "installed"
    BY DEF Tidy, Continue, Fail, Goto
  <2>22. Interrupted => pc' # "installed"
    BY DEF Interrupted, Continue, Fail, Goto
  <2>23. Send => pc' # "installed"
    BY DEF Send, Continue, Fail, Goto, script
  <2>24. Die => pc' # "installed"
    BY DEF Die, Continue, Fail, Goto, script
  <2>25. Uninstall => pc' # "installed"
    BY DEF Uninstall, Continue, Fail, Goto
  <2>26. UNCHANGED vars => pc' # "installed"
    BY DEF vars
  <2> QED
    BY <2>1, <2>2, <2>3, <2>4, <2>5, <2>6, <2>7, <2>8, <2>9, <2>10, <2>11, <2>12, <2>13, <2>14, <2>15, <2>16,
       <2>17, <2>18, <2>19, <2>20, <2>21, <2>22, <2>23, <2>24, <2>25, <2>26 DEF Next, Forward, Backward
<1>2. pc = "health" /\ Up
  BY <1>1 DEF Health, Continue, Fail, Goto
<1>3. pc \in Replacing \ {"install"} /\ pc \in Advancing
  BY <1>2 DEF Replacing, Advancing
<1> QED
  BY <1>2, <1>3 DEF InstallerInv, TargetIsInstalled, UpgradeKeeps

(* An installation that succeeds runs what it installed, and an upgrade    *)
(* keeps configuration and identity.                                       *)
THEOREM InstallationRuns == Spec => InstalledIsRunning
<1>1. InstallerInv /\ [Next]_vars =>
         [pc # "installed" /\ pc' = "installed" =>
            /\ file.binary = target /\ file.service = target
            /\ Up
            /\ StartRestarts => process.binary = target
            /\ mode = "upgrade" =>
                  /\ file.config = before.file.config
                  /\ ~spoiled => state.key = before.key]_vars
  BY InstalledStep
<1> QED
  BY <1>1, InstallerInvariance, PTL DEF Spec, InstalledIsRunning

(* What the application has accepted grows with the counter it came from.  *)
LEMMA CounterFallsStep ==
    ASSUME InstallerInv, [Next]_vars, Behind' \/ Straggles'
    PROVE  Behind \/ Straggles \/ pc = "restore_state"
<1>0. /\ TypeOK /\ CounterIsShared /\ state.sequence \in Nat /\ MaxSequence \in Nat
      /\ accepted \in [Keys -> 0 .. MaxSequence]
  BY StateTyped, InstallerAssumption DEF InstallerInv, TypeOK
<1>1. CASE Enroll
  <2>1. PICK k \in IF HasIdentity THEN {state.key} ELSE NewKeys :
           LET s == IF HasIdentity THEN state.sequence + 1 ELSE 1
           IN  \/ /\ state' = Identity(k, s)
                  /\ accepted' = [accepted EXCEPT ![k] = IF s > @ THEN s ELSE @]
               \/ /\ state' \in {state, Identity(k, s - 1)}
                  /\ accepted' = accepted
    BY <1>1 DEF Enroll
  <2>2. process' = process /\ pc = "enroll"
    BY <1>1 DEF Enroll
  <2>3. CASE HasIdentity
    <3>1. k = state.key /\ k \in Keys /\ accepted[k] \in Nat
      BY <1>0, <2>1, <2>3 DEF HasIdentity
    <3>2. Up => process.key = k /\ process.sequence = state.sequence
      BY <1>0, <2>2, <2>3, <3>1 DEF CounterIsShared
    <3>3. /\ state'.key = k
          /\ \/ state'.sequence = state.sequence + 1
                /\ accepted'[k] = IF state.sequence + 1 > accepted[k] THEN state.sequence + 1 ELSE accepted[k]
             \/ state'.sequence = state.sequence /\ accepted'[k] = accepted[k]
      BY <1>0, <2>1, <2>3, <3>1 DEF Identity
    <3> QED
      BY <1>0, <2>2, <2>3, <3>1, <3>2, <3>3 DEF Behind, Straggles, HasIdentity, Up
  <2>4. CASE ~HasIdentity
    <3>1. k \in Keys /\ accepted[k] = 0 /\ k # process.key
      BY <2>1, <2>4 DEF NewKeys
    <3>2. /\ accepted'[k] \in {0, 1}
          /\ HasIdentity' => state'.key = k /\ state'.sequence \in Nat /\ state'.sequence >= accepted'[k]
      BY <1>0, <2>1, <2>4, <3>1 DEF Identity, HasIdentity
    <3>3. ~Behind'
      BY <3>2 DEF Behind
    <3>4. accepted'[process.key] = accepted[process.key] \/ process.key \notin Keys
      BY <1>0, <2>1, <2>4, <3>1
    <3>5. Up => process.key \in Keys
      BY <1>0, UpIs
    <3> QED
      BY <2>2, <3>3, <3>4, <3>5 DEF Straggles, Up
  <2> QED
    BY <2>3, <2>4
<1>2. CASE Send
  <2>1. /\ Up /\ process \in [binary : Versions, key : Keys, sequence : 0 .. MaxSequence]
    BY <1>0, <1>2, UpIs DEF Send
  <2> DEFINE k == process.key
             s == process.sequence + 1
  <2>2. process'.key = k /\ process'.sequence = s /\ state'.key = k /\ state'.sequence = s
    BY <1>2, <2>1 DEF Send, Identity
  <2>3. accepted'[k] = IF s > accepted[k] THEN s ELSE accepted[k]
    BY <1>0, <1>2, <2>1 DEF Send
  <2>4. accepted[k] \in Nat /\ s \in Nat
    BY <1>0, <2>1
  <2>5. s < accepted[k]
    BY <2>2, <2>3, <2>4 DEF Behind, Straggles
  <2> QED
    BY <2>1, <2>5 DEF Straggles
<1>3. CASE StartService \/ Restart \/ StopService \/ Die \/ Uninstall
  <2>1. accepted' = accepted /\ process' \in {process, Down, Started}
    BY <1>3 DEF StartService, Restart, StopService, Die, Uninstall, AfterStart
  <2>2. state' = state \/ state' = Absent
    BY <1>3 DEF StartService, Restart, StopService, Die, Uninstall, host
  <2>3. Behind' => Behind
    BY <2>1, <2>2, Constants DEF Behind, HasIdentity
  <2>4. CASE process' = process
    BY <2>1, <2>3, <2>4 DEF Straggles, Up
  <2>5. CASE process' = Down
    BY <2>3, <2>5 DEF Straggles, Up
  <2>6. CASE process' = Started /\ process' # Down
    <3>1. process'.key = state.key /\ process'.sequence = state.sequence /\ HasIdentity
      BY <1>0, <2>6, StartedIs
    <3>2. accepted[state.key] \in Nat
      BY <1>0, <3>1 DEF HasIdentity
    <3> QED
      BY <1>0, <2>1, <2>3, <3>1, <3>2 DEF Behind, Straggles
  <2> QED
    BY <2>1, <2>4, <2>5, <2>6
<1>4. CASE RestoreState
  BY <1>4 DEF RestoreState
<1>5. CASE WipeState \/ InstallFile
  <2>1. UNCHANGED <<accepted, process>> /\ state' \in {state, Absent, Empty}
    BY <1>5 DEF WipeState, InstallFile, service
  <2> QED
    BY <2>1, Constants DEF Behind, Straggles, HasIdentity, Up
<1>6. CASE UNCHANGED <<state, accepted, process>>
  BY <1>6 DEF Behind, Straggles, HasIdentity, Up
<1>7. \/ Begin \/ Fetch \/ Backup \/ Account \/ Join \/ NoteJoined \/ VerifyAccess \/ SaveState \/ Own \/ WriteSecret
      \/ Enable \/ Health \/ RestoreFile \/ RestoreGroup \/ Tidy \/ Interrupted \/ UNCHANGED vars
      => UNCHANGED <<state, accepted, process>>
  BY DEF Begin, Fetch, Backup, Account, Join, NoteJoined, VerifyAccess, SaveState, Own, WriteSecret, Enable,
     Health,
         RestoreFile, RestoreGroup, Tidy, Interrupted, host, service, vars
<1> QED
  BY <1>1, <1>2, <1>3, <1>4, <1>5, <1>6, <1>7 DEF Next, Forward, Backward

(* Only cleanup, where it brings a state directory back, loses a number    *)
(* that was used.                                                          *)
THEOREM OnlyRollbackLosesNumbers == Spec => CounterFallsInRollback
<1>1. InstallerInv /\ [Next]_vars =>
         [Behind' \/ Straggles' => Behind \/ Straggles \/ pc = "restore_state"]_vars
  BY CounterFallsStep
<1> QED
  BY <1>1, InstallerInvariance, PTL DEF Spec, CounterFallsInRollback
=============================================================================
