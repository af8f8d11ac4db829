------------------------------ MODULE Identity ------------------------------
(***************************************************************************)
(* The agent's persistent identity (src/internal/identity/identity.go): an *)
(* Ed25519 key, the device number the application assigned, and the        *)
(* counter from which every signed request takes its sequence number.      *)
(*                                                                         *)
(* The record lives twice: in the process (mem) and in identity.json       *)
(* (disk).  All operations run under Identity.mu, so each is one action;   *)
(* what can go wrong is the file replacement inside it and a crash.        *)
(***************************************************************************)
EXTENDS Integers, Sequences

CONSTANTS
    Keys,            \* private keys ed25519.GenerateKey may return
    Devices,         \* device numbers the application may assign
    MaxSequence,     \* ^uint64(0) in the code; the bound of a model
    PersistOutcomes  \* outcomes persistLocked may have in this model

ASSUME IdentityAssumption ==
    /\ Keys # {} /\ "none" \notin Keys
    /\ Devices \subseteq Nat \ {0}
    /\ MaxSequence \in Nat
    /\ PersistOutcomes \subseteq {"ok", "failed", "unsure"}

NoDevice == 0

NoFile == [key |-> "none", deviceID |-> 0, sequence |-> 0]

VARIABLES
    running,  \* the process holds a loaded identity
    mem,      \* Identity.privateKey, deviceID and sequence
    disk,     \* identity.json, or NoFile
    issued    \* history: the numbers ReserveSequence returned, in order

identityVars == <<running, mem, disk, issued>>

Persisted == [key : Keys, deviceID : Devices \cup {NoDevice}, sequence : 0 .. MaxSequence]

(***************************************************************************)
(* persistLocked writes and syncs a temporary file, renames it over        *)
(* identity.json and then changes its mode.  "failed" is an error before   *)
(* the rename took effect, "unsure" an error after it: the caller sees the *)
(* same error, the file on disk is the new one.                            *)
(***************************************************************************)
persistLocked(value, outcome) ==
    /\ outcome \in PersistOutcomes
    /\ disk' = IF outcome = "failed" THEN disk ELSE value

(***************************************************************************)
(* LoadOrCreate.  An existing file is taken as it is.  Without a file a    *)
(* key is generated and persisted before the identity is handed out; when  *)
(* that fails the program exits, and no identity is loaded.                *)
(***************************************************************************)
LoadOrCreate ==
    /\ ~running
    /\ \/ /\ disk # NoFile
          /\ mem' = disk
          /\ running' = TRUE
          /\ UNCHANGED disk
       \/ /\ disk = NoFile
          /\ \E k \in Keys, outcome \in PersistOutcomes :
               LET fresh == [key |-> k, deviceID |-> NoDevice, sequence |-> 0]
               IN  /\ persistLocked(fresh, outcome)
                   /\ running' = (outcome = "ok")
                   /\ mem' = IF outcome = "ok" THEN fresh ELSE mem
    /\ UNCHANGED issued

(***************************************************************************)
(* Activate(d).  Memory takes the device before the file does and is not   *)
(* rolled back when the file cannot be replaced.                           *)
(***************************************************************************)
Activate(d, outcome) ==
    /\ running
    /\ mem.deviceID \in {NoDevice, d}
    /\ mem' = [mem EXCEPT !.deviceID = d]
    /\ persistLocked(mem', outcome)
    /\ UNCHANGED <<running, issued>>

(***************************************************************************)
(* ReserveSequence.  Refused before activation and at the last number;     *)
(* otherwise the incremented counter is persisted first, and the increment *)
(* is undone in memory (not on disk) when that fails.                      *)
(***************************************************************************)
CanReserveForever == running /\ mem.deviceID # NoDevice

CanReserve == running /\ mem.deviceID # NoDevice /\ mem.sequence < MaxSequence

ReserveSequenceInMemory(outcome) ==
    /\ CanReserve
    /\ mem' = [mem EXCEPT !.sequence = @ + 1]
    /\ outcome \in PersistOutcomes
    /\ issued' = Append(issued, mem.sequence + 1)
    /\ UNCHANGED <<running, disk>>

ReserveSequence(outcome) ==
    /\ CanReserve
    /\ LET next == [mem EXCEPT !.sequence = @ + 1]
       IN  /\ persistLocked(next, outcome)
           /\ mem' = IF outcome = "ok" THEN next ELSE mem
           /\ issued' = IF outcome = "ok" THEN Append(issued, next.sequence) ELSE issued
    /\ UNCHANGED running

(* The process dies and its memory is gone. *)
IdentityCrash ==
    /\ running
    /\ running' = FALSE
    /\ UNCHANGED <<mem, disk, issued>>

(* It dies inside ReserveSequence, after the rename: the file already      *)
(* holds the number that nobody received.                                  *)
CrashInReserve ==
    /\ CanReserve
    /\ running' = FALSE
    /\ disk' = [mem EXCEPT !.sequence = @ + 1]
    /\ UNCHANGED <<mem, issued>>

-----------------------------------------------------------------------------

IdentityInit ==
    /\ running = FALSE
    /\ disk = NoFile
    /\ mem = NoFile
    /\ issued = <<>>

IdentityNext ==
    \/ LoadOrCreate
    \/ \E outcome \in PersistOutcomes :
          \/ \E d \in Devices : Activate(d, outcome)
          \/ ReserveSequence(outcome)
    \/ IdentityCrash
    \/ CrashInReserve

IdentitySpec == IdentityInit /\ [][IdentityNext]_identityVars

-----------------------------------------------------------------------------

(* Every variable has the shape of the code's state. *)
IdentityTypeOK ==
    /\ running \in BOOLEAN
    /\ mem \in Persisted \cup {NoFile}
    /\ disk \in Persisted \cup {NoFile}
    /\ issued \in Seq(1 .. MaxSequence)

(***************************************************************************)
(* Replay protection rests on this: over the whole life of the identity,   *)
(* through failed writes, failed mode changes and crashes inside the file  *)
(* replacement, ReserveSequence never returns a number twice and never     *)
(* goes back (identity.go, ReserveSequence and LoadOrCreate together).     *)
(***************************************************************************)
SequencesIncrease ==
    \A i, j \in DOMAIN issued : i < j => issued[i] < issued[j]

(***************************************************************************)
(* Whoever holds a sequence number has its device and key on disk: a       *)
(* restart never comes back as an unactivated agent, or with another key,  *)
(* after a signed request may have been sent.  Activate alone does not     *)
(* give this, because it leaves the device in memory when its write fails. *)
(***************************************************************************)
SignerIsOnDisk ==
    issued # <<>> =>
       /\ disk # NoFile
       /\ disk.deviceID # NoDevice
       /\ running => mem.key = disk.key /\ mem.deviceID = disk.deviceID

(***************************************************************************)
(* A bound identity is never rebound and its key never replaced, whatever  *)
(* device numbers later activations return ("identity is already bound to  *)
(* another device").                                                       *)
(***************************************************************************)
BindingIsFinal ==
    [][disk # NoFile =>
          /\ disk'.key = disk.key
          /\ disk.deviceID # NoDevice => disk'.deviceID = disk.deviceID]_identityVars

(***************************************************************************)
(* The strengthening under which SequencesIncrease and SignerIsOnDisk are  *)
(* inductive: the file is at most one number ahead of memory, and every    *)
(* number handed out is covered by both.                                   *)
(***************************************************************************)
DiskAheadOfMemory ==
    running =>
       /\ disk # NoFile
       /\ mem \in Persisted
       /\ mem.key = disk.key
       /\ mem.sequence <= disk.sequence
       /\ disk.deviceID \in {NoDevice, mem.deviceID}
       /\ \A i \in DOMAIN issued : issued[i] <= mem.sequence

IssuedIsPersisted ==
    \A i \in DOMAIN issued : issued[i] <= disk.sequence /\ disk.deviceID # NoDevice

IdentityInv ==
    /\ IdentityTypeOK
    /\ DiskAheadOfMemory
    /\ IssuedIsPersisted
    /\ SequencesIncrease
=============================================================================
