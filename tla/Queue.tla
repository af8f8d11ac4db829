-------------------------------- MODULE Queue --------------------------------
(***************************************************************************)
(* The on-disk heartbeat buffer (src/internal/buffer/queue.go): one file   *)
(* per queued heartbeat, named by its sequence number, and metadata.json   *)
(* with the number of samples dropped and not yet acknowledged.            *)
(*                                                                         *)
(* Queue.mu serialises the operations, so an operation that changes one    *)
(* file is one action.  Enforcing the limits changes several files: it is  *)
(* one action per file, between which an I/O error or a crash may fall.    *)
(***************************************************************************)
EXTENDS Integers, FiniteSets, Functions

CONSTANTS
    SequenceIds,    \* sequence numbers an entry may have (uint64, positive)
    Bodies,         \* compressed heartbeats, told apart by their size
    DefaultLimits,  \* Limits{60, 10<<20}, what main passes to Open
    ContractLimits, \* limits a contract may impose through SetLimits
    IOErrors        \* TRUE: file operations may fail

Limits == [samples : Nat \ {0}, bytes : Nat \ {0}]

ASSUME QueueAssumption ==
    /\ SequenceIds \subseteq Nat \ {0}
    /\ \A b \in Bodies : b.size \in Nat \ {0}
    /\ DefaultLimits \in Limits
    /\ ContractLimits \subseteq Limits
    /\ IOErrors \in BOOLEAN

VARIABLES
    files,    \* sequence number -> body, for every *.heartbeat.gz file
    dropped,  \* metadata.json
    limits,   \* Queue.limits
    phase,    \* "closed", "idle", or "enforce" while enforceLimitsLocked runs
    evicted,  \* its local variable dropped
    lost,     \* history: sequence numbers removed to enforce a limit
    credited  \* history: drops subtracted again by AcknowledgeDropped

queueVars == <<files, dropped, limits, phase, evicted, lost, credited>>

Queued == DOMAIN files

TotalBytes(fs) == SumFunction([s \in DOMAIN fs |-> fs[s].size])

OverLimits(fs, l) == Cardinality(DOMAIN fs) > l.samples \/ TotalBytes(fs) > l.bytes

IsOldest(s, S) == s \in S /\ \A q \in S : s <= q

Without(fs, s) == [q \in DOMAIN fs \ {s} |-> fs[q]]

With(fs, s, b) == [q \in DOMAIN fs \cup {s} |-> IF q = s THEN b ELSE fs[q]]

(* Open takes the directory as it finds it and enforces nothing. *)
Open ==
    /\ phase = "closed"
    /\ phase' = "idle"
    /\ limits' = DefaultLimits
    /\ UNCHANGED <<files, dropped, evicted, lost, credited>>

(***************************************************************************)
(* Add(s, b).  An entry above the byte limit, or a number that is already  *)
(* queued, is refused; otherwise the file is written and the limits are    *)
(* enforced.  An error before the file exists changes nothing; AddUnread   *)
(* is one while the directory is read back: the file stays and nothing is  *)
(* enforced.                                                               *)
(***************************************************************************)
Admits(s, b) == s \notin Queued /\ b.size <= limits.bytes

Add(s, b) ==
    /\ phase = "idle"
    /\ Admits(s, b)
    /\ files' = With(files, s, b)
    /\ phase' = "enforce"
    /\ UNCHANGED <<dropped, limits, evicted, lost, credited>>

AddRefused(s, b) ==
    /\ phase = "idle"
    /\ ~Admits(s, b)
    /\ UNCHANGED queueVars

AddUnread(s, b) ==
    /\ IOErrors
    /\ phase = "idle"
    /\ Admits(s, b)
    /\ files' = With(files, s, b)
    /\ UNCHANGED <<dropped, limits, phase, evicted, lost, credited>>

(* SetLimits(l) replaces the limits, then enforces them. *)
SetLimits(l) ==
    /\ phase = "idle"
    /\ limits' = l
    /\ phase' = "enforce"
    /\ UNCHANGED <<files, dropped, evicted, lost, credited>>

(***************************************************************************)
(* enforceLimitsLocked: remove the oldest file while a limit is exceeded,  *)
(* then add the count to metadata.json.  An error in a removal or in the   *)
(* metadata leaves the removals made so far uncounted.                     *)
(***************************************************************************)
EvictNewest ==
    /\ phase = "enforce"
    /\ OverLimits(files, limits)
    /\ \E s \in Queued :
          /\ \A q \in Queued : q <= s
          /\ files' = Without(files, s)
          /\ lost' = lost \cup {s}
    /\ evicted' = evicted + 1
    /\ UNCHANGED <<dropped, limits, phase, credited>>

EvictOldest ==
    /\ phase = "enforce"
    /\ OverLimits(files, limits)
    /\ \E s \in Queued :
          /\ IsOldest(s, Queued)
          /\ files' = Without(files, s)
          /\ lost' = lost \cup {s}
    /\ evicted' = evicted + 1
    /\ UNCHANGED <<dropped, limits, phase, credited>>

EnforceFails ==
    /\ IOErrors
    /\ phase = "enforce"
    /\ OverLimits(files, limits) \/ evicted > 0
    /\ phase' = "idle"
    /\ evicted' = 0
    /\ UNCHANGED <<files, dropped, limits, lost, credited>>

CountDroppedTwice ==
    /\ phase = "enforce"
    /\ ~OverLimits(files, limits)
    /\ dropped' = dropped + evicted
    /\ phase' = "idle"
    /\ UNCHANGED <<files, limits, evicted, lost, credited>>

CountDropped ==
    /\ phase = "enforce"
    /\ ~OverLimits(files, limits)
    /\ dropped' = dropped + evicted
    /\ phase' = "idle"
    /\ evicted' = 0
    /\ UNCHANGED <<files, limits, lost, credited>>

(* Remove(s): a file that is already gone is no error. *)
Remove(s) ==
    /\ phase = "idle"
    /\ files' = Without(files, s)
    /\ UNCHANGED <<dropped, limits, phase, evicted, lost, credited>>

(* AcknowledgeDropped(n) subtracts n and stops at zero. *)
AcknowledgeUnclamped(n) ==
    /\ phase = "idle"
    /\ n > 0
    /\ dropped' = dropped - n
    /\ credited' = credited + n
    /\ UNCHANGED <<files, limits, phase, evicted, lost>>

AcknowledgeDropped(n) ==
    /\ phase = "idle"
    /\ n > 0
    /\ dropped' = IF n >= dropped THEN 0 ELSE dropped - n
    /\ credited' = credited + (dropped - dropped')
    /\ UNCHANGED <<files, limits, phase, evicted, lost>>

ClearDropped ==
    /\ phase = "idle"
    /\ dropped' = 0
    /\ credited' = credited + dropped
    /\ UNCHANGED <<files, limits, phase, evicted, lost>>

(* The process dies; the files stay as they are. *)
Crash ==
    /\ phase # "closed"
    /\ phase' = "closed"
    /\ evicted' = 0
    /\ UNCHANGED <<files, dropped, limits, lost, credited>>

-----------------------------------------------------------------------------

Init ==
    /\ files = <<>>
    /\ dropped = 0
    /\ limits = DefaultLimits
    /\ phase = "closed"
    /\ evicted = 0
    /\ lost = {}
    /\ credited = 0

(* The caller's numbers come from ReserveSequence: none is used twice. *)
Fresh(s) == \A q \in Queued \cup lost : q < s

Next ==
    \/ Open
    \/ \E s \in SequenceIds, b \in Bodies :
          \/ Fresh(s) /\ Add(s, b)
          \/ AddRefused(s, b)
          \/ Fresh(s) /\ AddUnread(s, b)
    \/ \E l \in ContractLimits : SetLimits(l)
    \/ EvictOldest
    \/ EnforceFails
    \/ CountDropped
    \/ \E s \in SequenceIds : Remove(s)
    \/ \E n \in 1 .. Cardinality(SequenceIds) : AcknowledgeDropped(n)
    \/ ClearDropped
    \/ Crash

Spec == Init /\ [][Next]_queueVars

-----------------------------------------------------------------------------

(* Every variable has the shape of the code's state. *)
TypeOK ==
    /\ Queued \in SUBSET SequenceIds
    /\ files \in [Queued -> Bodies]
    /\ dropped \in Nat
    /\ limits \in Limits
    /\ phase \in {"closed", "idle", "enforce"}
    /\ evicted \in Nat
    /\ lost \in SUBSET SequenceIds
    /\ credited \in Nat

(***************************************************************************)
(* What metadata.json may claim.  Drops it counts, drops already           *)
(* acknowledged and drops being counted never exceed the samples really    *)
(* evicted, whatever fails between the removals and the count: a crash or  *)
(* an I/O error under-reports, it never over-reports.                      *)
(***************************************************************************)
NeverOverReports ==
    /\ phase # "enforce" => evicted = 0
    /\ dropped + evicted + credited <= Cardinality(lost)

(***************************************************************************)
(* A removal to enforce a limit takes the oldest sample: what survives is  *)
(* newer than everything that was ever evicted, across contract changes,   *)
(* restarts with other limits and half-finished enforcements.              *)
(***************************************************************************)
EvictionIsFIFO ==
    \A s \in lost, q \in Queued : s < q

(***************************************************************************)
(* Add never evicts the sample it was called for: while its limits are     *)
(* enforced, and when it returns, a newest entry within the byte limit is  *)
(* still queued.  Only SetLimits may empty the buffer.                     *)
(***************************************************************************)
AddKeepsItsEntry ==
    [][\A s \in SequenceIds :
          (EvictOldest /\ s \in Queued /\ s \notin DOMAIN files' /\ files[s].size <= limits.bytes)
             => \E q \in Queued : q > s]_queueVars

(* These are inductive together: what is evicted next was never evicted    *)
(* before, so that each eviction adds one to the samples really lost.      *)
QueueInv ==
    /\ TypeOK
    /\ IsFiniteSet(lost)
    /\ EvictionIsFIFO
    /\ NeverOverReports
=============================================================================
