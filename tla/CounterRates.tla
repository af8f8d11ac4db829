---------------------------- MODULE CounterRates ----------------------------
(***************************************************************************)
(* Rates computed from counters that only the system advances: the CPU use *)
(* of systemd services (services/systemd.go), the network and disk traffic *)
(* of containers (containers/collector.go) and the load of the processor.  *)
(* A collector keeps the last value it read and, for a rate, the instant   *)
(* it ascribes to it.                                                      *)
(*                                                                         *)
(* What is read runs on while it is read.  The command that shows the      *)
(* services is over when the instant is taken; for the containers it is    *)
(* taken after they are listed and before their counters are requested.    *)
(***************************************************************************)
EXTENDS Integers, FiniteSets, Functions

CONSTANTS
    Services, Containers,
    MaxClock,   \* bound: the clock stops here
    MaxUse,     \* bound: units all meters ever count
    Word        \* 2^64: the unsigned counters wrap there

Meters == Services \cup Containers

ASSUME MetersAssumption ==
    /\ Services \cap Containers = {}
    /\ {MaxClock, MaxUse} \subseteq Nat
    /\ Word \in Nat \ {0}

VARIABLES
    clock,
    running,        \* services and containers that run
    shown,          \* services whose unit shows a counter
    counter,        \* what the system counts: use since the last start
    previousCPU,    \* systemd: per service the last value, never removed
    previousAt,     \* systemd: the instant of the last successful collection
    output,         \* systemd: what the present command has shown
    now,            \* containers: the instant of the present collection
    currentIDs,     \* containers: those of the present list
    asking,         \* units or containers whose counters are still to be read
    previous,       \* containers: per container the last value and its instant
    report,         \* the rates of the present collection
    used,           \* history: all use of a meter, over every start
    usedBefore,     \* history: the same when the present collection began
    base            \* history: the same when the last one began that left a value

host == <<clock, running, shown, counter, used>>
systemd == <<previousCPU, previousAt, output>>
runtime == <<now, currentIDs, previous>>
present == <<asking, usedBefore>>

-----------------------------------------------------------------------------
(***************************************************************************)
(* The system (external).                                                  *)
(***************************************************************************)
Tick ==
    /\ clock < MaxClock
    /\ clock' = clock + 1
    /\ UNCHANGED <<running, shown, counter, used>>

UsedByAll == FoldFunction(+, 0, used)

Use(m) ==
    /\ m \in running
    /\ UsedByAll < MaxUse
    /\ counter' = [counter EXCEPT ![m] = @ + 1]
    /\ used' = [used EXCEPT ![m] = @ + 1]
    /\ UNCHANGED <<clock, running, shown>>

(* What is started counts from zero. *)
Run(m) ==
    /\ m \notin running
    /\ running' = running \cup {m}
    /\ shown' = shown \cup ({m} \cap Services)
    /\ counter' = [counter EXCEPT ![m] = 0]
    /\ UNCHANGED <<clock, used>>

(* A unit that does not run shows its last value until it is unloaded,     *)
(* with its counter.                                                       *)
Stop(m) ==
    /\ m \in running
    /\ running' = running \ {m}
    /\ UNCHANGED <<clock, shown, counter, used>>

Unload(s) ==
    /\ s \in shown \ running
    /\ shown' = shown \ {s}
    /\ counter' = [counter EXCEPT ![s] = 0]
    /\ UNCHANGED <<clock, running, used>>

Host ==
    /\ Tick \/ \E m \in Meters : Use(m) \/ Run(m) \/ Stop(m) \/ Unload(m)
    /\ UNCHANGED <<systemd, runtime, present, report, base>>

-----------------------------------------------------------------------------
(* The value of m grew by amount in elapsed.  covered, which the program   *)
(* cannot know, is what m has used since the earlier collection began.     *)
RateOf(m, value, since, elapsed) ==
    [meter |-> m, amount |-> value - since, elapsed |-> elapsed, covered |-> used[m] - base[m]]

(* The entries of new put into a map. *)
Updated(map, new) ==
    [x \in DOMAIN map \cup DOMAIN new |-> IF x \in DOMAIN new THEN new[x] ELSE map[x]]

None == [m \in Meters |-> 0]

(***************************************************************************)
(* Systemd.Collect: the command lists the units, reads one after the other *)
(* and ends.                                                               *)
(***************************************************************************)
ListUnits ==
    /\ asking' = shown
    /\ usedBefore' = used
    /\ UNCHANGED <<systemd, runtime, report, base>>

Show(s) ==
    /\ s \in asking
    /\ asking' = asking \ {s}
    /\ output' = IF s \in shown THEN Updated(output, [x \in {s} |-> counter[s]]) ELSE output
    /\ UNCHANGED <<previousCPU, previousAt, runtime, usedBefore, report, base>>

UsedBeforeServices == [m \in Meters |-> IF m \in Services THEN usedBefore[m] ELSE base[m]]

EndCommand == asking' = {} /\ output' = <<>> /\ usedBefore' = None /\ UNCHANGED runtime

ServicesRead ==
    LET rated == {s \in DOMAIN output \cap DOMAIN previousCPU :
                    output[s] >= previousCPU[s] /\ clock > previousAt}
    IN  /\ asking = {}
        /\ report' = {RateOf(s, output[s], previousCPU[s], clock - previousAt) : s \in rated}
        /\ previousCPU' = Updated(previousCPU, output)
        /\ previousAt' = clock
        /\ base' = UsedBeforeServices
        /\ EndCommand

ServicesFailLate ==
    /\ previousAt' = clock
    /\ base' = UsedBeforeServices
    /\ EndCommand
    /\ UNCHANGED <<previousCPU, report>>

ServicesAbandoned ==
    /\ output' = <<>> /\ usedBefore' = None
    /\ UNCHANGED <<asking, previousCPU, previousAt, runtime, report, base>>

(* systemctl fails, runs out of time or lists too many units. *)
ServicesFail == EndCommand /\ UNCHANGED <<previousCPU, previousAt, report, base>>

-----------------------------------------------------------------------------
(***************************************************************************)
(* Containers: Collect.                                                    *)
(***************************************************************************)
ListContainers ==
    /\ currentIDs' = Containers \cap running
    /\ asking' = currentIDs'
    /\ now' = clock
    /\ usedBefore' = used
    /\ UNCHANGED <<systemd, previous, report, base>>

ApplyStatsAlways(c) ==
    /\ report' =
           IF c \in DOMAIN previous /\ counter[c] >= previous[c].value
           THEN report \cup {RateOf(c, counter[c], previous[c].value, now - previous[c].at)}
           ELSE report
    /\ previous' = Updated(previous, [x \in {c} |-> [value |-> counter[c], at |-> now]])
    /\ base' = [base EXCEPT ![c] = usedBefore[c]]

(* The statistics of c: a rate needs an earlier value that is not larger   *)
(* and an instant after that value's.                                      *)
ApplyStats(c) ==
    /\ report' =
           IF c \in DOMAIN previous /\ counter[c] >= previous[c].value /\ now > previous[c].at
           THEN report \cup {RateOf(c, counter[c], previous[c].value, now - previous[c].at)}
           ELSE report
    /\ previous' = Updated(previous, [x \in {c} |-> [value |-> counter[c], at |-> now]])
    /\ base' = [base EXCEPT ![c] = usedBefore[c]]

(* A request that fails leaves the container without rates and its last    *)
(* value as it was.                                                        *)
Ask(c) ==
    /\ c \in asking
    /\ asking' = asking \ {c}
    /\ \/ c \in running /\ ApplyStats(c)
       \/ UNCHANGED <<previous, report, base>>
    /\ UNCHANGED <<systemd, now, currentIDs, usedBefore>>

(* What is kept of the containers that were not listed is deleted; the     *)
(* collection's own variables end.                                         *)
Prune ==
    /\ asking = {}
    /\ previous' = [c \in DOMAIN previous \cap currentIDs |-> previous[c]]
    /\ currentIDs' = {} /\ now' = 0 /\ usedBefore' = None
    /\ UNCHANGED <<systemd, asking, report, base>>

-----------------------------------------------------------------------------
(***************************************************************************)
(* The processor: time counted per state.  Idle time may also fall, as the *)
(* kernel takes back what it counted as waiting.                           *)
(***************************************************************************)
Total(cpu) == cpu.busy + cpu.idle

validDelta(current, last) ==
    current.busy >= last.busy /\ current.idle >= last.idle /\ Total(current) > Total(last)

(* Subtraction of unsigned integers. *)
Minus(a, b) == IF a >= b THEN a - b ELSE a - b + Word

(* The percentage as a part of a whole, {} when there is none. *)
percentage(current, last) ==
    IF validDelta(current, last)
    THEN LET whole == Minus(Total(current), Total(last))
         IN  {[part |-> Minus(whole, Minus(current.idle, last.idle)), whole |-> whole]}
    ELSE {}

Readings == {cpu \in [busy : 0 .. Word - 1, idle : 0 .. Word - 1] : Total(cpu) < Word}

(***************************************************************************)
(* The load of the processor is a share: never more than the whole, which  *)
(* is never empty, whichever way the counters went between two readings    *)
(* and although their subtraction is one of unsigned integers.             *)
(***************************************************************************)
PercentageIsAShare ==
    \A current, last \in Readings : \A share \in percentage(current, last) :
        share.whole \in 1 .. Word - 1 /\ share.part \in 0 .. share.whole
=============================================================================
