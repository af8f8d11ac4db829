--------------------------- MODULE SamplingProofs ---------------------------
(***************************************************************************)
(* Proofs about Sampling: for every host, every number of services and     *)
(* containers and every interleaving of what they do with the collectors,  *)
(* no rate is above what was used, and the agent's validation refuses only *)
(* the heartbeat of a host the README names.                               *)
(***************************************************************************)
EXTENDS Sampling, TLAPS

(***************************************************************************)
(* The load of the processor (percentage) is a part of a whole that is not *)
(* empty, for every two readings whose sums the counters can hold.         *)
(***************************************************************************)
THEOREM PercentageShares == PercentageIsAShare
<1> SUFFICES ASSUME NEW current \in Readings, NEW last \in Readings,
                    NEW share \in percentage(current, last)
             PROVE  share.whole \in 1 .. Word - 1 /\ share.part \in 0 .. share.whole
  BY DEF PercentageIsAShare
<1>1. /\ Word \in Nat \ {0}
      /\ {current.busy, current.idle, last.busy, last.idle} \subseteq Nat
      /\ current.busy + current.idle < Word
  BY MetersAssumption DEF Readings, Total
<1>2. validDelta(current, last)
  BY DEF percentage
<1> DEFINE whole == Minus(Total(current), Total(last))
<1>3. whole = (current.busy + current.idle) - (last.busy + last.idle)
  BY <1>1, <1>2 DEF validDelta, Total, Minus
<1>4. Minus(whole, Minus(current.idle, last.idle)) = current.busy - last.busy
  BY <1>1, <1>2, <1>3 DEF validDelta, Total, Minus
<1>5. /\ share.whole = (current.busy + current.idle) - (last.busy + last.idle)
      /\ share.part = current.busy - last.busy
  BY <1>2, <1>3, <1>4 DEF percentage
<1> QED
  BY <1>1, <1>2, <1>5 DEF validDelta, Total
-----------------------------------------------------------------------------
(* What was used by an earlier instant was not more than what is by now.   *)
UseGrows == \A m \in Meters : usedBefore[m] <= used[m] /\ base[m] <= used[m]

(* A unit that is not shown does not run and has no counter.               *)
UnshownIsIdle == \A s \in Services \ shown : s \notin running /\ counter[s] = 0

(* Since the value that is kept, a counter grew by what was used since the *)
(* collection that left it began, or fell as it started again.             *)
ServicesKept ==
    \A s \in DOMAIN previousCPU : counter[s] - previousCPU[s] <= used[s] - base[s]

ContainersKept ==
    \A c \in DOMAIN previous : counter[c] - previous[c].value <= used[c] - base[c]

(* While the command runs: what it has passed by counted nothing before.   *)
OutputKept ==
    /\ phase # "services" => DOMAIN output = {}
    /\ phase = "services" =>
          \A s \in Services \ asking :
             IF s \in DOMAIN output
             THEN counter[s] - output[s] <= used[s] - usedBefore[s]
             ELSE counter[s] <= used[s] - usedBefore[s]
    /\ \A s \in DOMAIN output \cap DOMAIN previousCPU :
          output[s] - previousCPU[s] <= used[s] - base[s]

RatesKept ==
    \A rate \in report :
       /\ rate.elapsed \in Nat \ {0}
       /\ rate.amount \in Nat /\ rate.covered \in Nat /\ rate.amount <= rate.covered

Kept ==
    /\ UseGrows /\ UnshownIsIdle /\ ServicesKept /\ ContainersKept
    /\ OutputKept /\ RatesKept

(* Only FreeBSD's collector has a family longer than what is validated.    *)
CrowdedKept ==
    \A f \in crowded \cup crowdedFile : platform = "freebsd" /\ f = "filesystems"

IInv == TypeOK /\ Kept /\ CrowdedKept /\ CollectedIsValid

LEMMA MetersAreTwo == Services \subseteq Meters /\ Containers \subseteq Meters
  BY DEF Meters

LEMMA NoneIsZero == None \in [Meters -> Nat] /\ \A m \in Meters : None[m] = 0
  BY DEF None

LEMMA InitIsKept == Init => IInv
<1> SUFFICES ASSUME Init PROVE IInv
  OBVIOUS
<1> USE MetersAreTwo, NoneIsZero
<1>1. DOMAIN <<>> = {}
  OBVIOUS
<1>2. TypeOK
  <2>1. /\ clock \in 0 .. MaxClock /\ {previousAt, now} \subseteq 0 .. MaxClock
        /\ queue \in 0 .. MaxQueue
    BY MetersAssumption, SamplingAssumption DEF Init
  <2>2. /\ {counter, used, usedBefore, base} \subseteq [Meters -> Nat]
        /\ DOMAIN previousCPU = {} /\ DOMAIN output = {} /\ DOMAIN previous = {}
    BY <1>1 DEF Init
  <2> QED
    BY <2>1, <2>2 DEF Init, TypeOK
<1>3. UseGrows /\ UnshownIsIdle
  BY DEF Init, UseGrows, UnshownIsIdle
<1>4. ServicesKept /\ ContainersKept /\ OutputKept /\ RatesKept
  BY <1>1 DEF Init, ServicesKept, ContainersKept, OutputKept, RatesKept
<1>5. CrowdedKept /\ CollectedIsValid
  BY DEF Init, CrowdedKept, CollectedIsValid
<1> QED
  BY <1>2, <1>3, <1>4, <1>5 DEF IInv, Kept

(* The host changes: only what it counts and what has been used.           *)
LEMMA HostKeepsType ==
    ASSUME TypeOK, Host, UNCHANGED agent PROVE TypeOK'
<1> USE MetersAreTwo DEF agent, systemd, runtime, present, telemetry
<1>1. CASE Tick
  BY <1>1, MetersAssumption DEF Tick, Host, TypeOK
<1>2. ASSUME NEW m \in Meters, Use(m) PROVE TypeOK'
  <2>1. counter' \in [Meters -> Nat] /\ used' \in [Meters -> Nat]
    BY <1>2 DEF Use, TypeOK
  <2> QED
    BY <1>2, <2>1 DEF Use, Host, TypeOK
<1>3. ASSUME NEW m \in Meters, Run(m) PROVE TypeOK'
  <2>1. counter' \in [Meters -> Nat]
    BY <1>3 DEF Run, TypeOK
  <2> QED
    BY <1>3, <2>1 DEF Run, Host, TypeOK
<1>4. ASSUME NEW m \in Meters, Stop(m) PROVE TypeOK'
  BY <1>4 DEF Stop, Host, TypeOK
<1>5. ASSUME NEW m \in Meters, Unload(m) PROVE TypeOK'
  <2>1. counter' \in [Meters -> Nat]
    BY <1>5 DEF Unload, TypeOK
  <2> QED
    BY <1>5, <2>1 DEF Unload, Host, TypeOK
<1> QED
  BY <1>1, <1>2, <1>3, <1>4, <1>5 DEF Host

(* Use adds the same to the counter and to what has been used; a start     *)
(* only lowers the counter.                                                *)
LEMMA HostKeeps ==
    ASSUME IInv, Host, UNCHANGED agent PROVE IInv'
<1> USE MetersAreTwo
<1>1. TypeOK'
  BY HostKeepsType DEF IInv
<1>2. /\ UNCHANGED <<previousCPU, previousAt, output, now, currentIDs, previous>>
      /\ UNCHANGED <<asking, usedBefore, report, base, platform, phase, outcome, oversized, queue, crowded, crowdedFile>>
  BY DEF Host, systemd, runtime, present, agent, telemetry
<1>3. /\ {counter, used, usedBefore, base} \subseteq [Meters -> Nat]
      /\ DOMAIN previousCPU \subseteq Services /\ DOMAIN previous \subseteq Containers
      /\ DOMAIN output \subseteq Services
      /\ \A s \in DOMAIN previousCPU : previousCPU[s] \in Nat
      /\ \A s \in DOMAIN output : output[s] \in Nat
      /\ \A c \in DOMAIN previous : previous[c].value \in Nat
  BY DEF IInv, TypeOK
<1>4. CrowdedKept' /\ CollectedIsValid' /\ RatesKept'
  BY <1>2 DEF IInv, Kept, CrowdedKept, CollectedIsValid, RatesKept
<1>5. UseGrows /\ UnshownIsIdle /\ ServicesKept /\ ContainersKept /\ OutputKept
  BY DEF IInv, Kept
<1>6. CASE UNCHANGED <<counter, used>> /\ (Tick \/ \E m \in Meters : Stop(m))
  <2>1. UseGrows' /\ ServicesKept' /\ ContainersKept' /\ OutputKept'
    BY <1>2, <1>5, <1>6 DEF UseGrows, ServicesKept, ContainersKept, OutputKept
  <2>2. UnshownIsIdle'
    BY <1>5, <1>6 DEF UnshownIsIdle, Tick, Stop
  <2> QED
    BY <1>1, <1>4, <2>1, <2>2 DEF IInv, Kept
<1>7. ASSUME NEW m \in Meters, Use(m) PROVE IInv'
  <2>1. /\ counter' = [counter EXCEPT ![m] = counter[m] + 1]
        /\ used' = [used EXCEPT ![m] = used[m] + 1]
        /\ UNCHANGED shown /\ UNCHANGED running /\ m \in running
    BY <1>7 DEF Use
  <2>2. \A x \in Meters : \/ x = m /\ counter'[x] = counter[x] + 1 /\ used'[x] = used[x] + 1
                          \/ counter'[x] = counter[x] /\ used'[x] = used[x]
    BY <1>3, <2>1
  <2>3. \A x \in Meters : /\ counter'[x] \in Nat /\ counter[x] \in Nat
                          /\ used'[x] \in Nat /\ used[x] \in Nat
                          /\ usedBefore[x] \in Nat /\ base[x] \in Nat
    BY <1>3, <2>2
  <2>4. \A x \in Meters : used[x] <= used'[x] /\ counter'[x] - used'[x] = counter[x] - used[x]
    BY <2>2, <2>3
  <2>5. UseGrows'
    BY <1>2, <1>5, <2>3, <2>4 DEF UseGrows
  <2>6. UnshownIsIdle'
    BY <1>5, <2>1, <2>2 DEF UnshownIsIdle
  <2>7. ServicesKept'
    BY <1>2, <1>3, <1>5, <2>3, <2>4 DEF ServicesKept
  <2>8. ContainersKept'
    BY <1>2, <1>3, <1>5, <2>3, <2>4 DEF ContainersKept
  <2>9. OutputKept'
    <3>1. ASSUME phase = "services", NEW s \in Services \ asking
          PROVE  IF s \in DOMAIN output
                 THEN counter'[s] - output[s] <= used'[s] - usedBefore[s]
                 ELSE counter'[s] <= used'[s] - usedBefore[s]
      BY <1>3, <1>5, <2>3, <2>4, <3>1 DEF OutputKept
    <3>2. ASSUME NEW s \in DOMAIN output \cap DOMAIN previousCPU
          PROVE  output[s] - previousCPU[s] <= used'[s] - base[s]
      BY <1>3, <1>5, <2>3, <2>4 DEF OutputKept
    <3> QED
      BY <1>2, <1>5, <3>1, <3>2 DEF OutputKept
  <2> QED
    BY <1>1, <1>4, <2>5, <2>6, <2>7, <2>8, <2>9 DEF IInv, Kept
<1>8. ASSUME NEW m \in Meters, Run(m) \/ Unload(m) PROVE IInv'
  <2>1. counter' = [counter EXCEPT ![m] = 0] /\ UNCHANGED used
    BY <1>8 DEF Run, Unload
  <2>2. \A x \in Meters : /\ counter'[x] \in Nat /\ counter[x] \in Nat /\ counter'[x] <= counter[x]
                          /\ used[x] \in Nat /\ usedBefore[x] \in Nat /\ base[x] \in Nat
    BY <1>3, <2>1
  <2>3. UseGrows'
    BY <1>2, <1>5, <2>1 DEF UseGrows
  <2>4. UnshownIsIdle'
    BY <1>3, <1>5, <1>8 DEF UnshownIsIdle, Run, Unload
  <2>5. ServicesKept'
    BY <1>2, <1>3, <1>5, <2>1, <2>2 DEF ServicesKept
  <2>6. ContainersKept'
    BY <1>2, <1>3, <1>5, <2>1, <2>2 DEF ContainersKept
  <2>7. OutputKept'
    <3>1. ASSUME phase = "services", NEW s \in Services \ asking
          PROVE  IF s \in DOMAIN output
                 THEN counter'[s] - output[s] <= used[s] - usedBefore[s]
                 ELSE counter'[s] <= used[s] - usedBefore[s]
      BY <1>3, <1>5, <2>2, <3>1 DEF OutputKept
    <3> QED
      BY <1>2, <1>5, <2>1, <3>1 DEF OutputKept
  <2> QED
    BY <1>1, <1>4, <2>3, <2>4, <2>5, <2>6, <2>7 DEF IInv, Kept
<1> QED
  BY <1>6, <1>7, <1>8 DEF Host, Tick, Stop

-----------------------------------------------------------------------------
(* The command that shows the services.                                    *)
LEMMA BeginRoundKeeps ==
    ASSUME IInv, BeginRound PROVE IInv'
<1> USE MetersAreTwo DEF host, systemd, runtime, present, telemetry
<1>1. CASE UNCHANGED <<systemd, runtime, present, report, base>> /\ phase' # "services" /\ phase' \in {"containers", "build"}
  <2>1. TypeOK'
    BY <1>1 DEF BeginRound, IInv, TypeOK
  <2>2. UseGrows' /\ UnshownIsIdle' /\ ServicesKept' /\ ContainersKept'
    BY <1>1 DEF BeginRound, IInv, Kept, UseGrows, UnshownIsIdle, ServicesKept, ContainersKept
  <2>3. OutputKept' /\ RatesKept' /\ CrowdedKept' /\ CollectedIsValid'
    BY <1>1 DEF BeginRound, IInv, Kept, OutputKept, RatesKept, CrowdedKept, CollectedIsValid
  <2> QED
    BY <2>1, <2>2, <2>3 DEF IInv, Kept
<1>2. CASE ListUnits /\ phase' = "services"
  <2>1. /\ UNCHANGED <<host, previousCPU, previousAt, output, now, currentIDs, previous, report, base>>
        /\ UNCHANGED <<platform, outcome, oversized, queue, crowded, crowdedFile>>
        /\ asking' = shown /\ usedBefore' = used /\ phase = "idle" /\ phase' = "services"
    BY <1>2 DEF BeginRound, ListUnits
  <2>2. TypeOK'
    BY <2>1 DEF IInv, TypeOK
  <2>3. UseGrows' /\ UnshownIsIdle' /\ ServicesKept' /\ ContainersKept'
    <3>1. \A m \in Meters : used[m] <= used[m]
      BY DEF IInv, TypeOK
    <3> QED
      BY <2>1, <3>1 DEF IInv, Kept, UseGrows, UnshownIsIdle, ServicesKept, ContainersKept
  <2>4. OutputKept'
    <3>1. DOMAIN output = {}
      BY <2>1 DEF IInv, Kept, OutputKept
    <3>2. \A s \in Services \ shown : counter[s] <= used[s] - used[s]
      BY DEF IInv, TypeOK, Kept, UnshownIsIdle
    <3> QED
      BY <2>1, <3>1, <3>2 DEF OutputKept
  <2>5. RatesKept' /\ CrowdedKept' /\ CollectedIsValid'
    BY <2>1 DEF IInv, Kept, RatesKept, CrowdedKept, CollectedIsValid
  <2> QED
    BY <2>2, <2>3, <2>4, <2>5 DEF IInv, Kept
<1> QED
  BY <1>1, <1>2 DEF BeginRound

LEMMA ShowServiceKeeps ==
    ASSUME IInv, ShowService PROVE IInv'
<1> USE MetersAreTwo
<1>1. PICK s \in Services : Show(s)
  BY DEF ShowService
<1>2. /\ UNCHANGED <<clock, running, shown, counter, used, previousCPU, previousAt, now, currentIDs>>
      /\ UNCHANGED <<previous, usedBefore, report, base, platform, phase, outcome, oversized, queue, crowded, crowdedFile>>
      /\ phase = "services" /\ s \in asking /\ asking' = asking \ {s}
      /\ output' = IF s \in shown THEN Updated(output, [x \in {s} |-> counter[s]]) ELSE output
  BY <1>1 DEF ShowService, Show, host, agent, runtime, telemetry
<1>3. /\ \A m \in Meters : counter[m] \in Nat /\ used[m] \in Nat /\ usedBefore[m] \in Nat /\ base[m] \in Nat
      /\ DOMAIN output \subseteq Services /\ DOMAIN previousCPU \subseteq Services
      /\ \A x \in DOMAIN output : output[x] \in Nat
      /\ \A x \in DOMAIN previousCPU : previousCPU[x] \in Nat
  BY DEF IInv, TypeOK
<1>4. CASE s \in shown
  <2>1. /\ DOMAIN output' = DOMAIN output \cup {s}
        /\ output'[s] = counter[s]
        /\ \A x \in DOMAIN output : x # s => output'[x] = output[x]
    BY <1>2, <1>4 DEF Updated
  <2>2. /\ DOMAIN output' \subseteq Services
        /\ \A x \in DOMAIN output' : output'[x] \in Nat
    BY <1>3, <2>1
  <2>3. TypeOK'
    BY <1>2, <2>2 DEF IInv, TypeOK
  <2>4. OutputKept'
    <3>1. ASSUME NEW x \in Services \ asking'
          PROVE  IF x \in DOMAIN output'
                 THEN counter[x] - output'[x] <= used[x] - usedBefore[x]
                 ELSE counter[x] <= used[x] - usedBefore[x]
      <4>1. CASE x = s
        BY <1>3, <2>1, <4>1 DEF IInv, Kept, UseGrows
      <4>2. CASE x # s
        BY <1>2, <1>3, <2>1, <4>2 DEF IInv, Kept, OutputKept
      <4> QED
        BY <4>1, <4>2
    <3>2. ASSUME NEW x \in DOMAIN output' \cap DOMAIN previousCPU
          PROVE  output'[x] - previousCPU[x] <= used[x] - base[x]
      <4>1. CASE x = s
        BY <2>1, <4>1 DEF IInv, Kept, ServicesKept
      <4>2. CASE x # s
        BY <2>1, <4>2 DEF IInv, Kept, OutputKept
      <4> QED
        BY <4>1, <4>2
    <3> QED
      BY <1>2, <3>1, <3>2 DEF OutputKept
  <2> QED
    BY <1>2, <2>3, <2>4 DEF IInv, Kept, UseGrows, UnshownIsIdle, ServicesKept, ContainersKept, RatesKept, CrowdedKept, CollectedIsValid
<1>5. CASE s \notin shown
  <2>1. UNCHANGED output
    BY <1>2, <1>5
  <2>2. TypeOK'
    BY <1>2, <2>1 DEF IInv, TypeOK
  <2>3. OutputKept'
    <3>1. ASSUME NEW x \in Services \ asking'
          PROVE  IF x \in DOMAIN output
                 THEN counter[x] - output[x] <= used[x] - usedBefore[x]
                 ELSE counter[x] <= used[x] - usedBefore[x]
      <4>1. CASE x = s
        BY <1>3, <1>5, <4>1 DEF IInv, Kept, UseGrows, UnshownIsIdle
      <4>2. CASE x # s
        BY <1>2, <4>2 DEF IInv, Kept, OutputKept
      <4> QED
        BY <4>1, <4>2
    <3> QED
      BY <1>2, <2>1, <3>1 DEF IInv, Kept, OutputKept
  <2> QED
    BY <1>2, <2>1, <2>2, <2>3 DEF IInv, Kept, UseGrows, UnshownIsIdle, ServicesKept, ContainersKept, RatesKept, CrowdedKept, CollectedIsValid
<1> QED
  BY <1>4, <1>5

LEMMA ServicesFailKeeps ==
    ASSUME IInv, EndServices, ServicesFail PROVE IInv'
<1> USE MetersAreTwo, NoneIsZero
<1>1. /\ UNCHANGED <<clock, running, shown, counter, used, previousCPU, previousAt, now, currentIDs>>
      /\ UNCHANGED <<previous, report, base, platform, outcome, oversized, queue, crowded, crowdedFile>>
      /\ phase = "services" /\ phase' = "containers" /\ asking' = {} /\ output' = <<>> /\ usedBefore' = None
  BY DEF EndServices, ServicesFail, EndCommand, host, runtime, telemetry
<1>2. DOMAIN output' = {}
  BY <1>1
<1>3. TypeOK'
  BY <1>1, <1>2 DEF IInv, TypeOK
<1>4. UseGrows'
  BY <1>1 DEF IInv, TypeOK, Kept, UseGrows
<1>5. OutputKept'
  BY <1>1, <1>2 DEF OutputKept
<1> QED
  BY <1>1, <1>3, <1>4, <1>5 DEF IInv, Kept, UnshownIsIdle, ServicesKept, ContainersKept, RatesKept, CrowdedKept, CollectedIsValid

(* The values that were shown become the ones that are kept; a unit that   *)
(* was passed by keeps its old value although its instant moves on.        *)
LEMMA ServicesReadKeeps ==
    ASSUME IInv, EndServices, ServicesRead PROVE IInv'
<1> USE MetersAreTwo, NoneIsZero
<1>1. /\ UNCHANGED <<clock, running, shown, counter, used, now, currentIDs>>
      /\ UNCHANGED <<previous, platform, outcome, oversized, queue, crowded, crowdedFile>>
      /\ phase = "services" /\ phase' = "containers" /\ asking = {}
      /\ asking' = {} /\ output' = <<>> /\ usedBefore' = None
      /\ previousCPU' = Updated(previousCPU, output) /\ previousAt' = clock
      /\ base' = UsedBeforeServices
  BY DEF EndServices, ServicesRead, EndCommand, host, runtime, telemetry
<1>2. /\ \A m \in Meters : counter[m] \in Nat /\ used[m] \in Nat /\ usedBefore[m] \in Nat /\ base[m] \in Nat
      /\ DOMAIN output \subseteq Services /\ DOMAIN previousCPU \subseteq Services
      /\ DOMAIN previous \subseteq Containers
      /\ \A x \in DOMAIN output : output[x] \in Nat
      /\ \A x \in DOMAIN previousCPU : previousCPU[x] \in Nat
      /\ clock \in Nat /\ previousAt \in Nat
  BY MetersAssumption DEF IInv, TypeOK
<1>3. /\ DOMAIN output' = {}
      /\ DOMAIN previousCPU' = DOMAIN output \cup DOMAIN previousCPU
      /\ \A x \in DOMAIN output : previousCPU'[x] = output[x]
      /\ \A x \in DOMAIN previousCPU \ DOMAIN output : previousCPU'[x] = previousCPU[x]
  BY <1>1 DEF Updated
<1>4. /\ base' \in [Meters -> Nat]
      /\ \A s \in Services : base'[s] = usedBefore[s]
      /\ \A c \in Containers : base'[c] = base[c]
  BY <1>1, <1>2, MetersAssumption DEF UsedBeforeServices
<1>5. TypeOK'
  <2>1. \A x \in DOMAIN previousCPU' : x \in Services /\ previousCPU'[x] \in Nat
    BY <1>2, <1>3
  <2> QED
    BY <1>1, <1>3, <1>4, <2>1 DEF IInv, TypeOK
<1>6. UseGrows'
  BY <1>1, <1>2, <1>4 DEF IInv, Kept, UseGrows, Meters
<1>7. ServicesKept'
  <2>1. ASSUME NEW s \in DOMAIN previousCPU' PROVE counter[s] - previousCPU'[s] <= used[s] - usedBefore[s]
    <3>1. CASE s \in DOMAIN output
      BY <1>1, <1>2, <1>3, <3>1 DEF IInv, Kept, OutputKept
    <3>2. CASE s \notin DOMAIN output
      <4>1. s \in DOMAIN previousCPU /\ s \in Services
        BY <1>2, <1>3, <3>2
      <4>2. counter[s] <= used[s] - usedBefore[s] /\ previousCPU'[s] \in Nat
        BY <1>1, <1>2, <1>3, <3>2, <4>1 DEF IInv, Kept, OutputKept
      <4> QED
        BY <1>2, <4>1, <4>2
    <3> QED
      BY <3>1, <3>2
  <2> QED
    BY <1>1, <1>2, <1>3, <1>4, <2>1 DEF ServicesKept
<1>8. ContainersKept'
  BY <1>1, <1>2, <1>4 DEF IInv, Kept, ContainersKept
<1>9. RatesKept'
  <2> SUFFICES ASSUME NEW rate \in report'
               PROVE  /\ rate.elapsed \in Nat \ {0}
                      /\ rate.amount \in Nat /\ rate.covered \in Nat /\ rate.amount <= rate.covered
    BY DEF RatesKept
  <2>1. PICK s \in DOMAIN output \cap DOMAIN previousCPU :
           /\ output[s] >= previousCPU[s] /\ clock > previousAt
           /\ rate = RateOf(s, output[s], previousCPU[s], clock - previousAt)
    BY DEF ServicesRead
  <2>2. /\ rate.amount = output[s] - previousCPU[s] /\ rate.covered = used[s] - base[s]
        /\ rate.elapsed = clock - previousAt
    BY <2>1 DEF RateOf
  <2>3. output[s] - previousCPU[s] <= used[s] - base[s] /\ base[s] <= used[s]
    BY <1>2, <2>1 DEF IInv, Kept, OutputKept, UseGrows
  <2> QED
    BY <1>2, <2>1, <2>2, <2>3
<1>10. OutputKept'
  BY <1>1, <1>3 DEF OutputKept
<1> QED
  BY <1>1, <1>5, <1>6, <1>7, <1>8, <1>9, <1>10 DEF IInv, Kept, UnshownIsIdle, CrowdedKept, CollectedIsValid

-----------------------------------------------------------------------------
(* The containers.                                                         *)
LEMMA CollectContainersKeeps ==
    ASSUME IInv, CollectContainers PROVE IInv'
<1> USE MetersAreTwo
<1>1. /\ UNCHANGED <<clock, running, shown, counter, used, previousCPU, previousAt, output>>
      /\ UNCHANGED <<previous, report, base, platform, outcome, oversized, queue, crowded, crowdedFile>>
      /\ phase = "containers" /\ phase' \in {"asking", "build"}
  BY DEF CollectContainers, ListContainers, host, systemd, runtime, present, telemetry
<1>2. \/ /\ currentIDs' = Containers \cap running /\ asking' = currentIDs'
         /\ now' = clock /\ usedBefore' = used /\ phase' = "asking"
      \/ UNCHANGED <<now, currentIDs, asking, usedBefore>> /\ phase' = "build"
  BY DEF CollectContainers, ListContainers, runtime, present
<1>3. TypeOK'
  BY <1>1, <1>2 DEF IInv, TypeOK
<1>4. UseGrows'
  <2>1. \A m \in Meters : used[m] <= used[m]
    BY DEF IInv, TypeOK
  <2> QED
    BY <1>1, <1>2, <2>1 DEF IInv, Kept, UseGrows
<1> QED
  BY <1>1, <1>3, <1>4 DEF IInv, Kept, UnshownIsIdle, ServicesKept, ContainersKept, OutputKept, RatesKept, CrowdedKept, CollectedIsValid

LEMMA AskContainerKeeps ==
    ASSUME IInv, AskContainer PROVE IInv'
<1> USE MetersAreTwo
<1>1. PICK c \in Containers : Ask(c)
  BY DEF AskContainer
<1>2. /\ UNCHANGED <<clock, running, shown, counter, used, previousCPU, previousAt, output, now, currentIDs>>
      /\ UNCHANGED <<usedBefore, platform, phase, outcome, oversized, queue, crowded, crowdedFile>>
      /\ phase = "asking" /\ asking' = asking \ {c}
  BY <1>1 DEF AskContainer, Ask, host, agent, systemd, telemetry
<1>3. CASE UNCHANGED <<previous, report, base>>
  <2>1. TypeOK'
    BY <1>2, <1>3 DEF IInv, TypeOK
  <2> QED
    BY <1>2, <1>3, <2>1 DEF IInv, Kept, UseGrows, UnshownIsIdle, ServicesKept, ContainersKept, OutputKept, RatesKept, CrowdedKept, CollectedIsValid
<1>4. CASE ApplyStats(c)
  <2>1. /\ {counter, used, usedBefore, base} \subseteq [Meters -> Nat]
        /\ DOMAIN previousCPU \subseteq Services /\ DOMAIN output \subseteq Services
        /\ DOMAIN previous \subseteq Containers
        /\ \A x \in DOMAIN previous : previous[x] \in [value : Nat, at : 0 .. MaxClock]
        /\ now \in 0 .. MaxClock /\ MaxClock \in Nat
        /\ c \in Meters /\ c \notin Services
    BY MetersAssumption DEF IInv, TypeOK
  <2>2. /\ previous' = Updated(previous, [x \in {c} |-> [value |-> counter[c], at |-> now]])
        /\ base' = [base EXCEPT ![c] = usedBefore[c]]
    BY <1>4 DEF ApplyStats
  <2>3. /\ DOMAIN previous' = DOMAIN previous \cup {c}
        /\ previous'[c] = [value |-> counter[c], at |-> now]
        /\ \A x \in DOMAIN previous \ {c} : previous'[x] = previous[x]
    BY <2>2 DEF Updated
  <2>4. /\ base' \in [Meters -> Nat] /\ base'[c] = usedBefore[c]
        /\ \A m \in Meters \ {c} : base'[m] = base[m]
    BY <2>1, <2>2
  <2>5. TypeOK'
    <3>1. \A x \in DOMAIN previous' : x \in Containers /\ previous'[x] \in [value : Nat, at : 0 .. MaxClock]
      BY <2>1, <2>3
    <3> QED
      BY <1>2, <2>4, <3>1 DEF IInv, TypeOK
  <2>6. UseGrows'
    BY <1>2, <2>4 DEF IInv, Kept, UseGrows
  <2>7. ServicesKept'
    BY <1>2, <2>1, <2>4 DEF IInv, Kept, ServicesKept
  <2>8. ContainersKept'
    <3>1. ASSUME NEW x \in DOMAIN previous' PROVE counter[x] - previous'[x].value <= used[x] - base'[x]
      <4>1. CASE x = c
        <5>1. previous'[x].value = counter[c] /\ base'[x] = usedBefore[c]
          BY <2>3, <2>4, <4>1
        <5>2. /\ counter[c] \in Nat /\ used[c] \in Nat /\ usedBefore[c] \in Nat
              /\ usedBefore[c] <= used[c]
          BY <2>1 DEF IInv, Kept, UseGrows
        <5> QED
          BY <4>1, <5>1, <5>2
      <4>2. CASE x # c
        BY <2>1, <2>3, <2>4, <4>2 DEF IInv, Kept, ContainersKept
      <4> QED
        BY <4>1, <4>2
    <3> QED
      BY <1>2, <3>1 DEF ContainersKept
  <2>9. OutputKept'
    BY <1>2, <2>1, <2>4 DEF IInv, Kept, OutputKept
  <2>10. RatesKept'
    <3> SUFFICES ASSUME NEW rate \in report'
                 PROVE  /\ rate.elapsed \in Nat \ {0}
                        /\ rate.amount \in Nat /\ rate.covered \in Nat /\ rate.amount <= rate.covered
      BY DEF RatesKept
    <3>1. CASE rate \in report
      BY <3>1 DEF IInv, Kept, RatesKept
    <3>2. CASE rate \notin report
      <4>1. /\ c \in DOMAIN previous /\ counter[c] >= previous[c].value /\ now > previous[c].at
            /\ rate = RateOf(c, counter[c], previous[c].value, now - previous[c].at)
        BY <1>4, <3>2 DEF ApplyStats
      <4>2. /\ rate.amount = counter[c] - previous[c].value /\ rate.covered = used[c] - base[c]
            /\ rate.elapsed = now - previous[c].at
        BY <4>1 DEF RateOf
      <4>3. /\ counter[c] - previous[c].value <= used[c] - base[c] /\ base[c] <= used[c]
            /\ counter[c] \in Nat /\ used[c] \in Nat /\ base[c] \in Nat
            /\ previous[c].value \in Nat /\ previous[c].at \in Nat /\ now \in Nat
        BY <2>1, <4>1 DEF IInv, Kept, ContainersKept, UseGrows
      <4> QED
        BY <4>1, <4>2, <4>3
    <3> QED
      BY <3>1, <3>2
  <2> QED
    BY <1>2, <2>5, <2>6, <2>7, <2>8, <2>9, <2>10 DEF IInv, Kept, UnshownIsIdle, CrowdedKept, CollectedIsValid
<1> QED
  BY <1>1, <1>3, <1>4 DEF Ask

LEMMA EndContainersKeeps ==
    ASSUME IInv, EndContainers PROVE IInv'
<1> USE MetersAreTwo, NoneIsZero
<1>1. /\ UNCHANGED <<clock, running, shown, counter, used, previousCPU, previousAt, output, asking>>
      /\ UNCHANGED <<report, base, platform, outcome, oversized, queue, crowded, crowdedFile>>
      /\ phase = "asking" /\ phase' = "build" /\ asking = {} /\ currentIDs' = {} /\ now' = 0
      /\ usedBefore' = None
      /\ previous' = [c \in DOMAIN previous \cap currentIDs |-> previous[c]]
  BY DEF EndContainers, Prune, host, systemd, telemetry
<1>2. /\ DOMAIN previous' \subseteq DOMAIN previous
      /\ \A c \in DOMAIN previous' : previous'[c] = previous[c]
  BY <1>1
<1>3. TypeOK'
  BY <1>1, <1>2, MetersAssumption DEF IInv, TypeOK
<1>4. UseGrows'
  BY <1>1 DEF IInv, TypeOK, Kept, UseGrows
<1>5. ContainersKept'
  BY <1>1, <1>2 DEF IInv, Kept, ContainersKept
<1> QED
  BY <1>1, <1>3, <1>4, <1>5 DEF IInv, Kept, UnshownIsIdle, ServicesKept, OutputKept, RatesKept, CrowdedKept, CollectedIsValid

-----------------------------------------------------------------------------
(* What is collected of each family, on every host.                        *)
LEMMA CollectedIsBounded ==
    ASSUME platform \in {"linux", "freebsd"},
           NEW inventory \in Inventories, NEW services \in CachedServices,
           NEW all, all = Collected(inventory, services)
    PROVE  /\ all["batteries"] \in 0 .. 16 /\ all["containers"] \in 0 .. 128
           /\ all["gpus"] \in 0 .. 16 /\ all["sensors"] \in 0 .. 256
           /\ all["services"] \in 0 .. 512 /\ all["storage"] \in 0 .. 64
           /\ all["cores"] = inventory["cores"]
           /\ all["filesystems"] \in Nat /\ all["filesystems"] <= inventory["filesystems"]
           /\ platform = "linux" => all["filesystems"] <= 256 /\ all["ports"] = inventory["ports"]
           /\ platform = "freebsd" => all["filesystems"] = inventory["filesystems"] /\ all["ports"] = 0
<1>1. \A f \in Families : inventory[f] \in Nat
  BY SamplingAssumption
<1>2. services \in 0 .. 512
  <2>1. \A i \in Inventories : i.services \in Nat
    BY SamplingAssumption DEF Families
  <2> QED
    BY <2>1 DEF CachedServices
<1>3. Lesser(services, 512) = services
  BY <1>2 DEF Lesser
<1>4. all["services"] = services /\ all["cores"] = inventory["cores"]
  BY <1>3 DEF Collected, LinuxHeartbeat, FreeBSDHeartbeat, parseCPUCounters, parsePerCPU
<1>5. platform = "linux" =>
         /\ all["batteries"] = Lesser(inventory["batteries"], 16)
         /\ all["containers"] = Lesser(inventory["containers"], 128)
         /\ all["filesystems"] = Lesser(inventory["filesystems"], 256)
         /\ all["gpus"] = Lesser(inventory["gpus"], 16)
         /\ all["sensors"] = Lesser(inventory["sensors"], 256)
         /\ all["storage"] = Lesser(inventory["storage"], 64)
         /\ all["ports"] = inventory["ports"]
  BY DEF Collected, LinuxHeartbeat, collectBatteries, collectFilesystems, collectGPUs,
         collectSensors, collectStorageHealth, structuredPorts
<1>6. platform = "freebsd" =>
         /\ all["filesystems"] = inventory["filesystems"]
         /\ all["sensors"] = Lesser(inventory["sensors"], 136)
         /\ all["batteries"] = Lesser(inventory["batteries"], 1)
         /\ all["containers"] = 0 /\ all["gpus"] = 0 /\ all["ports"] = 0 /\ all["storage"] = 0
  BY DEF Collected, FreeBSDHeartbeat, collectBattery, mountedByDF, sensorSysctlKeys
<1>7. /\ inventory["batteries"] \in Nat /\ inventory["containers"] \in Nat
      /\ inventory["gpus"] \in Nat /\ inventory["sensors"] \in Nat /\ inventory["storage"] \in Nat
      /\ inventory["filesystems"] \in Nat /\ inventory["ports"] \in Nat
  BY <1>1 DEF Families
<1>8. CASE platform = "linux"
  BY <1>2, <1>4, <1>5, <1>7, <1>8 DEF Lesser
<1>9. CASE platform = "freebsd"
  BY <1>2, <1>4, <1>6, <1>7, <1>9 DEF Lesser
<1> QED
  BY <1>8, <1>9

(* Only of what FreeBSD shows of its filesystems can there be more than a  *)
(* compact heartbeat carries.                                              *)
LEMMA CrowdedIsKept ==
    ASSUME IInv, NEW inventory \in Inventories, NEW services \in CachedServices,
           NEW compact \in BOOLEAN,
           NEW f \in Crowded(Collected(inventory, services), compact)
    PROVE  f \in Deltas /\ platform = "freebsd" /\ f = "filesystems"
<1>1. platform \in {"linux", "freebsd"}
  BY DEF IInv, TypeOK
<1>2. CASE ~compact
  BY <1>2 DEF Crowded, IInv, TypeOK, CrowdedKept
<1>3. CASE compact
  <2> DEFINE all == Collected(inventory, services)
  <2>1. f \in Deltas /\ all[f] > 512
    BY <1>3 DEF Crowded
  <2>2. /\ all["containers"] \in 0 .. 128 /\ all["gpus"] \in 0 .. 16 /\ all["sensors"] \in 0 .. 256
        /\ all["services"] \in 0 .. 512 /\ all["storage"] \in 0 .. 64
        /\ all["filesystems"] \in Nat
        /\ platform = "linux" => all["filesystems"] <= 256
    BY <1>1, CollectedIsBounded
  <2> HIDE DEF all
  <2> QED
    BY <1>1, <2>1, <2>2 DEF Deltas, Families
<1> QED
  BY <1>2, <1>3

(* The heartbeat of a host that is not Oversized is valid: each limit of   *)
(* the protocol is at least what the collectors cut that family to, or is  *)
(* named in Oversized.                                                     *)
LEMMA FittingIsValid ==
    ASSUME IInv, NEW inventory \in Inventories, NEW services \in CachedServices,
           NEW compact \in BOOLEAN, ~Oversized(inventory, compact),
           NEW sizes \in Carried(Collected(inventory, services), compact),
           NEW removed \in Removed(compact)
    PROVE  ValidateHeartbeat(sizes, removed, compact)
<1> DEFINE all == Collected(inventory, services)
<1>1. \A f \in Families : inventory[f] \in Nat
  BY SamplingAssumption
<1>2. platform \in {"linux", "freebsd"}
  BY DEF IInv, TypeOK
<1>3. /\ all["batteries"] \in 0 .. 16 /\ all["containers"] \in 0 .. 128
      /\ all["gpus"] \in 0 .. 16 /\ all["sensors"] \in 0 .. 256
      /\ all["services"] \in 0 .. 512 /\ all["storage"] \in 0 .. 64
      /\ all["cores"] = inventory["cores"]
      /\ all["filesystems"] \in Nat /\ all["filesystems"] <= inventory["filesystems"]
      /\ platform = "linux" => all["filesystems"] <= 256 /\ all["ports"] = inventory["ports"]
      /\ platform = "freebsd" => all["ports"] = 0
  BY <1>2, CollectedIsBounded
<1> HIDE DEF all
<1>4. \A rate \in report : rate.elapsed > 0
  BY DEF IInv, Kept, RatesKept
<1>5. CASE ~compact
  <2>1. sizes = all
    BY <1>5 DEF Carried, all
  <2>2. /\ inventory["filesystems"] <= 64 /\ inventory["cores"] <= 1024
        /\ platform = "linux" => inventory["ports"] <= 128
    BY <1>1, <1>5 DEF Oversized, Families
  <2>3. /\ inventory["filesystems"] \in Nat /\ inventory["cores"] \in Nat
        /\ inventory["ports"] \in Nat
    BY <1>1 DEF Families
  <2>4. all["filesystems"] <= 64 /\ all["ports"] <= 128 /\ all["cores"] <= 1024
    BY <1>2, <1>3, <2>2, <2>3
  <2>5. \A f \in Families : all[f] <= Limit[f]
    BY <1>3, <2>4 DEF Families, Limit
  <2> QED
    BY <1>4, <1>5, <2>1, <2>5 DEF ValidateHeartbeat
<1>6. CASE compact
  <2>1. platform = "freebsd" => inventory["filesystems"] <= 512 /\ "filesystems" \notin crowded
    BY <1>1, <1>6 DEF Oversized, Families
  <2>2. all["filesystems"] <= 512
    <3>1. inventory["filesystems"] \in Nat
      BY <1>1 DEF Families
    <3> QED
      BY <1>2, <1>3, <2>1, <3>1
  <2>3. removed = {}
    <3>1. crowded = {}
      BY <2>1 DEF IInv, CrowdedKept
    <3> QED
      BY <1>6, <3>1 DEF Removed
  <2>4. \A f \in Deltas : all[f] <= 512
    BY <1>3, <2>2 DEF Deltas, Families
  <2>5. CASE sizes = all
    BY <1>4, <1>6, <2>3, <2>4, <2>5 DEF ValidateHeartbeat
  <2>6. CASE sizes = [f \in Families |-> 0]
    <3>1. \A f \in Deltas : sizes[f] <= 512
      BY <2>6 DEF Deltas
    <3> QED
      BY <1>4, <1>6, <2>3, <3>1 DEF ValidateHeartbeat
  <2> QED
    BY <1>6, <2>5, <2>6 DEF Carried, all
<1> QED
  BY <1>5, <1>6

LEMMA BuildKeeps ==
    ASSUME IInv, Build PROVE IInv'
<1>1. /\ UNCHANGED <<clock, running, shown, counter, used, previousCPU, previousAt, output>>
      /\ UNCHANGED <<now, currentIDs, previous, asking, usedBefore, base, platform>>
      /\ phase = "build" /\ phase' = "built" /\ report' = {}
  BY DEF Build, host, systemd, runtime, present
<1>2. Lesser(queue + 1, MaxQueue) \in 0 .. MaxQueue
  BY SamplingAssumption DEF IInv, TypeOK, Lesser
<1>3. PICK inventory \in Inventories, services \in CachedServices, compact \in BOOLEAN :
         LET all == Collected(inventory, services) IN
         \E sizes \in Carried(all, compact), removed \in Removed(compact) :
            /\ oversized' = Oversized(inventory, compact)
            /\ crowded' = Crowded(all, compact)
            /\ IF ValidateHeartbeat(sizes, removed, compact) /\ ~inventory.large
               THEN Added(compact) \/ AddFails(compact)
               ELSE outcome' = "refused" /\ UNCHANGED <<queue, crowdedFile>>
  BY DEF Build
<1>4. PICK sizes \in Carried(Collected(inventory, services), compact), removed \in Removed(compact) :
         /\ oversized' = Oversized(inventory, compact)
         /\ crowded' = Crowded(Collected(inventory, services), compact)
         /\ IF ValidateHeartbeat(sizes, removed, compact) /\ ~inventory.large
            THEN Added(compact) \/ AddFails(compact)
            ELSE outcome' = "refused" /\ UNCHANGED <<queue, crowdedFile>>
  BY <1>3
<1>5. oversized' \in BOOLEAN
  BY <1>4, SamplingAssumption DEF Oversized
<1>6. outcome' \in {"queued", "refused", "failed"} /\ queue' \in 0 .. MaxQueue
  BY <1>2, <1>4 DEF Added, AddFails, IInv, TypeOK
<1>7. CollectedIsValid'
  <2>1. ~oversized' => ValidateHeartbeat(sizes, removed, compact)
    BY <1>4, FittingIsValid
  <2>2. ~oversized' => ~inventory.large
    BY <1>4 DEF Oversized
  <2>3. ~oversized' => outcome' # "refused"
    BY <1>4, <2>1, <2>2 DEF Added, AddFails
  <2> QED
    BY <1>5, <2>3 DEF CollectedIsValid
<1>8. \A f \in crowded' : f \in Deltas /\ platform = "freebsd" /\ f = "filesystems"
  BY <1>4, CrowdedIsKept
<1>9. crowdedFile' \in {crowdedFile, crowded'}
  BY <1>4 DEF Added, AddFails
<1>10. CrowdedKept' /\ crowded' \subseteq Deltas /\ crowdedFile' \subseteq Deltas
  BY <1>1, <1>8, <1>9 DEF IInv, TypeOK, CrowdedKept
<1>11. TypeOK'
  BY <1>1, <1>5, <1>6, <1>10 DEF IInv, TypeOK
<1> QED
  BY <1>1, <1>7, <1>10, <1>11
     DEF IInv, Kept, UseGrows, UnshownIsIdle, ServicesKept, ContainersKept, OutputKept, RatesKept

LEMMA CollectFailsKeeps ==
    ASSUME IInv, CollectFails PROVE IInv'
<1>1. /\ UNCHANGED <<clock, running, shown, counter, used, previousCPU, previousAt, output>>
      /\ UNCHANGED <<now, currentIDs, previous, asking, usedBefore, base, platform>>
      /\ UNCHANGED <<queue, crowded, crowdedFile>>
      /\ phase = "build" /\ phase' = "built" /\ report' = {}
      /\ outcome' = "failed" /\ oversized' = FALSE
  BY DEF CollectFails, host, systemd, runtime, present, telemetry
<1>2. TypeOK'
  BY <1>1 DEF IInv, TypeOK
<1> QED
  BY <1>1, <1>2
     DEF IInv, Kept, UseGrows, UnshownIsIdle, ServicesKept, ContainersKept, OutputKept, RatesKept,
         CrowdedKept, CollectedIsValid

LEMMA EndRoundKeeps ==
    ASSUME IInv, Flush \/ Continue PROVE IInv'
<1>1. /\ UNCHANGED <<clock, running, shown, counter, used, previousCPU, previousAt, output>>
      /\ UNCHANGED <<now, currentIDs, previous, asking, usedBefore, report, base, platform>>
      /\ phase = "built" /\ phase' = "idle" /\ outcome' = "none" /\ oversized' = FALSE
      /\ UNCHANGED <<crowded, crowdedFile>>
  BY DEF Flush, Continue, EndRound, host, systemd, runtime, present, telemetry
<1>2. queue' \in 0 .. MaxQueue
  BY SamplingAssumption DEF Flush, Continue, IInv, TypeOK
<1>3. TypeOK'
  BY <1>1, <1>2 DEF IInv, TypeOK
<1> QED
  BY <1>1, <1>3 DEF IInv, Kept, UseGrows, UnshownIsIdle, ServicesKept, ContainersKept, OutputKept, RatesKept, CrowdedKept, CollectedIsValid

LEMMA RestartKeeps ==
    ASSUME IInv, Restart PROVE IInv'
<1> USE MetersAreTwo, NoneIsZero
<1>1. /\ UNCHANGED <<clock, running, shown, counter, used, platform, queue>>
      /\ previousCPU' = <<>> /\ previousAt' = 0 /\ output' = <<>>
      /\ now' = 0 /\ currentIDs' = {} /\ asking' = {} /\ previous' = <<>>
      /\ usedBefore' = None /\ base' = None /\ report' = {}
      /\ phase' = "idle" /\ outcome' = "none" /\ oversized' = FALSE
      /\ crowded' = crowdedFile /\ UNCHANGED crowdedFile
  BY DEF Restart, host
<1>2. DOMAIN previousCPU' = {} /\ DOMAIN output' = {} /\ DOMAIN previous' = {}
  BY <1>1
<1>3. TypeOK'
  <2>1. {previousAt', now'} \subseteq 0 .. MaxClock
    BY <1>1, MetersAssumption
  <2>2. {counter', used', usedBefore', base'} \subseteq [Meters -> Nat]
    BY <1>1 DEF IInv, TypeOK
  <2> QED
    BY <1>1, <1>2, <2>1, <2>2 DEF IInv, TypeOK
<1>4. UseGrows'
  BY <1>1 DEF IInv, TypeOK, UseGrows
<1>5. ServicesKept' /\ ContainersKept' /\ OutputKept' /\ RatesKept'
  BY <1>1, <1>2 DEF ServicesKept, ContainersKept, OutputKept, RatesKept
<1> QED
  BY <1>1, <1>3, <1>4, <1>5 DEF IInv, Kept, UnshownIsIdle, CrowdedKept, CollectedIsValid

-----------------------------------------------------------------------------
(* The inductive invariant: types, what the kept values are worth, and     *)
(* the agent's verdict.                                                    *)
THEOREM SamplingInvariance == Spec => []IInv
<1>1. IInv /\ [Next]_vars => IInv'
  <2> SUFFICES ASSUME IInv, [Next]_vars PROVE IInv'
    OBVIOUS
  <2>1. CASE Observed /\ Host /\ UNCHANGED agent
    BY <2>1, HostKeeps
  <2>2. CASE BeginRound
    BY <2>2, BeginRoundKeeps
  <2>3. CASE ShowService
    BY <2>3, ShowServiceKeeps
  <2>4. CASE EndServices
    BY <2>4, ServicesReadKeeps, ServicesFailKeeps DEF EndServices
  <2>5. CASE CollectContainers
    BY <2>5, CollectContainersKeeps
  <2>6. CASE AskContainer
    BY <2>6, AskContainerKeeps
  <2>7. CASE EndContainers
    BY <2>7, EndContainersKeeps
  <2>8. CASE Build \/ CollectFails
    BY <2>8, BuildKeeps, CollectFailsKeeps
  <2>9. CASE Flush \/ Continue
    BY <2>9, EndRoundKeeps
  <2>10. CASE Restart
    BY <2>10, RestartKeeps
  <2>11. CASE UNCHANGED vars
    <3>1. TypeOK' /\ CrowdedKept' /\ CollectedIsValid'
      BY <2>11 DEF vars, IInv, TypeOK, CrowdedKept, CollectedIsValid
    <3> QED
      BY <2>11, <3>1 DEF vars, IInv, Kept, UseGrows, UnshownIsIdle, ServicesKept, ContainersKept, OutputKept, RatesKept
  <2> QED
    BY <2>1, <2>2, <2>3, <2>4, <2>5, <2>6, <2>7, <2>8, <2>9, <2>10, <2>11 DEF Next, Round
<1> QED
  BY InitIsKept, <1>1, PTL DEF Spec

(* Every variable keeps the shape of the code's state.                     *)
THEOREM SamplingTypeCorrect == Spec => []TypeOK
<1>1. IInv => TypeOK
  BY DEF IInv
<1> QED
  BY SamplingInvariance, <1>1, PTL

(* For every number of meters and whatever they do while they are read, no *)
(* collector reports a rate above the use since the earlier collection.    *)
THEOREM NoRateIsInvented == Spec => []RatesAreCovered
<1>1. IInv => RatesAreCovered
  BY DEF IInv, Kept, RatesKept, RatesAreCovered
<1> QED
  BY SamplingInvariance, <1>1, PTL

(* For every host: validation refuses a heartbeat only when it is          *)
(* Oversized, so the limits of the collectors and those of the protocol    *)
(* agree everywhere else.                                                  *)
THEOREM LimitsAgree == Spec => []CollectedIsValid
<1>1. IInv => CollectedIsValid
  BY DEF IInv
<1> QED
  BY SamplingInvariance, <1>1, PTL
=============================================================================
