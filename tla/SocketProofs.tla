---------------------------- MODULE SocketProofs ----------------------------
(***************************************************************************)
(* Proofs about InventorySocket: for every number of commands, every pair  *)
(* of deadlines and every failure the environment allows, what a command   *)
(* reports is true of what the application has stored, and no connection   *)
(* is handled for as long as both deadlines together.                      *)
(***************************************************************************)
EXTENDS InventorySocket, TLAPS

-----------------------------------------------------------------------------
(* A client is where its state says, and in one place.                     *)
OnePlace ==
    /\ \A i, j \in DOMAIN backlog : backlog[i] = backlog[j] => i = j
    /\ Queued \cap serving = {}
    /\ \A c \in Queued \cup serving : client[c] \in {"connected", "written"} \cup Gone

(* "ok" is about to be answered only for what was stored.                  *)
OutcomeIsFaithful ==
    /\ outcome = "ok" => pc = "answer" /\ serving \subseteq stored
    /\ request = "stored" => serving \subseteq stored
    /\ OkMeansStored

(* What has become of those whose snapshot was stored.                     *)
StoredFate ==
    /\ late \subseteq doubtful
    /\ \A c \in stored :
          \/ c \in doubtful \/ client[c] = "ok" \/ client[c] \in Gone
          \/ c \in serving /\ request \in {"stored", "unanswered"}
          \/ c \in serving /\ pc = "answer" /\ outcome = "ok"

(* The two deadlines follow each other.                                    *)
Timing ==
    /\ pc \in {"down", "accept"} => held = 0
    /\ pc \in {"read", "submit"} => held + deadline = ConnectionTime
    /\ pc = "submit" => held < ConnectionTime
    /\ pc = "await" => held + timeout < ConnectionTime + SubmitTime
    /\ pc \in {"await", "answer"} => held + deadline >= ConnectionTime
    /\ HeldAtMost
    /\ held >= ConnectionTime => serving \subseteq doubtful

IInv == TypeOK /\ OnePlace /\ OutcomeIsFaithful /\ StoredFate /\ Timing

LEMMA InitIsSound == Init => IInv
<1> SUFFICES ASSUME Init PROVE IInv
  OBVIOUS
<1>1. TypeOK
  <2>1. deadline \in 0 .. ConnectionTime /\ timeout \in 0 .. SubmitTime /\ held \in Nat
    BY SocketAssumption DEF Init
  <2>2. backlog \in Seq(Clients)
    BY DEF Init
  <2> QED
    BY <2>1, <2>2 DEF Init, TypeOK
<1>2. OnePlace
  BY DEF Init, OnePlace, Queued
<1>3. OutcomeIsFaithful /\ StoredFate
  BY DEF Init, OutcomeIsFaithful, OkMeansStored, StoredFate
<1>4. Timing
  BY SocketAssumption DEF Init, Timing, HeldAtMost
<1> QED
  BY <1>1, <1>2, <1>3, <1>4 DEF IInv

-----------------------------------------------------------------------------
(* The command.                                                            *)
LEMMA DialIsSound ==
    ASSUME IInv, NEW c \in Clients, Dial(c) PROVE IInv'
<1>1. /\ UNCHANGED <<pc, listening, cancelled, serving, deadline, timeout, outcome>>
      /\ UNCHANGED <<request, late, stored, held, doubtful>>
      /\ client[c] = "confirming"
      /\ \/ backlog' = Append(backlog, c) /\ client' = [client EXCEPT ![c] = "connected"]
         \/ backlog' = backlog /\ client' = [client EXCEPT ![c] = "unreachable"]
  BY DEF Dial, history
<1>2. /\ client \in [Clients -> {"confirming", "connected", "written"} \cup Reports \cup Gone]
      /\ backlog \in Seq(Clients) /\ serving \subseteq Clients
  BY DEF IInv, TypeOK
<1>3. /\ client' \in [Clients -> {"confirming", "connected", "written"} \cup Reports \cup Gone]
      /\ client'[c] \in {"connected", "unreachable"}
      /\ \A x \in Clients \ {c} : client'[x] = client[x]
      /\ backlog' \in Seq(Clients)
  BY <1>1, <1>2 DEF Reports
<1>4. TypeOK'
  BY <1>1, <1>3 DEF IInv, TypeOK
<1>5. c \notin Queued \cup serving
  BY <1>1 DEF IInv, OnePlace, Gone
<1>6. OnePlace'
  <2>1. CASE backlog' = backlog
    <3>1. Queued' = Queued
      BY <2>1 DEF Queued
    <3>2. Queued \subseteq Clients
      BY <1>2 DEF Queued
    <3> QED
      BY <1>1, <1>2, <1>3, <1>5, <2>1, <3>1, <3>2 DEF IInv, OnePlace
  <2>2. CASE backlog' = Append(backlog, c) /\ client' = [client EXCEPT ![c] = "connected"]
    <3>1. /\ DOMAIN backlog' = 1 .. Len(backlog) + 1 /\ DOMAIN backlog = 1 .. Len(backlog)
          /\ Len(backlog) \in Nat
          /\ \A i \in DOMAIN backlog : backlog'[i] = backlog[i] /\ backlog[i] \in Queued
          /\ backlog'[Len(backlog) + 1] = c
      BY <1>2, <2>2 DEF Queued
    <3>2. Queued' = Queued \cup {c}
      <4>1. Queued' \subseteq Queued \cup {c}
        BY <3>1 DEF Queued
      <4>2. ASSUME NEW x \in Queued PROVE x \in Queued'
        <5>1. PICK i \in DOMAIN backlog : backlog[i] = x
          BY DEF Queued
        <5>2. i \in DOMAIN backlog' /\ backlog'[i] = x
          BY <3>1, <5>1
        <5> QED
          BY <5>2 DEF Queued
      <4>3. c \in Queued'
        <5>1. Len(backlog) + 1 \in DOMAIN backlog' /\ backlog'[Len(backlog) + 1] = c
          BY <3>1
        <5> QED
          BY <5>1 DEF Queued
      <4> QED
        BY <4>1, <4>2, <4>3
    <3>3. \A i, j \in DOMAIN backlog' : backlog'[i] = backlog'[j] => i = j
      BY <1>5, <3>1 DEF IInv, OnePlace
    <3>4. Queued \subseteq Clients
      BY <1>2 DEF Queued
    <3>5. client'[c] = "connected"
      BY <1>2, <2>2
    <3> QED
      BY <1>1, <1>2, <1>3, <1>5, <3>2, <3>3, <3>4, <3>5 DEF IInv, OnePlace
  <2> QED
    BY <1>1, <2>1, <2>2
<1>7. OutcomeIsFaithful'
  BY <1>1, <1>3 DEF IInv, OutcomeIsFaithful, OkMeansStored
<1>8. StoredFate'
  <2>1. stored \subseteq Clients
    BY DEF IInv, TypeOK
  <2> QED
    BY <1>1, <1>3, <1>5, <2>1 DEF IInv, StoredFate, Gone
<1> QED
  BY <1>1, <1>4, <1>6, <1>7, <1>8 DEF IInv, Timing, HeldAtMost

LEMMA WriteOrKillIsSound ==
    ASSUME IInv, NEW c \in Clients, Write(c) \/ Kill(c) PROVE IInv'
<1>1. /\ UNCHANGED <<pc, listening, cancelled, backlog, serving, deadline, timeout, outcome>>
      /\ UNCHANGED <<request, late, stored, held, doubtful>>
      /\ client[c] \in {"connected", "written"}
      /\ \/ client' = [client EXCEPT ![c] = "written"]
         \/ client' = [client EXCEPT ![c] = "abandoned"]
         \/ client' = [client EXCEPT ![c] = "killed"]
  BY DEF Write, Kill, history, server
<1>2. client \in [Clients -> {"confirming", "connected", "written"} \cup Reports \cup Gone]
  BY DEF IInv, TypeOK
<1>3. /\ client' \in [Clients -> {"confirming", "connected", "written"} \cup Reports \cup Gone]
      /\ client'[c] \in {"written"} \cup Gone
      /\ \A x \in Clients \ {c} : client'[x] = client[x]
  BY <1>1, <1>2 DEF Gone
<1>4. TypeOK'
  BY <1>1, <1>3 DEF IInv, TypeOK
<1>5. /\ Queued' = Queued /\ Queued \cup serving \subseteq Clients
  BY <1>1 DEF Queued, IInv, TypeOK
<1>6. OnePlace'
  BY <1>1, <1>3, <1>5 DEF IInv, OnePlace
<1>7. OutcomeIsFaithful'
  BY <1>1, <1>3 DEF IInv, OutcomeIsFaithful, OkMeansStored, Gone
<1>8. StoredFate'
  <2>1. stored \subseteq Clients
    BY DEF IInv, TypeOK
  <2> QED
    BY <1>1, <1>3, <2>1 DEF IInv, StoredFate, Gone
<1> QED
  BY <1>1, <1>4, <1>6, <1>7, <1>8 DEF IInv, Timing, HeldAtMost

-----------------------------------------------------------------------------
(* The server handles the connections one by one.                          *)
LEMMA AcceptIsSound ==
    ASSUME IInv, Accept PROVE IInv'
<1>1. /\ UNCHANGED <<listening, cancelled, timeout, client, request, late, stored, doubtful>>
      /\ pc = "accept" /\ backlog # <<>> /\ serving' = {Head(backlog)} /\ backlog' = Tail(backlog)
      /\ held' = 0 /\ deadline' = ConnectionTime
      /\ \/ pc' = "read" /\ outcome' = outcome
         \/ pc' = "answer" /\ outcome' = "refused"
  BY DEF Accept, Respond, outside
<1>2. /\ backlog \in Seq(Clients) /\ serving = {} /\ request = "none" /\ outcome \in {"ok", "refused"}
      /\ {ConnectionTime, SubmitTime} \subseteq Nat \ {0}
  BY <1>1, SocketAssumption DEF IInv, TypeOK
<1>3. /\ Len(backlog) \in Nat \ {0} /\ DOMAIN backlog = 1 .. Len(backlog)
      /\ Head(backlog) = backlog[1] /\ Head(backlog) \in Clients
      /\ Tail(backlog) \in Seq(Clients) /\ DOMAIN Tail(backlog) = 1 .. Len(backlog) - 1
      /\ \A i \in 1 .. Len(backlog) - 1 : Tail(backlog)[i] = backlog[i + 1]
  BY <1>1, <1>2
<1>4. outcome = "refused"
  BY <1>1, <1>2 DEF IInv, OutcomeIsFaithful
<1>5. TypeOK'
  BY <1>1, <1>2, <1>3, <1>4 DEF IInv, TypeOK
<1>6. /\ Head(backlog) \in Queued /\ Queued' \subseteq Queued /\ Head(backlog) \notin Queued'
  <2>1. Head(backlog) \in Queued
    BY <1>3 DEF Queued
  <2>2. \A i \in DOMAIN backlog' : i + 1 \in DOMAIN backlog /\ backlog'[i] = backlog[i + 1] /\ i + 1 # 1
    BY <1>1, <1>3
  <2>3. Queued' \subseteq Queued
    BY <2>2 DEF Queued
  <2>4. Head(backlog) \notin Queued'
    BY <1>3, <2>2 DEF Queued, IInv, OnePlace
  <2> QED
    BY <2>1, <2>3, <2>4
<1>7. OnePlace'
  <2>1. \A i, j \in DOMAIN backlog' : backlog'[i] = backlog'[j] => i = j
    BY <1>1, <1>3 DEF IInv, OnePlace
  <2> QED
    BY <1>1, <1>6, <2>1 DEF IInv, OnePlace
<1>8. OutcomeIsFaithful'
  BY <1>1, <1>2, <1>4 DEF IInv, OutcomeIsFaithful, OkMeansStored
<1>9. StoredFate'
  BY <1>1, <1>2 DEF IInv, StoredFate
<1>10. Timing'
  BY <1>1, <1>2 DEF Timing, HeldAtMost
<1> QED
  BY <1>5, <1>7, <1>8, <1>9, <1>10 DEF IInv

(* What leaves the places and the answers alone only has to keep time.     *)
LEMMA ReadIsSound ==
    ASSUME IInv, Read \/ ReadTimesOut PROVE IInv'
<1>1. /\ UNCHANGED <<listening, cancelled, backlog, serving, deadline, timeout, client, request>>
      /\ UNCHANGED <<late, stored, held, doubtful>>
      /\ pc = "read" /\ outcome' \in {outcome, "refused"}
      /\ \/ pc' = "submit" /\ deadline > 0 /\ outcome' = outcome
         \/ pc' = "answer" /\ outcome' = "refused"
  BY DEF Read, ReadTimesOut, Respond, outside, history
<1>2. /\ request = "none" /\ outcome \in {"ok", "refused"} /\ outcome # "ok" /\ serving # {}
      /\ {ConnectionTime, SubmitTime} \subseteq Nat \ {0} /\ held \in Nat /\ deadline \in Nat
  BY <1>1, SocketAssumption DEF IInv, TypeOK, OutcomeIsFaithful
<1>3. TypeOK'
  BY <1>1, <1>2 DEF IInv, TypeOK
<1>4. OnePlace'
  BY <1>1 DEF IInv, OnePlace, Queued
<1>5. OutcomeIsFaithful' /\ StoredFate'
  BY <1>1, <1>2 DEF IInv, OutcomeIsFaithful, OkMeansStored, StoredFate
<1>6. Timing'
  BY <1>1, <1>2 DEF IInv, Timing, HeldAtMost
<1> QED
  BY <1>3, <1>4, <1>5, <1>6 DEF IInv

LEMMA SubmitIsSound ==
    ASSUME IInv, Submit PROVE IInv'
<1>1. /\ UNCHANGED <<listening, cancelled, backlog, serving, deadline, client>>
      /\ UNCHANGED <<late, stored, held, doubtful>>
      /\ pc = "submit"
      /\ \/ /\ pc' = "await" /\ request' = "travelling" /\ timeout' = SubmitTime
            /\ outcome' = outcome
         \/ /\ pc' = "answer" /\ outcome' = "refused" /\ UNCHANGED <<request, timeout>>
  BY DEF Submit, Respond, history
<1>2. /\ request = "none" /\ outcome \in {"ok", "refused"} /\ outcome # "ok" /\ serving # {}
      /\ {ConnectionTime, SubmitTime} \subseteq Nat \ {0} /\ held \in Nat /\ deadline \in Nat
  BY <1>1, SocketAssumption DEF IInv, TypeOK, OutcomeIsFaithful
<1>3. TypeOK'
  BY <1>1, <1>2 DEF IInv, TypeOK
<1>4. OnePlace'
  BY <1>1 DEF IInv, OnePlace, Queued
<1>5. OutcomeIsFaithful' /\ StoredFate'
  BY <1>1, <1>2 DEF IInv, OutcomeIsFaithful, OkMeansStored, StoredFate
<1>6. Timing'
  BY <1>1, <1>2 DEF IInv, Timing, HeldAtMost
<1> QED
  BY <1>3, <1>4, <1>5, <1>6 DEF IInv

LEMMA AnswerArrivesIsSound ==
    ASSUME IInv, AnswerArrives PROVE IInv'
<1>1. /\ UNCHANGED <<listening, cancelled, backlog, serving, deadline, client>>
      /\ UNCHANGED <<late, stored, held, doubtful>>
      /\ pc = "await" /\ pc' = "answer" /\ request' = "none" /\ timeout' = 0
      /\ \/ request = "stored" /\ outcome' = "ok"
         \/ request = "refused" /\ outcome' = "refused"
  BY DEF AnswerArrives, Respond, history
<1>2. /\ serving # {} /\ {ConnectionTime, SubmitTime} \subseteq Nat \ {0}
      /\ held \in Nat /\ deadline \in Nat /\ timeout \in Nat
  BY <1>1, SocketAssumption DEF IInv, TypeOK
<1>3. TypeOK'
  BY <1>1, <1>2 DEF IInv, TypeOK
<1>4. OnePlace'
  BY <1>1 DEF IInv, OnePlace, Queued
<1>5. OutcomeIsFaithful' /\ StoredFate'
  BY <1>1 DEF IInv, OutcomeIsFaithful, OkMeansStored, StoredFate
<1>6. Timing'
  BY <1>1, <1>2 DEF IInv, Timing, HeldAtMost
<1> QED
  BY <1>3, <1>4, <1>5, <1>6 DEF IInv

LEMMA GiveUpIsSound ==
    ASSUME IInv, GiveUp PROVE IInv'
<1>1. /\ UNCHANGED <<listening, cancelled, backlog, serving, deadline, client, stored, held>>
      /\ pc = "await" /\ pc' = "answer" /\ outcome' = "refused" /\ request' = "none" /\ timeout' = 0
      /\ late' \in {late, late \cup serving} /\ doubtful' = doubtful \cup serving
  BY DEF GiveUp, Respond
<1>2. /\ serving # {} /\ serving \subseteq Clients
      /\ {ConnectionTime, SubmitTime} \subseteq Nat \ {0}
      /\ held \in Nat /\ deadline \in Nat /\ timeout \in Nat
  BY <1>1, SocketAssumption DEF IInv, TypeOK
<1>3. TypeOK'
  BY <1>1, <1>2 DEF IInv, TypeOK
<1>4. OnePlace'
  BY <1>1 DEF IInv, OnePlace, Queued
<1>5. OutcomeIsFaithful' /\ StoredFate'
  BY <1>1 DEF IInv, OutcomeIsFaithful, OkMeansStored, StoredFate
<1>6. Timing'
  BY <1>1, <1>2 DEF IInv, Timing, HeldAtMost
<1> QED
  BY <1>3, <1>4, <1>5, <1>6 DEF IInv

(* Nobody else's report changes.                                           *)
LEMMA TellTells ==
    ASSUME TypeOK, NEW C \in SUBSET Clients, NEW report \in Reports, Tell(C, report)
    PROVE  /\ client' \in [Clients -> {"confirming", "connected", "written"} \cup Reports \cup Gone]
           /\ \A c \in Clients : \/ c \in C /\ client[c] \notin Gone /\ client'[c] = report
                                 \/ c \in C /\ client[c] \in Gone /\ client'[c] = client[c]
                                 \/ c \notin C /\ client'[c] = client[c]
<1>1. client' = [c \in Clients |-> IF c \in C /\ client[c] \notin Gone THEN report ELSE client[c]]
  BY DEF Tell
<1>2. client \in [Clients -> {"confirming", "connected", "written"} \cup Reports \cup Gone]
  BY DEF TypeOK
<1> QED
  BY <1>1, <1>2

LEMMA AnswerIsSound ==
    ASSUME IInv, Answer PROVE IInv'
<1> DEFINE report == IF deadline > 0 THEN outcome ELSE "cut"
<1>1. /\ UNCHANGED <<listening, cancelled, backlog, timeout, request, late, stored, doubtful>>
      /\ pc = "answer" /\ pc' = "accept" /\ Tell(serving, report) /\ serving' = {}
      /\ deadline' = 0 /\ outcome' = "refused" /\ held' = 0
  BY DEF Answer
<1>2. /\ serving # {} /\ serving \subseteq Clients /\ request = "none"
      /\ \A b, c \in serving : b = c
      /\ Queued \subseteq Clients /\ stored \subseteq Clients /\ outcome \in {"ok", "refused"}
      /\ {ConnectionTime, SubmitTime} \subseteq Nat \ {0}
      /\ held \in Nat /\ deadline \in Nat
  BY <1>1, SocketAssumption DEF IInv, TypeOK, Queued
<1>3. report \in Reports
  BY <1>2 DEF Reports
<1>4. /\ client' \in [Clients -> {"confirming", "connected", "written"} \cup Reports \cup Gone]
      /\ \A c \in Clients : \/ c \in serving /\ client[c] \notin Gone /\ client'[c] = report
                            \/ c \in serving /\ client[c] \in Gone /\ client'[c] = client[c]
                            \/ c \notin serving /\ client'[c] = client[c]
  <2> HIDE DEF report
  <2> QED
    BY <1>1, <1>2, <1>3, TellTells DEF IInv
<1>5. report = "ok" => outcome = "ok"
  OBVIOUS
<1>6. outcome = "ok" /\ report # "ok" => serving \subseteq doubtful
  <2>1. ASSUME deadline = 0 PROVE serving \subseteq doubtful
    BY <1>1, <1>2, <2>1 DEF IInv, Timing
  <2> QED
    BY <1>2, <2>1
<1> HIDE DEF report
<1>7. TypeOK'
  BY <1>1, <1>2, <1>4 DEF IInv, TypeOK
<1>8. OnePlace'
  <2>1. Queued' = Queued
    BY <1>1 DEF Queued
  <2> QED
    BY <1>1, <1>2, <1>4, <2>1 DEF IInv, OnePlace
<1>9. OutcomeIsFaithful'
  BY <1>1, <1>2, <1>4, <1>5 DEF IInv, OutcomeIsFaithful, OkMeansStored, Gone
<1>10. StoredFate'
  BY <1>1, <1>2, <1>4, <1>6 DEF IInv, StoredFate, OnePlace, Gone
<1>11. Timing'
  BY <1>1, <1>2 DEF Timing, HeldAtMost
<1> QED
  BY <1>7, <1>8, <1>9, <1>10, <1>11 DEF IInv

-----------------------------------------------------------------------------
(* The daemon goes down, or only stops to listen.                          *)
LEMMA EmptyBacklogIsFine ==
    ASSUME backlog' = <<>>
    PROVE  /\ Queued' = {} /\ backlog' \in Seq(Clients)
           /\ \A i, j \in DOMAIN backlog' : backlog'[i] = backlog'[j] => i = j
  BY DEF Queued

LEMMA CloseListenerIsSound ==
    ASSUME IInv, CloseListener PROVE IInv'
<1>1. /\ UNCHANGED <<pc, cancelled, serving, deadline, timeout, outcome, request, late, stored>>
      /\ UNCHANGED <<held, doubtful>>
      /\ listening' = FALSE /\ backlog' = <<>> /\ Tell(Queued, "cut")
  BY DEF CloseListener, history
<1>2. Queued \subseteq Clients /\ stored \subseteq Clients /\ serving \subseteq Clients
  BY DEF IInv, TypeOK, Queued
<1>3. /\ client' \in [Clients -> {"confirming", "connected", "written"} \cup Reports \cup Gone]
      /\ \A c \in Clients : \/ c \in Queued /\ client[c] \notin Gone /\ client'[c] = "cut"
                            \/ c \in Queued /\ client[c] \in Gone /\ client'[c] = client[c]
                            \/ c \notin Queued /\ client'[c] = client[c]
  BY <1>1, <1>2, TellTells DEF IInv, Reports
<1>4. TypeOK'
  BY <1>1, <1>3, EmptyBacklogIsFine DEF IInv, TypeOK
<1>5. OnePlace'
  BY <1>1, <1>2, <1>3, EmptyBacklogIsFine DEF IInv, OnePlace
<1>6. OutcomeIsFaithful'
  BY <1>1, <1>3 DEF IInv, OutcomeIsFaithful, OkMeansStored, Gone
<1>7. StoredFate'
  BY <1>1, <1>2, <1>3 DEF IInv, StoredFate, OnePlace, Gone
<1> QED
  BY <1>1, <1>4, <1>5, <1>6, <1>7 DEF IInv, Timing, HeldAtMost

LEMMA ProcessEndsIsSound ==
    ASSUME IInv, ProcessEnds PROVE IInv'
<1>1. /\ UNCHANGED stored /\ pc' = "down" /\ listening' = FALSE /\ cancelled' = FALSE
      /\ backlog' = <<>> /\ serving' = {} /\ Tell(serving \cup Queued, "cut")
      /\ late' \in {late, late \cup serving} /\ request' = "none"
      /\ deadline' = 0 /\ timeout' = 0 /\ held' = 0
      /\ outcome' = "refused" /\ doubtful' = doubtful \cup serving
  BY DEF ProcessEnds
<1>2. /\ Queued \subseteq Clients /\ stored \subseteq Clients /\ serving \subseteq Clients
      /\ {ConnectionTime, SubmitTime} \subseteq Nat \ {0}
  BY SocketAssumption DEF IInv, TypeOK, Queued
<1>3. /\ client' \in [Clients -> {"confirming", "connected", "written"} \cup Reports \cup Gone]
      /\ \A c \in Clients :
            \/ c \in serving \cup Queued /\ client[c] \notin Gone /\ client'[c] = "cut"
            \/ c \in serving \cup Queued /\ client[c] \in Gone /\ client'[c] = client[c]
            \/ c \notin serving \cup Queued /\ client'[c] = client[c]
  BY <1>1, <1>2, TellTells DEF IInv, Reports
<1>4. TypeOK'
  <2>1. /\ deadline' \in 0 .. ConnectionTime /\ timeout' \in 0 .. SubmitTime /\ held' \in Nat
        /\ late' \subseteq Clients /\ doubtful' \subseteq Clients
    BY <1>1, <1>2 DEF IInv, TypeOK
  <2>2. backlog' \in Seq(Clients)
    BY <1>1, EmptyBacklogIsFine
  <2> QED
    BY <1>1, <1>2, <1>3, <2>1, <2>2 DEF TypeOK
<1>5. OnePlace'
  BY <1>1, EmptyBacklogIsFine DEF OnePlace
<1>6. OutcomeIsFaithful'
  BY <1>1, <1>3 DEF IInv, OutcomeIsFaithful, OkMeansStored, Gone
<1>7. StoredFate'
  BY <1>1, <1>2, <1>3 DEF IInv, StoredFate, OnePlace, Gone
<1>8. Timing'
  BY <1>1, <1>2 DEF Timing, HeldAtMost
<1> QED
  BY <1>4, <1>5, <1>6, <1>7, <1>8 DEF IInv

LEMMA StartOrShutdownIsSound ==
    ASSUME IInv, Start \/ Shutdown PROVE IInv'
<1>1. /\ UNCHANGED <<backlog, serving, deadline, timeout, outcome, client, request, late, stored>>
      /\ UNCHANGED <<held, doubtful>>
      /\ {listening', cancelled'} \subseteq BOOLEAN
      /\ UNCHANGED pc \/ (pc = "down" /\ pc' = "accept")
  BY DEF Start, Shutdown, outside, history, IInv, TypeOK
<1>2. TypeOK'
  BY <1>1 DEF IInv, TypeOK
<1>3. OnePlace'
  BY <1>1 DEF IInv, OnePlace, Queued
<1> QED
  BY <1>1, <1>2, <1>3 DEF IInv, OutcomeIsFaithful, OkMeansStored, StoredFate, Timing, HeldAtMost

-----------------------------------------------------------------------------
(* The application and time.                                               *)
LEMMA ApplicationIsSound ==
    ASSUME IInv, Store \/ Refuse \/ \E c \in Clients : StoreLate(c) PROVE IInv'
<1>1. /\ UNCHANGED <<pc, listening, cancelled, backlog, serving, deadline, timeout, outcome>>
      /\ UNCHANGED <<client, held, doubtful>>
  BY DEF Store, Refuse, StoreLate, server, history
<1>2. \/ /\ request = "travelling" /\ stored' = stored \cup serving /\ late' = late
         /\ request' \in {"stored", "unanswered"}
      \/ request = "travelling" /\ request' = "refused" /\ stored' = stored /\ late' = late
      \/ \E c \in late : late' = late \ {c} /\ stored' = stored \cup {c} /\ request' = request
  BY DEF Store, Refuse, StoreLate
<1>3. serving \subseteq Clients /\ late \subseteq Clients
  BY DEF IInv, TypeOK
<1>4. TypeOK'
  BY <1>1, <1>2, <1>3 DEF IInv, TypeOK
<1>5. OnePlace'
  BY <1>1 DEF IInv, OnePlace, Queued
<1>6. OutcomeIsFaithful'
  BY <1>1, <1>2 DEF IInv, OutcomeIsFaithful, OkMeansStored
<1>7. StoredFate'
  BY <1>1, <1>2 DEF IInv, StoredFate
<1> QED
  BY <1>1, <1>4, <1>5, <1>6, <1>7 DEF IInv, Timing, HeldAtMost

LEMMA TickIsSound ==
    ASSUME IInv, Tick PROVE IInv'
<1>1. /\ UNCHANGED <<pc, listening, cancelled, backlog, serving, outcome, client, request, late, stored>>
      /\ \/ pc = "read" /\ deadline > 0 /\ timeout' = timeout
         \/ pc = "await" /\ timeout > 0 /\ timeout' = Less(timeout)
      /\ deadline' = Less(deadline) /\ held' = held + 1
      /\ doubtful' = IF held' >= ConnectionTime THEN doubtful \cup serving ELSE doubtful
  BY DEF Tick, Waiting, outside
<1>2. /\ {ConnectionTime, SubmitTime} \subseteq Nat \ {0} /\ held \in Nat
      /\ deadline \in 0 .. ConnectionTime /\ timeout \in 0 .. SubmitTime /\ serving \subseteq Clients
  BY SocketAssumption DEF IInv, TypeOK
<1>3. deadline' \in 0 .. ConnectionTime /\ timeout' \in 0 .. SubmitTime /\ held' \in Nat
  BY <1>1, <1>2 DEF Less
<1>4. TypeOK'
  BY <1>1, <1>2, <1>3 DEF IInv, TypeOK
<1>5. OnePlace'
  BY <1>1 DEF IInv, OnePlace, Queued
<1>6. OutcomeIsFaithful' /\ StoredFate'
  BY <1>1 DEF IInv, OutcomeIsFaithful, OkMeansStored, StoredFate
<1>7. Timing'
  BY <1>1, <1>2 DEF IInv, Timing, HeldAtMost, Less
<1> QED
  BY <1>4, <1>5, <1>6, <1>7 DEF IInv

-----------------------------------------------------------------------------
(* The inductive invariant: where the clients are, what was stored of them *)
(* and how far the two timers are apart.                                   *)
THEOREM SocketInvariance == Spec => []IInv
<1>1. IInv /\ [Next]_vars => IInv'
  <2> SUFFICES ASSUME IInv, [Next]_vars PROVE IInv'
    OBVIOUS
  <2>1. ASSUME NEW c \in Clients, Dial(c) \/ Write(c) \/ Kill(c) PROVE IInv'
    BY <2>1, DialIsSound, WriteOrKillIsSound
  <2>2. CASE Accept
    BY <2>2, AcceptIsSound
  <2>3. CASE Read \/ ReadTimesOut
    BY <2>3, ReadIsSound
  <2>4. CASE Submit
    BY <2>4, SubmitIsSound
  <2>5. CASE AnswerArrives
    BY <2>5, AnswerArrivesIsSound
  <2>6. CASE GiveUp
    BY <2>6, GiveUpIsSound
  <2>7. CASE Answer
    BY <2>7, AnswerIsSound
  <2>8. CASE CloseListener
    BY <2>8, CloseListenerIsSound
  <2>9. CASE ServerReturns \/ Return \/ Crash
    BY <2>9, ProcessEndsIsSound DEF ServerReturns, Return, Crash
  <2>10. CASE Shutdown \/ Start
    BY <2>10, StartOrShutdownIsSound
  <2>11. CASE Store \/ Refuse \/ \E c \in Clients : StoreLate(c)
    BY <2>11, ApplicationIsSound
  <2>12. CASE Tick
    BY <2>12, TickIsSound
  <2>13. CASE UNCHANGED vars
    <3>1. TypeOK' /\ OnePlace'
      BY <2>13 DEF vars, server, outside, history, IInv, TypeOK, OnePlace, Queued
    <3> QED
      BY <2>13, <3>1 DEF vars, history, IInv, OutcomeIsFaithful, OkMeansStored, StoredFate, Timing, HeldAtMost
  <2> QED
    BY <2>1, <2>2, <2>3, <2>4, <2>5, <2>6, <2>7, <2>8, <2>9, <2>10, <2>11, <2>12, <2>13 DEF Next, ServerStep
<1> QED
  BY InitIsSound, <1>1, PTL DEF Spec

(* Every variable keeps the shape of the code's state.                     *)
THEOREM SocketTypeCorrect == Spec => []TypeOK
<1>1. IInv => TypeOK
  BY DEF IInv
<1> QED
  BY SocketInvariance, <1>1, PTL

(* "Hardware snapshot sent for review." is true (handle, Send).            *)
THEOREM SentMeansStored == Spec => []OkMeansStored
<1>1. IInv => OkMeansStored
  BY DEF IInv, OutcomeIsFaithful
<1> QED
  BY SocketInvariance, <1>1, PTL

(* An error means that nothing was stored, except in the cases that        *)
(* doubtful records: only those need a look before the command is repeated.*)
THEOREM ErrorsCanBeRepeated == Spec => []ErrorMeansNotStored
<1>1. IInv => ErrorMeansNotStored
  <2> SUFFICES ASSUME IInv, NEW c \in Clients, client[c] \in Reports \ {"ok"}, c \in stored
               PROVE  c \in doubtful
    BY DEF ErrorMeansNotStored
  <2> QED
    BY DEF IInv, StoredFate, OnePlace, Reports, Gone
<1> QED
  BY SocketInvariance, <1>1, PTL

(* Whatever command ends, killed or not, what it printed is true of what   *)
(* the application has stored (handle, Send, SubmitInventory).             *)
THEOREM WhatIsReportedIsTrue == Spec => []ReportsAreTrue
<1>1. OkMeansStored /\ ErrorMeansNotStored => ReportsAreTrue
  BY DEF ReportsAreTrue
<1> QED
  BY SentMeansStored, ErrorsCanBeRepeated, <1>1, PTL

(* One connection holds up the others for less than both deadlines.        *)
THEOREM ConnectionsAreBounded == Spec => []HeldAtMost
<1>1. IInv => HeldAtMost
  BY DEF IInv, Timing
<1> QED
  BY SocketInvariance, <1>1, PTL
=============================================================================
