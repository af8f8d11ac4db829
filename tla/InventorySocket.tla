--------------------------- MODULE InventorySocket ---------------------------
(***************************************************************************)
(* The inventory command and the daemon's socket                           *)
(* (src/internal/inventoryscan/socket.go): root sends a reviewed hardware  *)
(* snapshot, the daemon submits it and reports the outcome.  The server    *)
(* takes one connection at a time.                                         *)
(*                                                                         *)
(* Time passes in units of five seconds.  What the server does without     *)
(* waiting for anybody takes no time; timers count down to zero.           *)
(***************************************************************************)
EXTENDS Naturals, Sequences, FiniteSets

CONSTANTS
    Clients,        \* runs of the inventory command, or others that connect
    Root,           \* those that run as root
    Stalling,       \* those that may stop before they have written everything
    ConnectionTime, \* deadline of a connection (15 s)
    SubmitTime,     \* timeout of the HTTP client (20 s)
    Environment     \* what may happen: a subset of Events

Events == {"crash", "local", "lose", "quit", "refuse", "shutdown"}

ASSUME SocketAssumption ==
    /\ Root \subseteq Clients
    /\ Stalling \subseteq Clients
    /\ {ConnectionTime, SubmitTime} \subseteq Nat \ {0}
    /\ Environment \subseteq Events

VARIABLES
    pc,         \* what the server does next; "down" without a process
    listening,  \* the listener is open
    cancelled,  \* the daemon's context is cancelled
    backlog,    \* connections that wait to be accepted
    serving,    \* the connection being handled, {} or a singleton
    deadline,   \* time left to the connection
    timeout,    \* time left to the submission
    outcome,    \* the response about to be encoded
    client,     \* per client, where it is or what it has reported
    request,    \* the submission on its way
    late,       \* clients whose submission travels on after it was given up
    stored,     \* clients whose snapshot the application has stored
    held,       \* history: time the present connection has been handled
    doubtful    \* history: clients whose error need not mean "not stored"

server == <<pc, listening, cancelled, backlog, serving, deadline, timeout, outcome>>
outside == <<client, request, late, stored>>
history == <<held, doubtful>>
vars == <<pc, listening, cancelled, backlog, serving, deadline, timeout, outcome, client,
          request, late, stored, held, doubtful>>

(* What the command ends with: "sent for review", the server's message, a  *)
(* broken connection or no connection.                                     *)
Reports == {"ok", "refused", "cut", "unreachable"}

(* Killed before or after everything was written.                          *)
Gone == {"killed", "abandoned"}

(* The clients of C that are still there report. *)
Tell(C, report) ==
    client' = [c \in Clients |-> IF c \in C /\ client[c] \notin Gone THEN report ELSE client[c]]

Queued == {backlog[i] : i \in DOMAIN backlog}

-----------------------------------------------------------------------------
(***************************************************************************)
(* The command: the snapshot is collected, shown and confirmed (without a  *)
(* time limit), then sent.                                                 *)
(***************************************************************************)
Dial(c) ==
    /\ client[c] = "confirming"
    /\ \/ /\ listening
          /\ backlog' = Append(backlog, c)
          /\ client' = [client EXCEPT ![c] = "connected"]
       \/ /\ ~listening
          /\ client' = [client EXCEPT ![c] = "unreachable"]
          /\ UNCHANGED backlog
    /\ UNCHANGED <<pc, listening, cancelled, serving, deadline, timeout, outcome, request,
                   late, stored, history>>

(* The body is written and the connection closed for writing. *)
Write(c) ==
    /\ client[c] = "connected"
    /\ client' = [client EXCEPT ![c] = "written"]
    /\ UNCHANGED <<server, request, late, stored, history>>

Kill(c) ==
    /\ "quit" \in Environment
    /\ client[c] \in {"connected", "written"}
    /\ client' = [client EXCEPT ![c] = IF @ = "written" THEN "abandoned" ELSE "killed"]
    /\ UNCHANGED <<server, request, late, stored, history>>

-----------------------------------------------------------------------------
(***************************************************************************)
(* The server.                                                             *)
(***************************************************************************)
Respond(result) == pc' = "answer" /\ outcome' = result

AcceptPatiently ==
    /\ pc = "accept" /\ listening /\ backlog # <<>>
    /\ serving' = {Head(backlog)}
    /\ backlog' = Tail(backlog)
    /\ held' = 0
    /\ deadline' = ConnectionTime + SubmitTime
    /\ IF Head(backlog) \in Root
       THEN pc' = "read" /\ UNCHANGED outcome
       ELSE Respond("refused")
    /\ UNCHANGED <<listening, cancelled, timeout, outside, doubtful>>

(* A peer that is not root is refused before the deadline is set. *)
Accept ==
    /\ pc = "accept" /\ listening /\ backlog # <<>>
    /\ serving' = {Head(backlog)}
    /\ backlog' = Tail(backlog)
    /\ held' = 0
    /\ deadline' = ConnectionTime
    /\ IF Head(backlog) \in Root
       THEN pc' = "read" /\ UNCHANGED outcome
       ELSE Respond("refused")
    /\ UNCHANGED <<listening, cancelled, timeout, outside, doubtful>>

(* Everything was read; the checks of the body come before the submission  *)
(* ("local": too long, invalid, another host, older than 15 minutes).      *)
Read ==
    /\ pc = "read"
    /\ deadline > 0
    /\ \E c \in serving :
          \/ /\ client[c] \in {"written", "abandoned"}
             /\ pc' = "submit"
             /\ UNCHANGED outcome
          \/ /\ client[c] = "killed" \/ (client[c] # "connected" /\ "local" \in Environment)
             /\ Respond("refused")
    /\ UNCHANGED <<listening, cancelled, backlog, serving, deadline, timeout, outside,
                   history>>

ReadForever ==
    /\ pc = "read"
    /\ deadline = 0
    /\ cancelled
    /\ Respond("refused")
    /\ UNCHANGED <<listening, cancelled, backlog, serving, deadline, timeout, outside,
                   history>>

ReadTimesOut ==
    /\ pc = "read"
    /\ deadline = 0
    /\ Respond("refused")
    /\ UNCHANGED <<listening, cancelled, backlog, serving, deadline, timeout, outside,
                   history>>

(***************************************************************************)
(* SubmitHardwareSnapshot: nothing is sent when the agent is dormant, the  *)
(* number cannot be reserved or the context is cancelled.                  *)
(***************************************************************************)
Submit ==
    /\ pc = "submit"
    /\ \/ /\ ~cancelled
          /\ pc' = "await"
          /\ request' = "travelling"
          /\ timeout' = SubmitTime
          /\ UNCHANGED outcome
       \/ /\ cancelled \/ "local" \in Environment
          /\ Respond("refused")
          /\ UNCHANGED <<request, timeout>>
    /\ UNCHANGED <<listening, cancelled, backlog, serving, deadline, client, late,
                   stored, history>>

(* The application's answer arrives; sendSigned returns its verdict. *)
AnswerMisread ==
    /\ pc = "await"
    /\ request \in {"stored", "refused"}
    /\ Respond("refused")
    /\ request' = "none"
    /\ timeout' = 0
    /\ UNCHANGED <<listening, cancelled, backlog, serving, deadline, client, late, stored,
                   history>>

AnswerArrives ==
    /\ pc = "await"
    /\ request \in {"stored", "refused"}
    /\ Respond(IF request = "stored" THEN "ok" ELSE "refused")
    /\ request' = "none"
    /\ timeout' = 0
    /\ UNCHANGED <<listening, cancelled, backlog, serving, deadline, client, late, stored,
                   history>>

GiveUpLoosely ==
    /\ pc = "await"
    /\ timeout = 0 \/ cancelled
    /\ Respond("refused")
    /\ late' = IF request = "travelling" THEN late \cup serving ELSE late
    /\ doubtful' = doubtful \cup serving
    /\ timeout' = 0
    /\ UNCHANGED <<listening, cancelled, backlog, serving, deadline, client, request, stored,
                   held>>

(* The timeout, or the cancelled context, ends the exchange. *)
GiveUp ==
    /\ pc = "await"
    /\ timeout = 0 \/ cancelled
    /\ Respond("refused")
    /\ late' = IF request = "travelling" THEN late \cup serving ELSE late
    /\ request' = "none"
    /\ timeout' = 0
    /\ doubtful' = doubtful \cup serving
    /\ UNCHANGED <<listening, cancelled, backlog, serving, deadline, client, stored, held>>

(* The response is encoded and the connection closed.  After the deadline  *)
(* nothing can be written any more and the client finds the end of file.   *)
Answer ==
    /\ pc = "answer"
    /\ Tell(serving, IF deadline > 0 THEN outcome ELSE "cut")
    /\ serving' = {}
    /\ pc' = "accept"
    /\ deadline' = 0
    /\ outcome' = "refused"
    /\ held' = 0
    /\ UNCHANGED <<listening, cancelled, backlog, timeout, request, late, stored, doubtful>>

-----------------------------------------------------------------------------
(***************************************************************************)
(* The daemon.                                                             *)
(***************************************************************************)

(* A signal, or agent.Run has returned. *)
Shutdown ==
    /\ "shutdown" \in Environment
    /\ pc # "down"
    /\ cancelled' = TRUE
    /\ UNCHANGED <<pc, listening, backlog, serving, deadline, timeout, outcome, outside,
                   history>>

(* The goroutine that waits for the context closes the listener; whoever   *)
(* was not accepted yet is disconnected.                                   *)
CloseListener ==
    /\ cancelled /\ listening
    /\ listening' = FALSE
    /\ backlog' = <<>>
    /\ Tell(Queued, "cut")
    /\ UNCHANGED <<pc, cancelled, serving, deadline, timeout, outcome, request, late,
                   stored, history>>

(* The process ends: both goroutines, whatever they were doing. *)
ProcessEnds ==
    /\ pc' = "down"
    /\ listening' = FALSE
    /\ cancelled' = FALSE
    /\ backlog' = <<>>
    /\ serving' = {}
    /\ Tell(serving \cup Queued, "cut")
    /\ late' = IF request = "travelling" THEN late \cup serving ELSE late
    /\ request' = "none"
    /\ deadline' = 0 /\ timeout' = 0 /\ held' = 0
    /\ outcome' = "refused"
    /\ doubtful' = doubtful \cup serving
    /\ UNCHANGED stored

(* run returns when one of its goroutines does. *)
Return == cancelled /\ pc # "down" /\ ProcessEnds

ServerReturns == pc = "accept" /\ ~listening /\ ProcessEnds

Crash == "crash" \in Environment /\ pc # "down" /\ ProcessEnds

(* A socket file that was left behind is removed. *)
Start ==
    /\ pc = "down"
    /\ pc' = "accept"
    /\ listening' = TRUE
    /\ UNCHANGED <<cancelled, backlog, serving, deadline, timeout, outcome, outside,
                   history>>

-----------------------------------------------------------------------------
(***************************************************************************)
(* The application and time (external).                                    *)
(***************************************************************************)
Store ==
    /\ request = "travelling"
    /\ stored' = stored \cup serving
    /\ request' \in {"stored"} \cup (IF "lose" \in Environment THEN {"unanswered"} ELSE {})
    /\ UNCHANGED <<server, client, late, history>>

Refuse ==
    /\ "refuse" \in Environment
    /\ request = "travelling"
    /\ request' = "refused"
    /\ UNCHANGED <<server, client, late, stored, history>>

StoreLate(c) ==
    /\ c \in late
    /\ late' = late \ {c}
    /\ stored' = stored \cup {c}
    /\ UNCHANGED <<server, client, request, history>>

Less(n) == IF n = 0 THEN 0 ELSE n - 1

(* Time stands still while the server has something to do. *)
Waiting ==
    \/ pc = "read" /\ deadline > 0 /\ \A c \in serving : client[c] = "connected"
    \/ pc = "await" /\ timeout > 0 /\ ~cancelled /\ request \notin {"stored", "refused"}

Tick ==
    /\ Waiting
    /\ deadline' = Less(deadline)
    /\ timeout' = IF pc = "await" THEN Less(timeout) ELSE timeout
    /\ held' = held + 1
    /\ doubtful' = IF held' >= ConnectionTime THEN doubtful \cup serving ELSE doubtful
    /\ UNCHANGED <<pc, listening, cancelled, backlog, serving, outcome, outside>>

-----------------------------------------------------------------------------

Init ==
    /\ pc = "down"
    /\ listening = FALSE
    /\ cancelled = FALSE
    /\ backlog = <<>>
    /\ serving = {}
    /\ deadline = 0 /\ timeout = 0
    /\ outcome = "refused"
    /\ client = [c \in Clients |-> "confirming"]
    /\ request = "none" /\ late = {} /\ stored = {}
    /\ held = 0 /\ doubtful = {}

ServerStep ==
    \/ Accept \/ Read \/ ReadTimesOut \/ Submit \/ AnswerArrives \/ GiveUp \/ Answer
    \/ CloseListener \/ ServerReturns

Next ==
    \/ \E c \in Clients : Dial(c) \/ Write(c) \/ Kill(c) \/ StoreLate(c)
    \/ ServerStep
    \/ Shutdown \/ Return \/ Crash \/ Start
    \/ Store \/ Refuse \/ Tick

Spec == Init /\ [][Next]_vars

(* The server runs, time passes, and a command that is not held up writes. *)
FairSpec ==
    /\ Spec
    /\ WF_vars(ServerStep) /\ WF_vars(Tick)
    /\ \A c \in Clients \ Stalling : WF_vars(Write(c))

-----------------------------------------------------------------------------

(* Every variable has the shape of the code's state; a connection is       *)
(* handled exactly between Accept and Answer, a submission awaited exactly *)
(* while one is on its way.                                                *)
TypeOK ==
    /\ pc \in {"down", "accept", "read", "submit", "await", "answer"}
    /\ {listening, cancelled} \subseteq BOOLEAN
    /\ backlog \in Seq(Clients)
    /\ serving \subseteq Clients
    /\ \A b, c \in serving : b = c
    /\ pc \in {"read", "submit", "await", "answer"} <=> serving # {}
    /\ deadline \in 0 .. ConnectionTime
    /\ timeout \in 0 .. SubmitTime
    /\ outcome \in {"ok", "refused"}
    /\ client \in [Clients -> {"confirming", "connected", "written"} \cup Reports \cup Gone]
    /\ {late, stored, doubtful} \subseteq SUBSET Clients
    /\ request \in {"none", "travelling", "stored", "refused", "unanswered"}
    /\ pc = "await" <=> request # "none"
    /\ held \in Nat

(***************************************************************************)
(* "Hardware snapshot sent for review." is reported only for a snapshot    *)
(* the application has stored.                                             *)
(***************************************************************************)
OkMeansStored == \A c \in Clients : client[c] = "ok" => c \in stored

(***************************************************************************)
(* A command that reports an error can be repeated: its snapshot was not   *)
(* stored.  The exceptions: the submission ended without the application's *)
(* answer, the process ended under it, or the submission outlasted the     *)
(* connection, whose deadline is the shorter one (socket.go:102).          *)
(***************************************************************************)
ErrorMeansNotStored ==
    \A c \in Clients : client[c] \in Reports \ {"ok"} /\ c \in stored => c \in doubtful

(***************************************************************************)
(* What the command reports is true of what the application has stored.    *)
(***************************************************************************)
ReportsAreTrue == OkMeansStored /\ ErrorMeansNotStored

(***************************************************************************)
(* One connection never keeps the others waiting for longer than both      *)
(* deadlines together, whatever its peer and the application do.           *)
(***************************************************************************)
HeldAtMost == held < ConnectionTime + SubmitTime

(***************************************************************************)
(* Every command that does not stop by itself ends, also behind one that   *)
(* connected and never wrote, and through shutdown and crashes.            *)
(***************************************************************************)
InvocationsEnd ==
    \A c \in Clients \ Stalling : client[c] = "connected" ~> client[c] \in Reports \cup Gone
=============================================================================
