-------------------------- MODULE HeartbeatChannel --------------------------
(***************************************************************************)
(* What heartbeat delivery promises, without processes, requests, files or *)
(* crashes.  Numbered heartbeats enter a backlog in increasing order; the  *)
(* application commits them in order and at most once; a heartbeat leaves  *)
(* the backlog only because it was committed, or because it was the oldest *)
(* and the bounded buffer had to let it go.                                *)
(***************************************************************************)
EXTENDS Integers

CONSTANT Numbers  \* sequence numbers

VARIABLES
    backlog,    \* heartbeats the agent still holds
    committed,  \* heartbeats the application has stored
    lost        \* heartbeats given up to stay within the buffer's limits

channelVars == <<backlog, committed, lost>>

Init == backlog = {} /\ committed = {} /\ lost = {}

(* A heartbeat with a number above all earlier ones joins the backlog. *)
Enqueue(s) ==
    /\ \A q \in backlog \cup committed \cup lost : q < s
    /\ backlog' = backlog \cup {s}
    /\ UNCHANGED <<committed, lost>>

(* The application stores s: in order, once, and skipping nothing that the *)
(* agent still holds.  A heartbeat given up may still arrive late.         *)
Commit(s) ==
    /\ s \in backlog \cup lost
    /\ \A q \in committed : q < s
    /\ \A q \in backlog : q < s => q \in committed
    /\ committed' = committed \cup {s}
    /\ UNCHANGED <<backlog, lost>>

(* The agent forgets a heartbeat it knows to be stored. *)
Retire(s) ==
    /\ s \in backlog \cap committed
    /\ backlog' = backlog \ {s}
    /\ UNCHANGED <<committed, lost>>

(* The agent gives up its oldest heartbeat. *)
Lose(s) ==
    /\ s \in backlog
    /\ \A q \in backlog : s <= q
    /\ backlog' = backlog \ {s}
    /\ lost' = lost \cup {s}
    /\ UNCHANGED committed

Next == \E s \in Numbers : Enqueue(s) \/ Commit(s) \/ Retire(s) \/ Lose(s)

Spec == Init /\ [][Next]_channelVars
=============================================================================
