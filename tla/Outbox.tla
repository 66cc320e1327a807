--------------------------------- MODULE Outbox ---------------------------------
(***************************************************************************)
(* What the delivery outbox of a lane promises, whatever the pages, the    *)
(* crashes and the replays: each deliverable event of the conversation     *)
(* enters it at most once and in the order of the event log, and none is   *)
(* passed over but the final text of a turn that repeats what was already  *)
(* queued in that turn.                                                    *)
(***************************************************************************)
EXTENDS AgentEvents, FiniteSetsExt, Functions

VARIABLES
    log,       \* the event log, which only grows
    outbox,    \* positions of the queued events, in the order of the queue
    skipped    \* queued events whose delivery an operator skipped

vars == <<log, outbox, skipped>>

Queued == Range(outbox)

(* p repeats what r said earlier in the same turn. *)
EchoOf(p, r) ==
    /\ r < p
    /\ log[r].kind = "send" /\ log[p].kind = "final"
    /\ log[r].text = log[p].text
    /\ \A q \in (r + 1)..(p - 1) : log[q].kind \notin {"user", "final"}

Settled(p) ==
    \/ ~Deliverable(log[p])
    \/ p \in Queued
    \/ \E r \in Queued : EchoOf(p, r)

InOrder(p) ==
    /\ \A q \in Queued : q < p
    /\ \A q \in 1..(p - 1) : Settled(q)

(* An echo of a delivery that was skipped since may be queued after all, and *)
(* then out of order.                                                        *)
Reconsidered(p) == \E r \in skipped : EchoOf(p, r)

Grow == \E e \in Event : log' = Append(log, e) /\ UNCHANGED <<outbox, skipped>>

Enter(p) ==
    /\ Deliverable(log[p])
    /\ p \notin Queued
    /\ ~\E r \in Queued \ skipped : EchoOf(p, r)
    /\ InOrder(p) \/ Reconsidered(p)
    /\ outbox' = Append(outbox, p)
    /\ UNCHANGED <<log, skipped>>

Skip(p) ==
    /\ p \in Queued \ skipped
    /\ skipped' = skipped \cup {p}
    /\ UNCHANGED <<log, outbox>>

Init == log = <<>> /\ outbox = <<>> /\ skipped = {}

Next == Grow \/ \E p \in DOMAIN log : Enter(p) \/ Skip(p)

Spec == Init /\ [][Next]_vars
================================================================================
