------------------------------ MODULE MessageRelay ------------------------------
(***************************************************************************)
(* One lane of the Message Relay and its conversation: intake and outbox   *)
(* in one process, whose tick runs them in turn (RelayRuntime.tick), and   *)
(* the agent server at the other end of the network.                       *)
(***************************************************************************)
EXTENDS RelayIntake, DeliveryOutbox

CONSTANT MaxEvents   \* bound on the events of the agent

ASSUME MessageRelayAssumption == MaxEvents \in Nat

vars == <<lane, intakeVars, outboxVars>>

TypeOK == LaneTypeOK /\ IntakeTypeOK /\ OutboxTypeOK

Spoken == {p \in DOMAIN log : log[p].kind # "user"}

(* A run that was asked for brings events. *)
AgentSpeaks ==
    /\ Served
    /\ asked # {}
    /\ Cardinality(Spoken) < MaxEvents
    /\ \E e \in AgentEvent : log' = Append(log, e)
    /\ UNCHANGED <<conversation, loaded, ready, faults, intakeVars, outboxVars>>

(* A client of the agent server deletes the conversation. *)
Delete ==
    /\ ready /\ conversation = "present"
    /\ Fault
    /\ conversation' = "deleted"
    /\ UNCHANGED <<loaded, ready, log, intakeVars, outboxVars>>

(* The agent server crashes and comes up again.  A conversation whose lease  *)
(* seems to be held by somebody else is passed over (loadPersistedConversations). *)
ServerRestart ==
    /\ Fault
    /\ requests' = {}
    /\ loaded' \in {TRUE, conversation # "present"}
    /\ UNCHANGED <<conversation, ready, log, intake, worker, asked, requeues,
                   outboxVars>>

(* The relay process dies; its calls may still arrive. *)
RelayCrash ==
    /\ worker # Idle \/ sync # Resting
    /\ Fault
    /\ worker' = Idle
    /\ sync' = Resting
    /\ requests' = {r \in requests : r.at \notin Response}
    /\ UNCHANGED <<conversation, loaded, ready, log, intake, asked, requeues,
                   cursor, parked, outbox, skipped>>

Init == LaneInit /\ IntakeInit /\ OutboxInit

(* A tick integrates first and syncs then: never both at a time. *)
Next ==
    \/ IntakeNext /\ (worker' # Idle => sync = Resting) /\ UNCHANGED outboxVars
    \/ OutboxNext /\ (sync' # Resting => worker = Idle) /\ UNCHANGED intakeVars
    \/ AgentSpeaks \/ Delete \/ ServerRestart \/ RelayCrash

Spec == Init /\ [][Next]_vars

(* The tick is repeated on a timer; a call is answered or given up; the      *)
(* server goes on with what it has received.                                 *)
Fairness ==
    /\ SF_vars(\E m \in Message : Claim(m) /\ sync = Resting /\ UNCHANGED outboxVars)
    /\ WF_vars(\E m \in Message : Reclaim(m) /\ UNCHANGED outboxVars)
    /\ WF_vars(WorkerStep /\ UNCHANGED outboxVars)
    /\ WF_vars(ServerStep /\ UNCHANGED outboxVars)
    /\ SF_vars(StartSync /\ worker = Idle /\ UNCHANGED intakeVars)
    /\ WF_vars(SyncStep /\ UNCHANGED intakeVars)

FairSpec == Spec /\ Fairness
-------------------------------------------------------------------------------
(* Every message the relay accepted is served, unless it or one before it    *)
(* waits for an operator (integrateNextIntake, reconcile).                   *)
Answered(m) ==
    \/ intake[m].state = "done"
    \/ \E k \in 1..m : intake[k].state \in {"failed", "skipped"}

MessagesServed ==
    \A m \in Message : intake[m].state # "none" ~> Answered(m)

(* Every reply in the log is queued, or known to repeat what was queued,     *)
(* unless the server lost sight of the conversation (syncDeliveryOutbox).    *)
RepliesQueued ==
    \A p \in 1..(MaxMessages + MaxEvents) :
        p \in DOMAIN log ~> parked \/ (p \in DOMAIN log /\ Promise!Settled(p))
================================================================================
