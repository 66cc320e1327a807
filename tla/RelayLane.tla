------------------------------- MODULE RelayLane -------------------------------
(***************************************************************************)
(* What the two workers of the Message Relay share for one lane: the       *)
(* conversation on the agent server, its event log, the flag that says the *)
(* conversation was created, and the budget of disturbances.               *)
(***************************************************************************)
EXTENDS AgentEvents

CONSTANT MaxFaults   \* bound on crashes, restarts and failed calls

ASSUME RelayLaneAssumption == MaxFaults \in Nat

VARIABLES
    conversation,  \* the conversation on the agent server's disk
    loaded,        \* the running agent server has loaded it
    ready,         \* lanes.conversation_ready
    log,           \* its event log
    faults         \* disturbances so far

lane == <<conversation, loaded, ready, log, faults>>

(* "foreign": a conversation of this id exists and carries the owner tag of  *)
(* another relay store.                                                      *)
LaneTypeOK ==
    /\ conversation \in {"absent", "foreign", "present", "deleted"}
    /\ loaded \in BOOLEAN
    /\ ready \in BOOLEAN
    /\ log \in Seq(Event)
    /\ faults \in 0..MaxFaults

(* eventServiceOr404 finds the conversation. *)
Served == conversation = "present" /\ loaded

Fault == faults < MaxFaults /\ faults' = faults + 1

Posted(m) == \E p \in DOMAIN log : log[p] = UserEvent(m)

LaneInit ==
    /\ conversation \in {"absent", "foreign"}
    /\ loaded = TRUE
    /\ ready = FALSE
    /\ log = <<>>
    /\ faults = 0
================================================================================
