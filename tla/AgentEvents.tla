------------------------------ MODULE AgentEvents ------------------------------
(***************************************************************************)
(* The events of a conversation, as far as the Message Relay tells them    *)
(* apart (the extractors of messageRelay.ts).  A `user' event is a message *)
(* the relay appended.  The agent adds `send' (a send_message action),     *)
(* `final' (a finish observation or plain assistant text that ends a turn) *)
(* and `error' (a conversation error, delivered as a notice).              *)
(***************************************************************************)
EXTENDS Naturals, Sequences

CONSTANTS
    Text,         \* what a delivery says
    MaxMessages   \* number of messages of the lane

ASSUME AgentEventsAssumption == MaxMessages \in Nat

Message == 1..MaxMessages

UserEvent(m) == [kind |-> "user", message |-> m]

AgentEvent ==
    [kind : {"send", "final"}, text : Text] \cup [kind : {"error"}]

Event == {UserEvent(m) : m \in Message} \cup AgentEvent

(* bridgeResponseExtractor finds something to deliver.  An event of the      *)
(* agent it finds nothing in is left out.                                    *)
Deliverable(e) == e.kind \in {"send", "final", "error"}
================================================================================
