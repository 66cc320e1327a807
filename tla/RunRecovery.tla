------------------------------ MODULE RunRecovery ------------------------------
(***************************************************************************)
(* What the relay remembers of the last run of a conversation, from the    *)
(* events it has read (runRecovery.ts): whether an answer is due, which    *)
(* actions have no observation, and whether an operator must look at it.   *)
(***************************************************************************)
EXTENDS TaskScheduler, Sequences

CONSTANTS
    Nobody,       \* the sender of a message that no task has sent
    MaxEvents     \* bound on the length of a conversation

ASSUME RunRecoveryAssumption == Nobody \notin Occurrence /\ MaxEvents \in Nat

VARIABLES
    log,        \* the event log of each conversation
    progress    \* relay_runs

(* "toolError" and "interrupted" are both AgentErrorEvents: the answer to a  *)
(* call that failed, and to one that a restart of the server cut off.        *)
EventKind == {"message", "action", "observation", "toolError", "interrupted",
              "finish", "pause", "error"}

Event == [kind : EventKind, of : Occurrence \cup {Nobody}]

Progress == [pending : BOOLEAN, actions : SUBSET (1..MaxEvents), issue : BOOLEAN]

Ev(kind) == [kind |-> kind, of |-> Nobody]

(* The action that the outcome at position p belongs to: actions are made    *)
(* one by one.                                                               *)
ActionOf(c, p) ==
    {q \in 1..(p - 1) :
        /\ log[c][q].kind = "action"
        /\ \A r \in (q + 1)..(p - 1) : log[c][r].kind # "action"}

PendingAfterChat(old, e) ==     \* wrong: only people are owed an answer
    IF e.kind \in {"finish", "pause"} THEN FALSE
    ELSE old \/ (e.kind = "message" /\ e.of = Nobody)

PendingAfterAnswers(old, e) ==  \* wrong: a pause calls nothing off
    IF e.kind = "finish" THEN FALSE ELSE old \/ e.kind = "message"

(* An answer settles what is due, and a person who pauses calls it off. *)
Settling == {"finish", "pause"}

PendingAfter(old, e) ==
    IF e.kind \in Settling THEN FALSE ELSE old \/ e.kind = "message"

ProgressAfterAnyOutcome(c, p) ==   \* wrong: an error takes its action off, too
    LET old == progress[c]
        e == log[c][p]
    IN  [pending |-> PendingAfter(old.pending, e),
         actions |-> CASE e.kind = "action" -> old.actions \cup {p}
                       [] e.kind \in {"observation", "toolError", "interrupted"} ->
                             old.actions \ ActionOf(c, p)
                       [] OTHER -> old.actions,
         issue   |-> old.issue /\ e.kind # "message"]

(* observe.  Only an observation takes its action off the list. *)
ProgressAfter(c, p) ==
    LET old == progress[c]
        e == log[c][p]
    IN  [pending |-> PendingAfter(old.pending, e),
         actions |-> CASE e.kind = "action" -> old.actions \cup {p}
                       [] e.kind = "observation" -> old.actions \ ActionOf(c, p)
                       [] OTHER -> old.actions,
         issue   |-> old.issue /\ e.kind # "message"]

Pending(c) == progress[c].pending /\ ~progress[c].issue

RecoveryTypeOK ==
    /\ log \in [Conversation -> Seq(Event)]
    /\ progress \in [Conversation -> Progress]

RecoveryInit ==
    /\ log = [c \in Conversation |-> <<>>]
    /\ progress = [c \in Conversation |->
                      [pending |-> FALSE, actions |-> {}, issue |-> FALSE]]
================================================================================
