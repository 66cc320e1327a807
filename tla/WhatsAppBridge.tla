----------------------------- MODULE WhatsAppBridge -----------------------------
(***************************************************************************)
(* How the messages of a WhatsApp chat become prompts (adapter.ts,         *)
(* ledger.ts): the ledger numbers them as they arrive, a poll takes what   *)
(* was not dispatched yet, splits it at the commands and has each part     *)
(* accepted by the relay, with everything the agent has not seen so far.   *)
(* The ledger and the relay's store are two databases: a part is accepted  *)
(* first and marked then, and the process may die in between.              *)
(*                                                                         *)
(* Of several chats one is followed; the cat's own messages, which every   *)
(* query leaves out, are left out.                                         *)
(***************************************************************************)
EXTENDS RelayRuntime, FiniteSetsExt

CONSTANTS
    MaxMessages,   \* bound on the messages of the chat
    MaxStops       \* bound on orderly stops

ASSUME WhatsAppAssumption == MaxMessages \in Nat /\ MaxStops \in Nat

VARIABLES
    bridge,       \* the process and its ledger are up, stopping or down
    kinds,        \* messages: by ledger sequence, what each one is
    dispatched,   \* the highest sequence marked as dispatched
    seen,         \* sequences marked as seen by the agent
    young,        \* the latest message is younger than the debounce time
    poll,         \* what the poll awaits
    stops         \* orderly stops so far

ledgerVars == <<kinds, dispatched, seen>>
vars == <<runtimeVars, faults, bridge, ledgerVars, young, poll, stops>>

(* An addressed message wants an answer, an ambient one is only context. *)
Kind == {"addressed", "ambient", "command"}

(* at: "next": the segment that todo begins with is next.  "prompt": the     *)
(* prompt that shows `batch' is built.  "accepted", "marked": the segment    *)
(* was accepted, and marked as seen.                                         *)
Poll == [at : {"rest", "next", "prompt", "accepted", "marked"},
         todo : SUBSET (1..MaxMessages), batch : SUBSET (1..MaxMessages)]

TypeOK ==
    /\ RuntimeTypeOK
    /\ bridge \in {"up", "stopping", "down"}
    /\ kinds \in Seq(Kind) /\ Len(kinds) <= MaxMessages
    /\ dispatched \in 0..Len(kinds)
    /\ seen \subseteq DOMAIN kinds
    /\ young \in BOOLEAN
    /\ poll \in Poll
    /\ stops \in 0..MaxStops

Rest == [at |-> "rest", todo |-> {}, batch |-> {}]
-------------------------------------------------------------------------------
(* The ledger.  A message that arrives again keeps its sequence and marks.   *)

Store(kind) ==
    /\ bridge # "down"
    /\ Len(kinds) < MaxMessages
    /\ kinds' = Append(kinds, kind)
    /\ young' \in BOOLEAN
    /\ UNCHANGED <<runtimeVars, faults, bridge, dispatched, seen, poll, stops>>

GrowOld ==
    /\ young /\ young' = FALSE
    /\ UNCHANGED <<runtimeVars, faults, bridge, ledgerVars, poll, stops>>

Fresh == (dispatched + 1)..Len(kinds)

Unseen(last) == (1..last) \ seen

IsCommand(n) == kinds[n] = "command"

(* splitCommandBatches, one segment at a time. *)
Segment(todo) ==
    IF IsCommand(Min(todo)) THEN {Min(todo)}
    ELSE {n \in todo : \A k \in todo : k <= n => ~IsCommand(k)}
-------------------------------------------------------------------------------
(* A poll (pollChat). *)

Current == Segment(poll.todo)
Last == Max(Current)
AtSegment == poll.at = "next" /\ poll.todo # {}
CommandNext == IsCommand(Last)
Addressed == \E n \in Current : kinds[n] = "addressed"

StartPoll ==
    /\ bridge = "up" /\ phase = "running"
    /\ poll = Rest
    /\ Fresh # {} /\ ~young
    /\ poll' = [Rest EXCEPT !.at = "next", !.todo = Fresh]
    /\ UNCHANGED <<runtimeVars, faults, bridge, ledgerVars, young, stops>>

DispatchedAll == Max(poll.todo)   \* wrong: the whole of the poll counts as dispatched

DispatchedNow == Last

NextSegment ==
    /\ dispatched' = DispatchedNow
    /\ poll' = [Rest EXCEPT !.at = "next", !.todo = poll.todo \ Current]

PassOver ==
    /\ AtSegment /\ ~CommandNext /\ ~Addressed
    /\ NextSegment
    /\ UNCHANGED <<runtimeVars, faults, bridge, kinds, seen, young, stops>>

ReadTranscript ==
    /\ AtSegment /\ ~CommandNext /\ Addressed
    /\ poll' = [poll EXCEPT
                  !.at = "prompt",
                  !.batch = IF Unseen(Last) # {} THEN Unseen(Last) ELSE Current]
    /\ UNCHANGED <<runtimeVars, faults, bridge, ledgerVars, young, stops>>

AcceptSegment ==
    /\ poll.at = "prompt" \/ (AtSegment /\ CommandNext)
    /\ Accept([source |-> Last, command |-> CommandNext, batch |-> poll.batch])
    /\ poll' = [poll EXCEPT !.at = "accepted"]
    /\ UNCHANGED <<bridge, ledgerVars, young, stops>>

SeenUpToLast == seen \cup 1..Last    \* wrong: a command is context for itself

SeenLastOnly == seen \cup {Last}     \* wrong: the messages before it are shown again

SeenNow == seen \cup (IF CommandNext THEN {Last} ELSE 1..Last)

MarkSeen ==
    /\ poll.at = "accepted"
    /\ seen' = SeenNow
    /\ poll' = [poll EXCEPT !.at = "marked"]
    /\ UNCHANGED <<runtimeVars, faults, bridge, kinds, dispatched, young, stops>>

MarkDispatched ==
    /\ poll.at = "marked"
    /\ NextSegment
    /\ UNCHANGED <<runtimeVars, faults, bridge, kinds, seen, young, stops>>

EndPoll ==
    /\ poll.at = "next" /\ poll.todo = {}
    /\ poll' = Rest
    /\ UNCHANGED <<runtimeVars, faults, bridge, ledgerVars, young, stops>>

(* Reading an attachment, the relay's store or the ledger fails: the next    *)
(* poll tries again.                                                         *)
PollFails ==
    /\ poll # Rest
    /\ Fault
    /\ poll' = Rest
    /\ UNCHANGED <<runtimeVars, bridge, ledgerVars, young, stops>>
-------------------------------------------------------------------------------
(* The bridge. *)

StopBridge ==
    /\ bridge = "up" /\ stops < MaxStops
    /\ bridge' = "stopping" /\ stops' = stops + 1
    /\ UNCHANGED <<runtimeVars, faults, ledgerVars, young, poll>>

StopRuntime ==
    /\ bridge = "stopping" /\ poll = Rest
    /\ Stop
    /\ UNCHANGED <<bridge, ledgerVars, young, poll, stops>>

CloseBridge ==
    /\ bridge = "stopping" /\ poll = Rest /\ phase = "none"
    /\ bridge' = "down"
    /\ UNCHANGED <<runtimeVars, faults, ledgerVars, young, poll, stops>>

(* The service manager starts the process again. *)
StartBridge ==
    /\ bridge = "down"
    /\ bridge' = "up"
    /\ UNCHANGED <<runtimeVars, faults, ledgerVars, young, poll, stops>>

(* WhatsApp reports the socket open (startRuntime). *)
SocketOpens ==
    /\ bridge = "up"
    /\ Start
    /\ UNCHANGED <<bridge, ledgerVars, young, poll, stops>>

Crash ==
    /\ bridge # "down"
    /\ Fault
    /\ bridge' = "down" /\ poll' = Rest
    /\ phase' = "none" /\ tick' = "none" /\ commands' = {}
    /\ UNCHANGED <<accepted, queue, ledgerVars, young, stops>>

Init ==
    /\ RuntimeInit
    /\ bridge = "down"
    /\ kinds = <<>> /\ dispatched = 0 /\ seen = {}
    /\ young = FALSE /\ poll = Rest /\ stops = 0

bridgeVars == <<bridge, ledgerVars, young, poll, stops>>

PollStep ==
    \/ PassOver \/ ReadTranscript \/ AcceptSegment \/ MarkSeen \/ MarkDispatched \/ EndPoll

BridgeStep == StopRuntime \/ CloseBridge \/ StartBridge \/ SocketOpens

Next ==
    \/ \E kind \in Kind : Store(kind)
    \/ GrowOld \/ StartPoll \/ PollStep \/ PollFails
    \/ BridgeStep \/ StopBridge \/ Crash
    \/ ((RuntimeStep \/ FailTick) /\ UNCHANGED bridgeVars)

Spec == Init /\ [][Next]_vars

(* Timers fire, awaits end, the socket opens and the service manager keeps   *)
(* the process alive.                                                        *)
Fairness ==
    /\ WF_vars(GrowOld) /\ WF_vars(StartPoll) /\ WF_vars(PollStep) /\ WF_vars(BridgeStep)
    /\ WF_vars(TimerFires /\ UNCHANGED bridgeVars)
    /\ WF_vars((Integrate \/ EndIntake \/ EndTick) /\ UNCHANGED bridgeVars)
    /\ WF_vars(CloseDatabases /\ UNCHANGED bridgeVars)
    /\ WF_vars((\E i \in commands : EndCommand(i)) /\ UNCHANGED bridgeVars)

FairSpec == Spec /\ Fairness
-------------------------------------------------------------------------------
(* Nothing uses a database that was closed: when stop is through no tick     *)
(* and no command is under way, though a command may begin in the last tick, *)
(* and no poll outlives the bridge (RelayRuntime.stop, WhatsAppBridge.stop). *)
ClosedIsAtRest ==
    /\ phase = "none" => tick = "none" /\ commands = {}
    /\ bridge = "down" => phase = "none" /\ poll = Rest

(* With an answer to a message the agent has got everything that was said    *)
(* before it in the chat, also what nobody addressed to it, what stood       *)
(* before a command, and what a crash or a failure interrupted (pollChat,    *)
(* markCommandSeen).                                                         *)
ContextComplete ==
    \A i \in accepted : ~i.command =>
        \A n \in 1..i.source : IsCommand(n) \/ \E j \in accepted : n \in j.batch

(* A message is shown to the agent once, and once more for a crash or        *)
(* failure between the acceptance and the marks (pollChat).                  *)
ShownOnce ==
    \A n \in DOMAIN kinds :
        Cardinality({i \in accepted : n \in i.batch}) <= 1 + faults

(* Every message that wants an answer, and every command, gets to the agent, *)
(* whatever crashes, failures and stops there are on the way (pollOnce,      *)
(* RelayRuntime.accept, start).                                              *)
HandedOver(n) ==
    \E i \in accepted :
        /\ i.source = n \/ n \in i.batch
        /\ \A k \in DOMAIN queue : queue[k] # i

WantedIsHandedOver ==
    \A n \in 1..MaxMessages :
        n \in DOMAIN kinds /\ kinds[n] # "ambient" ~> n \in DOMAIN kinds /\ HandedOver(n)
================================================================================
