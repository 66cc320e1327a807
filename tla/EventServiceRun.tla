---------------------------- MODULE EventServiceRun ----------------------------
(***************************************************************************)
(* The run chains of the agent server's conversations (eventService.ts),   *)
(* which share the capacity pool of RunAdmission.                          *)
(*                                                                         *)
(* A conversation has at most one chain, the promise `runPromise'.  The    *)
(* program is single-threaded: an action is what happens between two       *)
(* awaits, and anything may happen at an await.  `pc' names the await:     *)
(*   none       no chain                                                   *)
(*   entry      the ticket is published, its body has not started          *)
(*   waiting    acquire: in the queue, aborted, or served and not resumed  *)
(*   preparing  the agent is constructed, or looked up                     *)
(*   stepping   LocalConversation.run, before a step or its end            *)
(*   thinking   in a step of the agent                                     *)
(*   tail       metadata and events of a run are saved and published       *)
(*   failing    the same after a failure                                   *)
(*   settled    the body has ended, its `finally' has not run              *)
(***************************************************************************)
EXTENDS RunAdmission

CONSTANTS
    Conversation,
    MaxIterations,   \* max_iterations of a run
    MaxMessages,     \* bound on the user messages of all conversations
    MaxStops         \* bound on the stops before the last pause

ASSUME EventServiceAssumption ==
    /\ Owner = {"run", "create"} \X Conversation
    /\ MaxIterations \in Nat \ {0}
    /\ MaxMessages \in Nat
    /\ MaxStops \in Nat

VARIABLES
    service,    \* the EventService of each conversation
    requests,   \* sendMessage calls that await their append
    history     \* what clients were told, and what the agent was shown

vars == <<available, waiters, held, service, requests, history>>

Runner(c)  == <<"run", c>>
Creator(c) == <<"create", c>>

(* Messages are numbered in the order of the event log; 0 is none.  `latest' *)
(* is the last user message, `seen' the one the agent's last step began      *)
(* with, and `read' its copy lastStepUserMessageId, taken after a run.       *)
Service ==
    [phase : {"absent", "creating", "open", "closing", "closed"},
     pc : {"none", "entry", "waiting", "preparing", "stepping", "thinking",
           "tail", "failing", "settled"},
     started : Nat, generation : Nat, rerun : BOOLEAN,
     status : {"idle", "running", "paused", "finished", "error"},
     latest : Nat, read : Nat, seen : Nat, iteration : Nat,
     agent : BOOLEAN, pauses : Nat]

Request == [conversation : Conversation, message : Nat, run : BOOLEAN]

(* `known': the last message any step began with.  `accepted': a run was     *)
(* accepted for a message, and no step, stop or failure came since; `owed'   *)
(* is the same but does not count what joined a chain already stopped or     *)
(* failing.  `halted': a pause was asked for or is in force, and no run      *)
(* since.                                                                    *)
History == [known : Nat, accepted : BOOLEAN, owed : BOOLEAN,
            halted : {"no", "asked", "yes"}]

TypeOK ==
    /\ AdmissionTypeOK
    /\ service \in [Conversation -> Service]
    /\ requests \subseteq Request
    /\ history \in [Conversation -> History]

Become(c, s) == service' = [service EXCEPT ![c] = s]

Record(c, h) == history' = [history EXCEPT ![c] = h]

Accepted(c, m, sound) ==
    LET h == history[c]
    IN  Record(c, [h EXCEPT !.accepted = @ \/ m > h.known,
                            !.owed = @ \/ (sound /\ m > h.known),
                            !.halted = "no"])

Settled(h) == [h EXCEPT !.accepted = FALSE, !.owed = FALSE]

Closing(s) == s.phase \in {"closing", "closed"}

StoppedByClosing(s) == Closing(s)   \* wrong: the generation is not looked at

Stopped(s) == Closing(s) \/ s.started # s.generation

NeedsContinuation(s) == s.rerun /\ s.latest # s.read

GiveBack(o) == Release(o) \/ (~Holds(o) /\ UNCHANGED admission)
-------------------------------------------------------------------------------
(* Creating a conversation, under a slot of its own (conversationService.ts). *)

Create(c) ==
    /\ service[c].phase = "absent"
    /\ Fresh(Creator(c))
    /\ TryAcquire(Creator(c))
    /\ Become(c, [service[c] EXCEPT !.phase = "creating"])
    /\ UNCHANGED <<requests, history>>

(* initializeOnCreate. *)
Initialize(c) ==
    /\ service[c].phase = "creating"
    /\ service[c].latest = 0
    /\ Become(c, [service[c] EXCEPT !.agent = TRUE])
    /\ UNCHANGED <<admission, requests, history>>

InitialMessageUnshared(c, run) ==   \* wrong: a second slot out of nowhere
    LET s == [service[c] EXCEPT !.latest = 1]
    IN  /\ s.phase = "creating"
        /\ service[c].latest = 0
        /\ run
        /\ held' = held \cup {{Runner(c)}}
        /\ Become(c, [s EXCEPT !.pc = "entry", !.started = s.generation])
        /\ Accepted(c, 1, TRUE)
        /\ UNCHANGED <<available, waiters, requests>>

(* sendInitialMessage.  The first run shares the slot of the creation. *)
InitialMessage(c, run) ==
    LET s == [service[c] EXCEPT !.latest = 1]
    IN  /\ s.phase = "creating"
        /\ service[c].latest = 0
        /\ \/ ~run /\ Become(c, s) /\ UNCHANGED <<admission, history>>
           \/ /\ run
              /\ Share(Creator(c), Runner(c))
              /\ Become(c, [s EXCEPT !.pc = "entry", !.started = s.generation])
              /\ Accepted(c, 1, TRUE)
        /\ UNCHANGED requests

Created(c) ==
    /\ service[c].phase = "creating"
    /\ Become(c, [service[c] EXCEPT !.phase = "open"])
    /\ UNCHANGED <<admission, requests, history>>

(* cleanupFailedInitialization; the service object is dropped. *)
CreateFails(c) ==
    /\ service[c].phase = "creating"
    /\ service[c].latest = 0
    /\ Become(c, [service[c] EXCEPT !.phase = "absent", !.agent = FALSE])
    /\ UNCHANGED <<admission, requests, history>>

CreatorReleases(c) ==
    /\ service[c].phase # "creating"
    /\ Release(Creator(c))
    /\ UNCHANGED <<service, requests, history>>
-------------------------------------------------------------------------------
(* Requests of clients. *)

Launch(s) == [s EXCEPT !.pc = "entry", !.started = s.generation]

PostUnguarded(c, m, run) ==   \* wrong: a closing conversation takes a run
    LET s == [service[c] EXCEPT !.status = IF @ = "running" THEN @ ELSE "idle"]
    IN  \/ ~run /\ Become(c, s) /\ UNCHANGED <<admission, history>>
        \/ /\ run /\ s.pc = "none"
           /\ TryAcquire(Runner(c))
           /\ Become(c, Launch(s))
           /\ Accepted(c, m, TRUE)
        \/ /\ run /\ s.pc # "none"
           /\ Become(c, [s EXCEPT !.rerun = TRUE])
           /\ Accepted(c, m, ~Stopped(s) /\ s.pc # "failing")
           /\ UNCHANGED admission
        \/ /\ run /\ s.pc = "none" /\ available = 0
           /\ Become(c, s)
           /\ UNCHANGED <<admission, history>>

(* The end of sendMessage, once message m is in the log: the status, and the *)
(* request to run, which launches a chain, joins the chain there is, or is   *)
(* refused for want of a slot or because the conversation is closing.        *)
Post(c, m, run) ==
    LET s == [service[c] EXCEPT !.status = IF @ = "running" THEN @ ELSE "idle"]
    IN  \/ /\ ~run \/ Closing(s) \/ (s.pc = "none" /\ available = 0)
           /\ Become(c, s)
           /\ UNCHANGED <<admission, history>>
        \/ /\ run /\ ~Closing(s) /\ s.pc = "none"
           /\ TryAcquire(Runner(c))
           /\ Become(c, Launch(s))
           /\ Accepted(c, m, TRUE)
        \/ /\ run /\ ~Closing(s) /\ s.pc # "none"
           /\ Become(c, [s EXCEPT !.rerun = TRUE])
           /\ Accepted(c, m, ~Stopped(s) /\ s.pc # "failing")
           /\ UNCHANGED admission

Messages == MapThenSumSet(LAMBDA c : service[c].latest, Conversation)

Stops == MapThenSumSet(LAMBDA c : service[c].generation, Conversation)

SendMessage(c, run) ==
    LET m == service[c].latest + 1
    IN  /\ service[c].phase \in {"open", "closing"}
        /\ Messages < MaxMessages
        /\ Become(c, [service[c] EXCEPT !.latest = m])
        /\ requests' = requests \cup
                          {[conversation |-> c, message |-> m, run |-> run]}
        /\ UNCHANGED <<admission, history>>

(* The append is saved and published. *)
Appended(r) ==
    /\ requests' = requests \ {r}
    /\ Post(r.conversation, r.message, r.run)

(* Saving or publishing failed: the message is in the log, its sender is     *)
(* told of an error and no run is requested.                                 *)
AppendFails(r) ==
    /\ requests' = requests \ {r}
    /\ UNCHANGED <<admission, service, history>>

(* sendMessage with the event id of a message that is in the log. *)
ResendMessage(c, m) ==
    /\ service[c].phase \in {"open", "closing"}
    /\ Post(c, m, TRUE)
    /\ UNCHANGED requests

(* POST /run.  A chain that is there, or no slot, is an error to the client. *)
RequestRun(c) ==
    /\ service[c].phase = "open"
    /\ service[c].pc = "none"
    /\ TryAcquire(Runner(c))
    /\ Become(c, Launch(service[c]))
    /\ Record(c, [history[c] EXCEPT !.halted = "no"])
    /\ UNCHANGED requests

(* stopScheduledWork. *)
StopScheduledWork(c, s) ==
    /\ Become(c, [s EXCEPT !.generation = @ + 1, !.rerun = FALSE])
    /\ IF Waits(Runner(c)) THEN Abort(Runner(c)) ELSE UNCHANGED admission

(* pause and interrupt.  An agent that is there, or on its way, is awaited;  *)
(* otherwise the pause is complete.                                          *)
Pause(c) ==
    LET awaits == service[c].agent \/ service[c].pc = "preparing"
        s      == [service[c] EXCEPT !.pauses = IF awaits THEN @ + 1 ELSE @]
    IN  /\ s.phase \in {"open", "closing"}
        /\ Stops < MaxStops
        /\ StopScheduledWork(c, s)
        /\ Record(c, [Settled(history[c]) EXCEPT
                        !.halted = IF s.pauses > 0 THEN "asked" ELSE "yes"])
        /\ UNCHANGED requests

PauseApplied(c) ==
    /\ service[c].pauses > 0
    /\ service[c].agent \/ service[c].pc # "preparing"
    /\ Become(c, [service[c] EXCEPT !.pauses = @ - 1, !.status = "paused"])
    /\ Record(c, [Settled(history[c]) EXCEPT
                    !.halted = IF @ = "asked" THEN "yes" ELSE @])
    /\ UNCHANGED <<admission, requests>>

Close(c) ==
    /\ service[c].phase = "open"
    /\ StopScheduledWork(c, [service[c] EXCEPT !.phase = "closing"])
    /\ Record(c, Settled(history[c]))
    /\ UNCHANGED requests

(* whenIdle. *)
Closed(c) ==
    /\ service[c].phase = "closing"
    /\ service[c].pc = "none"
    /\ Become(c, [service[c] EXCEPT !.phase = "closed"])
    /\ UNCHANGED <<admission, requests, history>>
-------------------------------------------------------------------------------
(* The chain: runAndPublish, and the `finally' of its ticket. *)

Prepared(s) ==
    [s EXCEPT !.pc = "preparing", !.rerun = FALSE,
              !.status = IF @ = "finished" /\ s.latest # s.read THEN "idle"
                         ELSE @]

(* The top of the loop, up to its first await.  A run without a slot asks    *)
(* for one and resumes from `waiting' even if it got it at once.             *)
Loop(c) ==
    LET s == service[c]
    IN  \/ /\ Stopped(s)
           /\ GiveBack(Runner(c))
           /\ Become(c, [s EXCEPT !.pc = "settled"])
        \/ /\ ~Stopped(s) /\ ~Holds(Runner(c))
           /\ TryAcquire(Runner(c)) \/ Enqueue(Runner(c))
           /\ Become(c, [s EXCEPT !.pc = "waiting"])
        \/ /\ ~Stopped(s) /\ Holds(Runner(c))
           /\ Become(c, Prepared(s))
           /\ UNCHANGED admission

Enter(c) ==
    /\ service[c].pc = "entry"
    /\ Loop(c)
    /\ UNCHANGED <<requests, history>>

ResumeServed(c) ==            \* wrong: an aborted call of acquire is not told
    /\ Holds(Runner(c))
    /\ service[c].pc = "waiting"
    /\ \/ /\ Stopped(service[c])
          /\ Release(Runner(c))
          /\ Become(c, [service[c] EXCEPT !.pc = "settled"])
       \/ /\ ~Stopped(service[c])
          /\ Become(c, Prepared(service[c]))
          /\ UNCHANGED admission
    /\ UNCHANGED <<requests, history>>

(* acquire has resolved: with a slot, which a stop may have come too late to *)
(* refuse, or by its abort.                                                  *)
Resume(c) ==
    LET s == service[c]
    IN  /\ s.pc = "waiting"
        /\ ~Waits(Runner(c))
        /\ \/ /\ Stopped(s) \/ ~Holds(Runner(c))
              /\ GiveBack(Runner(c))
              /\ Become(c, [s EXCEPT !.pc = "settled"])
           \/ /\ ~Stopped(s) /\ Holds(Runner(c))
              /\ Become(c, Prepared(s))
              /\ UNCHANGED admission
        /\ UNCHANGED <<requests, history>>

StartRunLeaking(c) ==         \* wrong: a stop on the way keeps the slot
    LET s == [service[c] EXCEPT !.agent = TRUE]
    IN  /\ s.pc = "preparing"
        /\ Become(c, IF Stopped(s) THEN [s EXCEPT !.pc = "settled"]
                     ELSE [s EXCEPT !.pc = "stepping", !.status = "running"])
        /\ UNCHANGED <<admission, requests, history>>

(* The agent is there: LocalConversation.run is called, unless a stop came   *)
(* in between.  A paused or finished conversation makes no step.             *)
StartRun(c) ==
    LET s == [service[c] EXCEPT !.agent = TRUE,
                                !.seen = IF service[c].agent THEN @ ELSE 0]
    IN  /\ s.pc = "preparing"
        /\ \/ /\ Stopped(s)
              /\ Release(Runner(c))
              /\ Become(c, [s EXCEPT !.pc = "settled"])
           \/ /\ ~Stopped(s)
              /\ Become(c, [s EXCEPT !.pc = "stepping",
                               !.status = IF @ \in {"idle", "error"}
                                          THEN "running" ELSE @])
              /\ UNCHANGED admission
        /\ UNCHANGED <<requests, history>>

(* A step begins with every message in the log. *)
BeginStep(c) ==
    LET s == service[c]
    IN  /\ s.pc = "stepping"
        /\ s.status = "running"
        /\ Become(c, [s EXCEPT !.pc = "thinking", !.seen = s.latest])
        /\ Record(c, [Settled(history[c]) EXCEPT !.known = s.latest])
        /\ UNCHANGED <<admission, requests>>

(* The step replied or finished, or it did not and the agent goes on until   *)
(* the limit.                                                                *)
EndStep(c, finished) ==
    LET s     == service[c]
        limit == s.iteration + 1 >= MaxIterations /\ s.status = "running"
    IN  /\ s.pc = "thinking"
        /\ Become(c, [s EXCEPT !.pc = "stepping", !.iteration = @ + 1,
                         !.status = IF finished THEN "finished"
                                    ELSE IF limit THEN "error" ELSE @])
        /\ UNCHANGED <<admission, requests, history>>

(* The stuck detector ends the run instead of a step; `error' stands for     *)
(* both statuses a run may end with that the next run takes up again.        *)
Stuck(c) ==
    /\ service[c].pc = "stepping"
    /\ service[c].status = "running"
    /\ Become(c, [service[c] EXCEPT !.status = "error"])
    /\ Record(c, Settled(history[c]))
    /\ UNCHANGED <<admission, requests>>

(* LocalConversation.run has returned.  The slot goes back, unless the chain *)
(* has to go on.                                                             *)
EndRun(c) ==
    LET s == [service[c] EXCEPT !.read = service[c].seen]
    IN  /\ s.pc = "stepping"
        /\ s.status # "running"
        /\ Become(c, [s EXCEPT !.pc = "tail", !.iteration = 0])
        /\ IF Stopped(s) \/ ~NeedsContinuation(s) THEN Release(Runner(c))
           ELSE UNCHANGED admission
        /\ UNCHANGED <<requests, history>>

(* Constructing the agent, a step or the step boundary threw.  The last one  *)
(* also drops the agent.                                                     *)
FailRun(c, keepsAgent) ==
    LET s == service[c]
    IN  /\ \/ s.pc \in {"stepping", "thinking"}
           \/ s.pc = "preparing" /\ ~s.agent /\ ~keepsAgent
        /\ Become(c, [s EXCEPT !.pc = "failing", !.rerun = FALSE,
                         !.iteration = 0,
                         !.status = "error", !.agent = s.agent /\ keepsAgent,
                         !.pauses = IF s.pc = "preparing" THEN 0 ELSE @])
        /\ Release(Runner(c))
        /\ Record(c, Settled(history[c]))
        /\ UNCHANGED requests

(* The tail of a run is done: the loop goes round or ends. *)
EndTail(c) ==
    /\ service[c].pc = "tail"
    /\ \/ NeedsContinuation(service[c]) /\ Loop(c)
       \/ /\ ~NeedsContinuation(service[c])
          /\ GiveBack(Runner(c))
          /\ Become(c, [service[c] EXCEPT !.pc = "settled"])
    /\ UNCHANGED <<requests, history>>

(* Saving the metadata or publishing threw. *)
FailTail(c) ==
    /\ service[c].pc \in {"tail", "failing"}
    /\ GiveBack(Runner(c))
    /\ Become(c, [service[c] EXCEPT !.pc = "settled"])
    /\ UNCHANGED <<requests, history>>

EndFailure(c) ==
    /\ service[c].pc = "failing"
    /\ Become(c, [service[c] EXCEPT !.pc = "settled", !.rerun = FALSE])
    /\ UNCHANGED <<admission, requests, history>>

(* No chain; the generation was the chain's own. *)
Idle(s) == [s EXCEPT !.pc = "none", !.started = 0]

SettleForGood(c) ==           \* wrong: what joined the chain late is forgotten
    /\ service[c].pc = "settled"
    /\ Become(c, Idle(service[c]))
    /\ UNCHANGED <<admission, requests, history>>

(* The `finally' of the ticket: a continuation gets a chain of its own,      *)
(* which waits for a slot.                                                   *)
Settle(c) ==
    LET s == service[c]
    IN  /\ s.pc = "settled"
        /\ Become(c, IF ~Stopped(s) /\ NeedsContinuation(s) THEN Launch(s)
                     ELSE Idle(s))
        /\ UNCHANGED <<admission, requests, history>>
-------------------------------------------------------------------------------
Init ==
    /\ AdmissionInit
    /\ service = [c \in Conversation |->
          [phase |-> "absent", pc |-> "none", started |-> 0, generation |-> 0,
           rerun |-> FALSE, status |-> "idle", latest |-> 0, read |-> 0,
           seen |-> 0, iteration |-> 0, agent |-> FALSE, pauses |-> 0]]
    /\ requests = {}
    /\ history = [c \in Conversation |->
          [known |-> 0, accepted |-> FALSE, owed |-> FALSE, halted |-> "no"]]

CreateStep(c) ==
    \/ Initialize(c) \/ Created(c) \/ CreateFails(c) \/ CreatorReleases(c)
    \/ \E run \in BOOLEAN : InitialMessage(c, run)

ClientStep(c) ==
    \/ Create(c)
    \/ \E run \in BOOLEAN : SendMessage(c, run)
    \/ \E m \in 1..service[c].latest : ResendMessage(c, m)
    \/ RequestRun(c) \/ Pause(c) \/ Close(c)

RequestStep == \E r \in requests : Appended(r) \/ AppendFails(r)

ChainStep(c) ==
    \/ Enter(c) \/ Resume(c) \/ StartRun(c) \/ BeginStep(c) \/ Stuck(c)
    \/ \E b \in BOOLEAN : EndStep(c, b) \/ FailRun(c, b)
    \/ EndRun(c) \/ EndTail(c) \/ FailTail(c) \/ EndFailure(c) \/ Settle(c)

Next ==
    \/ RequestStep
    \/ \E c \in Conversation :
          \/ CreateStep(c) \/ ClientStep(c) \/ ChainStep(c)
          \/ PauseApplied(c) \/ Closed(c)

Spec == Init /\ [][Next]_vars

(* Every await of the server itself ends; clients are not obliged to act.    *)
Fairness ==
    \A c \in Conversation :
        /\ WF_vars(ChainStep(c))
        /\ WF_vars(CreateStep(c))
        /\ WF_vars(PauseApplied(c))
        /\ WF_vars(Closed(c))

FairSpec == Spec /\ Fairness
-------------------------------------------------------------------------------
(* Properties. *)

(* Work is done under a slot and under nothing else: a run that prepares or  *)
(* steps has one, a chain that has ended has none, and no handle or place in *)
(* the queue outlives its chain, whichever of the breaks, failures and late  *)
(* stops of runAndPublish ended it.                                          *)
SlotsMatchWork ==
    \A c \in Conversation :
        LET s == service[c]
        IN  /\ s.pc \in {"preparing", "stepping", "thinking"} => Holds(Runner(c))
            /\ s.pc \in {"none", "failing", "settled"} => ~Holds(Runner(c))
            /\ Waits(Runner(c)) => s.pc = "waiting" /\ ~Stopped(s)
            /\ ~Waits(Creator(c))

(* A conversation that is closed does nothing more, also for requests that   *)
(* were on their way (run, close, whenIdle).                                 *)
ClosedIsQuiet ==
    \A c \in Conversation :
        service[c].phase = "closed" =>
            service[c].pc = "none" /\ ~Holds(Runner(c)) /\ ~Waits(Runner(c))

(* Once a pause has taken effect the agent begins no step until a run is     *)
(* asked for again, wherever in the chain the pause found it (the generation *)
(* and status tests of runAndPublish and LocalConversation.run).             *)
PauseHolds ==
    [][\A c \in Conversation :
          history[c].halted = "yes" /\ service'[c].pc = "thinking"
          => service[c].pc = "thinking" \/ history'[c].halted # "yes"]_vars

(* A message whose run was accepted is shown to the agent, unless a stop or  *)
(* a failure of the run follows: no wakeup is lost between a chain that ends *)
(* and a message that joins it (rerunRequested, needsContinuation).          *)
Answered ==
    \A c \in Conversation :
        history[c].owed ~> ~history[c].owed

(* "Accepted continuations wait for capacity; pause, interrupt and close     *)
(* cancel queued work" (README.md of the server): what is accepted after a   *)
(* pause would run as well.  A chain that was stopped, or is failing, drops  *)
(* what joins it.                                                            *)
AcceptedRuns ==
    \A c \in Conversation :
        history[c].accepted ~> ~history[c].accepted

(* Closing comes to an end: no chain waits for a slot or a stop for ever     *)
(* (close, whenIdle, the abort of capacityWaiter).                           *)
CloseEnds ==
    \A c \in Conversation :
        service[c].phase = "closing" ~> service[c].phase = "closed"
================================================================================
