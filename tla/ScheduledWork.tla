----------------------------- MODULE ScheduledWork -----------------------------
(***************************************************************************)
(* A scheduled task from its time to its result: the tick of the relay     *)
(* (RelayRuntime.tick) submits reserved runs as messages, reads the events *)
(* of each conversation, from which the scheduler and the recovery learn,  *)
(* and has interrupted runs resumed or parked; the agent server runs the   *)
(* conversations and may crash in between, as may the relay; a person may  *)
(* pause a conversation, and the agent may get stuck in it.                *)
(*                                                                         *)
(* The way of a message into the log is that of module RelayIntake and     *)
(* the run that follows that of EventServiceRun: here each is one step.    *)
(***************************************************************************)
EXTENDS RunRecovery

CONSTANTS
    MaxChat,     \* bound on messages of people
    MaxActions,  \* bound on actions of the agent
    MaxPauses,   \* bound on pauses by people
    MaxFaults    \* bound on crashes, restarts and failures

ASSUME ScheduledWorkAssumption ==
    {MaxChat, MaxActions, MaxPauses, MaxFaults} \subseteq Nat

VARIABLES
    tick,     \* what the tick awaits
    batch,    \* the runs that due has returned
    synced,   \* conversations read to the end in this tick
    intake,   \* the intake row of each run
    cursor,   \* events that were read
    agent,    \* the agent of each conversation
    faults    \* disturbances so far

schedulerVars == <<now, task, run, commands>>
recoveryVars == <<log, progress>>
tickVars == <<tick, batch, synced>>
allVars == <<schedulerVars, recoveryVars, tickVars, intake, cursor, agent, faults>>

AgentStatus == {"idle", "running", "paused", "finished", "error", "stuck"}

(* The execution status; the events the last call has read (none since the   *)
(* server started: there is no agent); whether a pause came during a step    *)
(* that is not over yet.                                                     *)
Agent == [status : AgentStatus, read : Nat, stopping : BOOLEAN]

(* at: "mark": run `of' was accepted as a message and is to be marked.       *)
(* "read": event `next' of the page that ends at `high'.  "status": the      *)
(* execution status was received.                                            *)
Tick == [at : {"rest", "mark", "read", "status"},
         of : Occurrence \cup Conversation \cup {Nobody},
         next : Nat, high : Nat, status : AgentStatus \cup {""}]

WorkTypeOK ==
    /\ TypeOK
    /\ RecoveryTypeOK
    /\ tick \in Tick
    /\ batch \subseteq Occurrence
    /\ synced \subseteq Conversation
    /\ intake \in [Occurrence -> {"none", "waiting", "posted", "failed"}]
    /\ \A c \in Conversation : cursor[c] \in 0..Len(log[c]) /\ Len(log[c]) < MaxEvents
    /\ agent \in [Conversation -> Agent]
    /\ faults \in 0..MaxFaults

Rest == [at |-> "rest", of |-> Nobody, next |-> 0, high |-> 0, status |-> ""]

Fault == faults < MaxFaults /\ faults' = faults + 1

Logged(kind) ==
    {x \in Conversation \X (1..MaxEvents) :
        x[2] \in DOMAIN log[x[1]] /\ log[x[1]][x[2]].kind = kind}
-------------------------------------------------------------------------------
(* The tick: scheduled runs. *)

StartTick ==
    /\ tick = Rest /\ batch = {} /\ synced = {}
    /\ \E S \in SUBSET Task : Reserve(S)
    /\ batch' = {o \in Occurrence : run'[o] = "ready" /\ task'[o.task].status = "active"}
    /\ UNCHANGED <<recoveryVars, tick, synced, intake, cursor, agent, faults>>

AcceptedTwice(o) ==            \* wrong: the source key is not looked up
    intake' = [intake EXCEPT ![o] = "waiting"]

(* acceptInbound: the message of a run has one source key. *)
Accepted(o) ==
    intake' = [intake EXCEPT ![o] = IF @ = "none" THEN "waiting" ELSE @]

Submit(o) ==
    /\ tick = Rest /\ o \in batch
    /\ \A q \in batch : o.at <= q.at
    /\ Accepted(o)
    /\ tick' = [Rest EXCEPT !.at = "mark", !.of = o]
    /\ UNCHANGED <<schedulerVars, recoveryVars, batch, synced, cursor, agent, faults>>

MarkEnqueued ==
    /\ tick.at = "mark"
    /\ Enqueued(tick.of)
    /\ batch' = batch \ {tick.of}
    /\ tick' = Rest
    /\ UNCHANGED <<recoveryVars, synced, intake, cursor, agent, faults>>
-------------------------------------------------------------------------------
(* The tick: events (syncDeliveryOutbox, onEvent). *)

StartRead(c) ==
    /\ tick = Rest /\ batch = {}
    /\ c \notin synced
    /\ log[c] # <<>>
    /\ tick' = [Rest EXCEPT !.at = "read", !.of = c,
                            !.next = cursor[c] + 1, !.high = Len(log[c])]
    /\ UNCHANGED <<schedulerVars, recoveryVars, batch, synced, intake, cursor,
                   agent, faults>>

(* What the scheduler makes of an event. *)
Meaning(e) ==
    CASE e.kind = "message" -> "message"
      [] e.kind = "finish" -> "reply"
      [] e.kind \in {"toolError", "interrupted", "error"} -> "failure"
      [] OTHER -> "nothing"

ReadEvent ==
    /\ tick.at = "read" /\ tick.next <= tick.high
    /\ LET c == tick.of
           e == log[c][tick.next]
       IN  /\ Observe(c, Meaning(e), e.of, FALSE)
           /\ progress' = [progress EXCEPT ![c] = ProgressAfter(c, tick.next)]
    /\ tick' = [tick EXCEPT !.next = @ + 1]
    /\ UNCHANGED <<log, batch, synced, intake, cursor, agent, faults>>

NextCursorAtEnd == Len(log[tick.of])   \* wrong: the log grew since the page was read

NextCursor == tick.high

EndRead ==
    /\ tick.at = "read" /\ tick.next > tick.high
    /\ cursor' = [cursor EXCEPT ![tick.of] = NextCursor]
    /\ synced' = synced \cup {tick.of}
    /\ tick' = Rest
    /\ UNCHANGED <<schedulerVars, recoveryVars, batch, intake, agent, faults>>
-------------------------------------------------------------------------------
(* The tick: recovery.  What was read in this tick is up to date; the status *)
(* is asked for afterwards.                                                  *)

AskStatus(c) ==
    /\ tick = Rest /\ c \in synced
    /\ synced' = synced \ {c}
    /\ tick' = IF Pending(c)
               THEN [Rest EXCEPT !.at = "status", !.of = c,
                                 !.status = agent[c].status]
               ELSE tick
    /\ UNCHANGED <<schedulerVars, recoveryVars, batch, intake, cursor, agent, faults>>

MustPark ==
    \/ tick.status = "error"
    \/ tick.status = "idle" /\ progress[tick.of].actions # {}

Park ==
    /\ tick.at = "status" /\ MustPark
    /\ progress' = [progress EXCEPT ![tick.of].issue = TRUE]
    /\ Observe(tick.of, "failure", Nobody, progress[tick.of].actions # {})
    /\ tick' = Rest
    /\ UNCHANGED <<log, batch, synced, intake, cursor, agent, faults>>

Unread(c) ==
    \E p \in DOMAIN log[c] : p > agent[c].read /\ log[c][p].kind = "message"

(* The call may find the conversation at work again; a paused one, or one    *)
(* that has answered everything, makes no step.                              *)
Resumed(c) ==
    agent' = [agent EXCEPT ![c] =
                IF /\ ~@.stopping
                   /\ \/ @.status \in {"idle", "error", "stuck"}
                      \/ @.status = "finished" /\ Unread(c)
                THEN [status |-> "running", read |-> Len(log[c]), stopping |-> FALSE]
                ELSE @]

ResumeRun ==
    /\ tick.at = "status" /\ ~MustPark
    /\ IF tick.status = "idle" THEN Resumed(tick.of) ELSE UNCHANGED agent
    /\ tick' = Rest
    /\ UNCHANGED <<schedulerVars, recoveryVars, batch, synced, intake, cursor, faults>>

(* A call of the tick fails: of a conversation's events, or of its status.   *)
CallFails ==
    /\ tick.at \in {"read", "status"}
    /\ Fault
    /\ tick' = Rest
    /\ UNCHANGED <<schedulerVars, recoveryVars, batch, synced, intake, cursor, agent>>

RelayCrash ==
    /\ tick # Rest \/ batch # {}
    /\ Fault
    /\ tick' = Rest /\ batch' = {} /\ synced' = {}
    /\ UNCHANGED <<schedulerVars, recoveryVars, intake, cursor, agent>>
-------------------------------------------------------------------------------
(* The conversations. *)

Say(c, e) ==
    /\ Len(log[c]) < MaxEvents
    /\ log' = [log EXCEPT ![c] = Append(@, e)]

(* A message starts a run, or is read by the one that is under way, unless   *)
(* that one was paused and only ends its step.                               *)
Hear(c) ==
    agent' = [agent EXCEPT ![c] =
                IF @.status = "running" THEN @
                ELSE IF @.stopping THEN [@ EXCEPT !.status = "idle"]
                ELSE [status |-> "running", read |-> Len(log'[c]), stopping |-> FALSE]]

Post(o) ==
    /\ intake[o] = "waiting"
    /\ ~\E q \in Occurrence : Conv(q) = Conv(o) /\ intake[q] = "failed"
    /\ intake' = [intake EXCEPT ![o] = "posted"]
    /\ Say(Conv(o), [kind |-> "message", of |-> o])
    /\ Hear(Conv(o))
    /\ UNCHANGED <<schedulerVars, progress, tickVars, cursor, faults>>

PostFails(o) ==
    /\ intake[o] = "waiting"
    /\ Fault
    /\ intake' = [intake EXCEPT ![o] = "failed"]
    /\ UNCHANGED <<schedulerVars, recoveryVars, tickVars, cursor, agent>>

Chat ==
    /\ Cardinality({x \in Logged("message") : log[x[1]][x[2]].of = Nobody}) < MaxChat
    /\ Say(Home, Ev("message"))
    /\ Hear(Home)
    /\ UNCHANGED <<schedulerVars, progress, tickVars, intake, cursor, faults>>

Acting(c) ==
    \E p \in DOMAIN log[c] :
        /\ log[c][p].kind = "action"
        /\ \A q \in (p + 1)..Len(log[c]) :
              log[c][q].kind \notin {"observation", "toolError", "interrupted"}

AtWork(c) == agent[c].status = "running" \/ agent[c].stopping

Act(c) ==
    /\ AtWork(c) /\ ~Acting(c)
    /\ Cardinality(Logged("action")) < MaxActions
    /\ Say(c, Ev("action"))
    /\ UNCHANGED <<schedulerVars, progress, tickVars, intake, cursor, agent, faults>>

(* The next step reads what is in the log; after a pause there is none.      *)
Outcome(c) ==
    /\ AtWork(c) /\ Acting(c)
    /\ \E kind \in {"observation", "toolError"} : Say(c, Ev(kind))
    /\ agent' = [agent EXCEPT ![c] =
                   IF @.stopping THEN [@ EXCEPT !.stopping = FALSE]
                   ELSE [@ EXCEPT !.read = Len(log'[c])]]
    /\ UNCHANGED <<schedulerVars, progress, tickVars, intake, cursor, faults>>

(* A run that finds messages it has not read goes on. *)
Finish(c) ==
    /\ AtWork(c) /\ ~Acting(c)
    /\ Say(c, Ev("finish"))
    /\ agent' = [agent EXCEPT ![c] =
                   IF @.stopping
                   THEN [@ EXCEPT !.status = "finished", !.stopping = FALSE]
                   ELSE [@ EXCEPT !.status = IF Unread(c) THEN "running" ELSE "finished",
                                  !.read = Len(log'[c])]]
    /\ UNCHANGED <<schedulerVars, progress, tickVars, intake, cursor, faults>>

(* The pause came between two steps. *)
Stopped(c) ==
    /\ agent[c].stopping /\ ~Acting(c)
    /\ agent' = [agent EXCEPT ![c].stopping = FALSE]
    /\ UNCHANGED <<schedulerVars, recoveryVars, tickVars, intake, cursor, faults>>

Break(c) ==
    /\ AtWork(c) /\ ~Acting(c)
    /\ Fault
    /\ Say(c, Ev("error"))
    /\ agent' = [agent EXCEPT ![c].status = "error", ![c].stopping = FALSE]
    /\ UNCHANGED <<schedulerVars, progress, tickVars, intake, cursor>>

(* The stuck detector finds that the steps since the last message repeat     *)
(* themselves, and ends the run instead of a step: no event tells of it.     *)
GetStuck(c) ==
    /\ agent[c].status = "running"
    /\ log[c] # <<>>
    /\ log[c][Len(log[c])].kind \in {"observation", "toolError", "interrupted"}
    /\ agent' = [agent EXCEPT ![c].status = "stuck"]
    /\ UNCHANGED <<schedulerVars, recoveryVars, tickVars, intake, cursor, faults>>

(* pause and interrupt, called by a person.  The step under way goes on;     *)
(* where there is no agent only the event is logged.                         *)
Halt(c) ==
    /\ Cardinality(Logged("pause")) < MaxPauses
    /\ log[c] # <<>>
    /\ Say(c, Ev("pause"))
    /\ agent' = [agent EXCEPT ![c] =
                   IF @.read = 0 THEN @
                   ELSE [@ EXCEPT !.status = "paused",
                                  !.stopping = AtWork(c)]]
    /\ UNCHANGED <<schedulerVars, progress, tickVars, intake, cursor, faults>>

RestoredAsTheyAre(c) ==          \* wrong: no outcome is recorded
    [log |-> log[c], agent |-> [status |-> "idle", read |-> 0, stopping |-> FALSE]]

(* Restored conversations are idle, but for one whose tool was cut off       *)
(* (loadPersistedConversations, recoverInterruptedTools).                    *)
Restored(c) ==
    IF Acting(c)
    THEN [log |-> Append(log[c], Ev("interrupted")),
          agent |-> [status |-> "error", read |-> 0, stopping |-> FALSE]]
    ELSE [log |-> log[c], agent |-> [status |-> "idle", read |-> 0, stopping |-> FALSE]]

ServerRestart ==
    /\ Fault
    /\ log' = [c \in Conversation |-> Restored(c).log]
    /\ agent' = [c \in Conversation |-> Restored(c).agent]
    /\ UNCHANGED <<schedulerVars, progress, tickVars, intake, cursor>>
-------------------------------------------------------------------------------
WorkInit ==
    /\ Init /\ RecoveryInit
    /\ tick = Rest /\ batch = {} /\ synced = {}
    /\ intake = [o \in Occurrence |-> "none"]
    /\ cursor = [c \in Conversation |-> 0]
    /\ agent = [c \in Conversation |-> [status |-> "idle", read |-> 0, stopping |-> FALSE]]
    /\ faults = 0

TickStep ==
    \/ StartTick \/ MarkEnqueued \/ ReadEvent \/ EndRead \/ Park \/ ResumeRun
    \/ \E o \in Occurrence : Submit(o)
    \/ \E c \in Conversation : StartRead(c) \/ AskStatus(c)

AgentStep(c) == Outcome(c) \/ Finish(c) \/ Stopped(c)

WorkNext ==
    \/ (Edit \/ Clock) /\ UNCHANGED <<recoveryVars, tickVars, intake, cursor, agent, faults>>
    \/ TickStep \/ CallFails \/ RelayCrash
    \/ \E o \in Occurrence : Post(o) \/ PostFails(o)
    \/ \E c \in Conversation : AgentStep(c) \/ Act(c) \/ Break(c) \/ GetStuck(c) \/ Halt(c)
    \/ Chat \/ ServerRestart

WorkSpec == WorkInit /\ [][WorkNext]_allVars

(* The timer repeats the tick; its calls are answered or fail; the agent     *)
(* comes to an end; accepted messages are delivered; time passes.            *)
Fairness ==
    /\ WF_allVars(Clock /\ UNCHANGED <<recoveryVars, tickVars, intake, cursor, agent, faults>>)
    /\ SF_allVars(StartTick)
    /\ WF_allVars(\E o \in Occurrence : Submit(o))
    /\ WF_allVars(MarkEnqueued \/ ReadEvent \/ EndRead \/ Park \/ ResumeRun)
    /\ \A c \in Conversation :
          /\ SF_allVars(StartRead(c)) /\ WF_allVars(AskStatus(c))
          /\ WF_allVars(AgentStep(c))
    /\ \A o \in Occurrence : WF_allVars(Post(o))

FairSpec == WorkSpec /\ Fairness
-------------------------------------------------------------------------------
(* The message of an occurrence appears once in its conversation, whatever   *)
(* the crashes between its acceptance and the mark (due, acceptInbound).     *)
PostedOnce ==
    \A c \in Conversation : \A p, q \in DOMAIN log[c] :
        p # q /\ log[c][p].of # Nobody => log[c][p].of # log[c][q].of

(* A run starts and ends by what its conversation says: its message is in    *)
(* the log (observe).                                                        *)
SettledWasPosted ==
    \A o \in Occurrence : run[o] \in {"started", "done", "failed"} =>
        \E p \in DOMAIN log[Conv(o)] : log[Conv(o)][p].of = o

(* The recovery resumes a run only where every action has its outcome, so    *)
(* that none is repeated (RunRecovery, recoverInterruptedTools).             *)
NoActionRepeated ==
    [][\A c \in Conversation :
          agent[c].status # "running" /\ agent'[c].status = "running" =>
              ~Acting(c)]_allVars

(* The scheduler in its surroundings does what it does alone: whatever       *)
(* events, crashes and recoveries reach it, its store only takes the steps   *)
(* of its own transactions (module TaskScheduler).                           *)
SchedulerSpec == Spec

(* How far a conversation was read. *)
Reached(c) ==
    IF tick.at = "read" /\ tick.of = c THEN tick.next - 1 ELSE cursor[c]

Observed(c, p) ==
    \E q \in (p + 1)..Len(log[c]) :
        log[c][q].kind = "observation" /\ p \in ActionOf(c, q)

(* What was read is remembered until it is settled, though pages are read    *)
(* again after a crash and the log grows meanwhile: a message until an       *)
(* answer or a pause follows it, an action until its observation (observe).  *)
RecoveryRemembers ==
    \A c \in Conversation : \A p \in 1..Reached(c) :
        /\ log[c][p].kind = "message" =>
              \/ progress[c].pending
              \/ \E q \in (p + 1)..Len(log[c]) : log[c][q].kind \in Settling
        /\ log[c][p].kind = "action" => p \in progress[c].actions \/ Observed(c, p)

(* "The relay resumes idle interrupted requests when all observed tool       *)
(* actions have outcomes" (docs/bridges.md): no call resumes a conversation  *)
(* where an action that was read has none, though its outcome in the log may *)
(* be an error and the conversation idle after a restart.                    *)
ResumesOnlyObserved ==
    [][tick.at = "status" /\ tick' = Rest /\ agent' # agent =>
          \A p \in 1..cursor[tick.of] :
              log[tick.of][p].kind = "action" => Observed(tick.of, p)]_allVars

(* A message of the conversation could not be delivered, the last thing said *)
(* there was a person's pause, or the agent is stuck.                        *)
LeftToPeople(c) ==
    \/ \E o \in Occurrence : Conv(o) = c /\ intake[o] = "failed"
    \/ \E p \in DOMAIN log[c] :
          /\ log[c][p].kind = "pause"
          /\ \A q \in (p + 1)..Len(log[c]) : log[c][q].kind # "message"
    \/ agent[c].status = "stuck"

(* The first k events leave a message without an answer, and not paused.     *)
Owed(c, k) ==
    \E p \in 1..k :
        /\ log[c][p].kind = "message"
        /\ \A q \in (p + 1)..k : log[c][q].kind \notin Settling

(* "Explicit pauses are respected" (docs/bridges.md), and answers are: a call *)
(* resumes a conversation only for a message among the events that were read *)
(* which neither an answer nor a pause has followed there, though pages are   *)
(* read again and a restart leaves nothing of a pause but its event.          *)
ResumesOnlyOwed ==
    [][tick.at = "status" /\ tick' = Rest /\ agent' # agent =>
          Owed(tick.of, cursor[tick.of])]_allVars

(* What was submitted ends, though the server or the relay may crash while   *)
(* it runs and people may pause the conversation and talk in it (RunRecovery,*)
(* RelayRuntime.tick), unless the conversation is left to people for good:   *)
(* no step of the relay takes up one that is paused or stuck.                *)
SubmittedRunsEnd ==
    \A o \in Occurrence :
        \/ <>[]LeftToPeople(Conv(o))
        \/ run[o] \in {"enqueued", "started"} ~> ~Open(o)

(* "An action without an observation may already have acted: park that run   *)
(* for reconciliation and pause its scheduled task" (docs/bridges.md).       *)
InterruptedPausesTask ==
    \A o \in Occurrence :
        LET c == Conv(o)
        IN  /\ progress[c].issue /\ progress[c].actions # {}
            /\ run[o] = "failed" /\ task[o.task].kind = "recurring"
            => task[o.task].status # "active"
================================================================================
