-------------------------- MODULE ScheduledWorkProofs --------------------------
(***************************************************************************)
(* Scheduled work for any tasks, messages, actions, crashes and restarts:  *)
(* the scheduler in its surroundings implements the scheduler alone, so    *)
(* that what TaskSchedulerProofs shows of it holds here, too; a run is     *)
(* posted once, and settled only when it was; the recovery forgets nothing *)
(* that it has read, and resumes only where every action has its outcome.  *)
(***************************************************************************)
EXTENDS ScheduledWork, TaskSchedulerProofs

(* The parts of the types that the argument needs.  No bound on the length   *)
(* of a conversation is among them: a restart may exceed MaxEvents.          *)
WorkTypes ==
    /\ log \in [Conversation -> Seq(Event)]
    /\ progress \in [Conversation -> [pending : BOOLEAN, actions : SUBSET Nat,
                                      issue : BOOLEAN]]
    /\ cursor \in [Conversation -> Nat]
    /\ \A c \in Conversation : cursor[c] <= Len(log[c])
    /\ synced \subseteq Conversation
    /\ intake \in [Occurrence -> {"none", "waiting", "posted", "failed"}]
    /\ agent \in [Conversation -> Agent]

(* What the tick awaits: the rest of a page that lies beyond the cursor.     *)
TickSound ==
    /\ tick.at \in {"rest", "mark", "read", "status"}
    /\ tick.at = "rest" => tick = Rest
    /\ tick.at = "read" =>
           /\ tick.of \in Conversation
           /\ tick.next \in Nat /\ tick.high \in Nat
           /\ cursor[tick.of] < tick.next /\ tick.next <= tick.high + 1
           /\ tick.high <= Len(log[tick.of])
    /\ tick.at = "status" => tick.of \in Conversation

(* A message of a run is in the conversation of the run, and its row says    *)
(* that it was posted.                                                       *)
SendersSound ==
    \A c \in Conversation : \A p \in DOMAIN log[c] :
        LET o == log[c][p].of
        IN  o # Nobody => Conv(o) = c /\ intake[o] = "posted"

(* A conversation at rest has an outcome for each of its actions; one that   *)
(* was paused in the middle of an action is not at rest.                     *)
RestingSound == \A c \in Conversation : ~AtWork(c) => ~Acting(c)

WorkSound ==
    /\ WorkTypes /\ TickSound /\ SendersSound /\ RestingSound
    /\ PostedOnce /\ SettledWasPosted /\ RecoveryRemembers

WorkInv == Inv /\ WorkSound
-------------------------------------------------------------------------------
(* The scheduler's part: every step is one of its own, or leaves it alone.   *)

LEMMA ConvType ==
    ASSUME NEW o \in Occurrence
    PROVE  Conv(o) \in Conversation
BY DEF Conv, Conversation

(* What no run of the conversation has started for changes nothing. *)
LEMMA ObserveIsNext ==
    ASSUME TypeOK, NEW c, NEW o, NEW reconcile \in BOOLEAN,
           NEW what \in {"message", "reply", "failure", "nothing"},
           what = "message" => reconcile = FALSE,
           Observe(c, what, o, reconcile)
    PROVE  [Next]_vars
<1> DEFINE settled == {q \in Occurrence : Settles(q, c, what)}
<1>1. /\ run' = [q \in Occurrence |->
                   CASE q \in settled -> IF what = "reply" THEN "done" ELSE "failed"
                     [] what = "message" /\ q = o /\ Open(q) -> "started"
                     [] OTHER -> run[q]]
      /\ task' = [t \in Task |->
                   IF \E q \in settled : q.task = t
                   THEN RowAfter(task[t], reconcile) ELSE task[t]]
      /\ UNCHANGED <<now, commands>>
  BY DEF Observe
<1>2. run = [q \in Occurrence |-> run[q]] /\ task = [t \in Task |-> task[t]]
  BY DEF TypeOK
<1>3. CASE what = "message" /\ o \in Occurrence /\ Open(o)
  <2>1. settled = {}
    BY <1>3 DEF Settles, Ending
  <2>2. {q \in Occurrence : Settles(q, Conv(o), what)} = {}
    BY <1>3 DEF Settles, Ending
  <2>3. Observe(Conv(o), "message", o, FALSE)
    BY <1>1, <1>3, <2>1, <2>2 DEF Observe
  <2>4. o \in Known
    BY <1>3 DEF Known, Open
  <2> QED
    BY <2>3, <2>4 DEF Next
<1>4. CASE settled # {}
  <2>1. PICK q \in Occurrence : Settles(q, c, what)
    BY <1>4
  <2>2. q \in Known /\ Conv(q) = c /\ what \in Ending
    BY <2>1 DEF Settles, Known
  <2>3. Observe(Conv(q), what, q, reconcile)
    BY <2>2 DEF Observe, Ending
  <2> QED
    BY <2>2, <2>3 DEF Next
<1>5. CASE settled = {} /\ ~(what = "message" /\ o \in Occurrence /\ Open(o))
  <2>1. run' = [q \in Occurrence |-> run[q]]
    BY <1>1, <1>5
  <2>2. task' = [t \in Task |-> task[t]]
    BY <1>1, <1>5
  <2> QED
    BY <1>1, <1>2, <2>1, <2>2 DEF vars
<1> QED
  BY <1>3, <1>4, <1>5

LEMMA EnqueuedIsNext ==
    ASSUME TypeOK, NEW o, Enqueued(o)
    PROVE  [Next]_vars
<1>1. CASE o \in Known
  BY <1>1 DEF Next
<1>2. CASE o \notin Known
  BY <1>2 DEF Enqueued, Known, TypeOK, vars
<1> QED
  BY <1>1, <1>2

LEMMA StepOfScheduler ==
    ASSUME TypeOK, [WorkNext]_allVars
    PROVE  [Next]_vars
<1>1. CASE Edit \/ Clock
  BY <1>1 DEF Next
<1>2. CASE StartTick
  BY <1>2 DEF StartTick, Next
<1>3. CASE MarkEnqueued
  BY <1>3, EnqueuedIsNext DEF MarkEnqueued
<1>4. CASE ReadEvent
  <2> DEFINE e == log[tick.of][tick.next]
  <2>1. Observe(tick.of, Meaning(e), e.of, FALSE)
    BY <1>4 DEF ReadEvent
  <2>2. Meaning(e) \in {"message", "reply", "failure", "nothing"}
    BY DEF Meaning
  <2> HIDE DEF e
  <2> QED
    BY <2>1, <2>2, ObserveIsNext
<1>5. CASE Park
  <2>1. Observe(tick.of, "failure", Nobody, progress[tick.of].actions # {})
    BY <1>5 DEF Park
  <2> QED
    BY <2>1, ObserveIsNext
<1>6. CASE UNCHANGED schedulerVars
  BY <1>6 DEF schedulerVars, vars
<1>7. ASSUME NEW o, Submit(o) \/ Post(o) \/ PostFails(o) PROVE UNCHANGED schedulerVars
  BY <1>7 DEF Submit, Post, PostFails
<1>8. ASSUME NEW c, \/ StartRead(c) \/ AskStatus(c) \/ AgentStep(c)
                    \/ Act(c) \/ Break(c) \/ GetStuck(c) \/ Halt(c)
      PROVE  UNCHANGED schedulerVars
  BY <1>8 DEF StartRead, AskStatus, AgentStep, Outcome, Finish, Stopped, Act, Break,
     GetStuck, Halt
<1>9. ASSUME EndRead \/ ResumeRun \/ CallFails \/ RelayCrash \/ Chat \/ ServerRestart
             \/ UNCHANGED allVars
      PROVE  UNCHANGED schedulerVars
  BY <1>9 DEF EndRead, ResumeRun, CallFails, RelayCrash, Chat, ServerRestart, allVars
<1> QED
  BY <1>1, <1>2, <1>3, <1>4, <1>5, <1>6, <1>7, <1>8, <1>9 DEF WorkNext, TickStep
-------------------------------------------------------------------------------
(* Conversations that grow. *)

Grown ==
    \A c \in Conversation :
        log'[c] = log[c] \/ \E e \in Event : log'[c] = Append(log[c], e)

LEMMA Prefix ==
    ASSUME WorkTypes, Grown, NEW c \in Conversation
    PROVE  /\ log[c] \in Seq(Event) /\ log'[c] \in Seq(Event)
           /\ Len(log[c]) \in Nat /\ Len(log'[c]) \in Nat /\ Len(log[c]) <= Len(log'[c])
           /\ \A p \in 1..Len(log[c]) : log'[c][p] = log[c][p]
<1>1. log[c] \in Seq(Event)
  BY DEF WorkTypes
<1>2. CASE log'[c] = log[c]
  BY <1>1, <1>2
<1>3. ASSUME NEW e \in Event, log'[c] = Append(log[c], e)
      PROVE  /\ log'[c] \in Seq(Event) /\ Len(log'[c]) = Len(log[c]) + 1
             /\ \A p \in 1..Len(log[c]) : log'[c][p] = log[c][p]
  BY <1>1, <1>3
<1> QED
  BY <1>1, <1>2, <1>3 DEF Grown

LEMMA ObservedStays ==
    ASSUME WorkTypes, Grown, NEW c \in Conversation, NEW p \in Nat, Observed(c, p)
    PROVE  Observed(c, p)'
<1>1. PICK q \in (p + 1)..Len(log[c]) : log[c][q].kind = "observation" /\ p \in ActionOf(c, q)
  BY DEF Observed
<1>2. /\ Len(log[c]) \in Nat /\ Len(log'[c]) \in Nat /\ Len(log[c]) <= Len(log'[c])
      /\ \A r \in 1..Len(log[c]) : log'[c][r] = log[c][r]
  BY Prefix
<1>3. q \in (p + 1)..Len(log'[c]) /\ log'[c][q] = log[c][q] /\ q - 1 \in Nat /\ q \in Nat
  BY <1>2
<1>4. \A r \in 1..(q - 1) : log'[c][r] = log[c][r]
  BY <1>2
<1>5. p \in ActionOf(c, q)'
  BY <1>1, <1>3, <1>4 DEF ActionOf
<1> QED
  BY <1>1, <1>3, <1>5 DEF Observed

(* Of what was read nothing is forgotten when conversations grow, and less   *)
(* counts as read when the rest of a page is dropped.                        *)
LEMMA RemembersMore ==
    ASSUME WorkTypes, TickSound, RecoveryRemembers, Grown,
           \A c \in Conversation : Reached(c)' <= Reached(c) /\ Reached(c)' \in Nat,
           \A c \in Conversation : /\ progress'[c].pending = progress[c].pending
                                   /\ progress'[c].actions = progress[c].actions
    PROVE  RecoveryRemembers'
<1> SUFFICES ASSUME NEW c \in Conversation, NEW p \in 1..Reached(c)'
             PROVE  /\ log'[c][p].kind = "message" =>
                          \/ progress'[c].pending
                          \/ \E q \in (p + 1)..Len(log'[c]) : log'[c][q].kind \in Settling
                    /\ log'[c][p].kind = "action" =>
                          p \in progress'[c].actions \/ Observed(c, p)'
  BY DEF RecoveryRemembers
<1>1. /\ Len(log[c]) \in Nat /\ Len(log'[c]) \in Nat /\ Len(log[c]) <= Len(log'[c])
      /\ \A r \in 1..Len(log[c]) : log'[c][r] = log[c][r]
  BY Prefix
<1>2. Reached(c) <= Len(log[c]) /\ Reached(c) \in Nat
  BY <1>1 DEF Reached, TickSound, WorkTypes
<1>3. p \in 1..Reached(c) /\ p \in 1..Len(log[c]) /\ log'[c][p] = log[c][p]
  BY <1>1, <1>2
<1>4. log[c][p].kind = "message" =>
         \/ progress[c].pending
         \/ \E q \in (p + 1)..Len(log'[c]) : log'[c][q].kind \in Settling
  BY <1>1, <1>3 DEF RecoveryRemembers
<1>5. log[c][p].kind = "action" => p \in progress[c].actions \/ Observed(c, p)'
  BY <1>3, ObservedStays DEF RecoveryRemembers
<1> QED
  BY <1>3, <1>4, <1>5

(* Actions and their outcomes: what follows an outcome is at rest, and only  *)
(* an action ends that.                                                      *)
LEMMA RestAfter ==
    ASSUME NEW c \in Conversation, log[c] \in Seq(Event), NEW e \in Event,
           log'[c] = Append(log[c], e),
           \/ e.kind \in {"observation", "toolError", "interrupted"}
           \/ e.kind # "action" /\ ~Acting(c)
    PROVE  ~Acting(c)'
<1> DEFINE n == Len(log[c])
           Outcomes == {"observation", "toolError", "interrupted"}
<1>1. /\ n \in Nat /\ DOMAIN log[c] = 1..n
      /\ Len(log'[c]) = n + 1 /\ DOMAIN log'[c] = 1..(n + 1) /\ log'[c][n + 1] = e
      /\ \A p \in 1..n : log'[c][p] = log[c][p]
  OBVIOUS
<1> SUFFICES ASSUME NEW p \in 1..(n + 1), log'[c][p].kind = "action",
                    \A q \in (p + 1)..(n + 1) : log'[c][q].kind \notin Outcomes
             PROVE  FALSE
  BY <1>1 DEF Acting
<1> HIDE DEF n
<1>2. p # n + 1
  BY <1>1
<1>3. p \in 1..n /\ n + 1 \in (p + 1)..(n + 1)
  BY <1>1, <1>2
<1>4. e.kind \notin Outcomes
  BY <1>1, <1>3
<1>5. PICK q \in (p + 1)..n : log[c][q].kind \in Outcomes
  BY <1>1, <1>3, <1>4 DEF Acting, n
<1>6. q \in (p + 1)..(n + 1) /\ q \in 1..n
  BY <1>1, <1>3
<1> QED
  BY <1>1, <1>5, <1>6

LEMMA RestingStays ==
    ASSUME RestingSound, WorkTypes,
           \A c \in Conversation :
              \/ log'[c] = log[c] /\ (AtWork(c) => AtWork(c)' \/ ~Acting(c))
              \/ AtWork(c)'
              \/ \E e \in Event :
                    /\ log'[c] = Append(log[c], e)
                    /\ \/ e.kind \in {"observation", "toolError", "interrupted"}
                       \/ e.kind # "action" /\ ~Acting(c)
    PROVE  RestingSound'
<1> SUFFICES ASSUME NEW c \in Conversation, ~AtWork(c)'
             PROVE  ~Acting(c)'
  BY DEF RestingSound
<1>1. CASE log'[c] = log[c] /\ (AtWork(c) => ~Acting(c))
  BY <1>1 DEF RestingSound, Acting
<1>2. ASSUME NEW e \in Event, log'[c] = Append(log[c], e),
             \/ e.kind \in {"observation", "toolError", "interrupted"}
             \/ e.kind # "action" /\ ~Acting(c)
      PROVE  ~Acting(c)'
  BY <1>2, RestAfter DEF WorkTypes
<1> QED
  BY <1>1, <1>2

(* The senders of a conversation that grows by events of the agent's. *)
LEMMA SendersStay ==
    ASSUME WorkTypes, SendersSound, PostedOnce, Grown,
           \A c \in Conversation :
              log'[c] = log[c] \/ \E kind \in EventKind : log'[c] = Append(log[c], Ev(kind)),
           \A o : intake[o] = "posted" => intake'[o] = "posted"
    PROVE  SendersSound' /\ PostedOnce'
<1>1. ASSUME NEW c \in Conversation, NEW p \in DOMAIN log'[c], log'[c][p].of # Nobody
      PROVE  p \in DOMAIN log[c] /\ log'[c][p] = log[c][p]
  <2>1. CASE log'[c] = log[c]
    BY <2>1
  <2>2. ASSUME NEW kind \in EventKind, log'[c] = Append(log[c], Ev(kind))
        PROVE  p \in DOMAIN log[c] /\ log'[c][p] = log[c][p]
    <3>1. log[c] \in Seq(Event)
      BY DEF WorkTypes
    <3>2. p \in 1..(Len(log[c]) + 1) /\ (p = Len(log[c]) + 1 => log'[c][p] = Ev(kind))
      BY <2>2, <3>1
    <3>3. p # Len(log[c]) + 1
      BY <1>1, <3>2 DEF Ev
    <3> QED
      BY <2>2, <3>1, <3>2, <3>3
  <2> QED
    BY <2>1, <2>2
<1>2. SendersSound'
  BY <1>1 DEF SendersSound
<1>3. PostedOnce'
  BY <1>1 DEF PostedOnce
<1> QED
  BY <1>2, <1>3

LEMMA SettledStays ==
    ASSUME WorkTypes, SettledWasPosted, Grown,
           \A o \in Occurrence : run'[o] \in {"started", "done", "failed"} =>
              \/ run[o] \in {"started", "done", "failed"}
              \/ \E p \in DOMAIN log[Conv(o)] : log[Conv(o)][p].of = o
    PROVE  SettledWasPosted'
<1> SUFFICES ASSUME NEW o \in Occurrence, run'[o] \in {"started", "done", "failed"}
             PROVE  \E p \in DOMAIN log'[Conv(o)] : log'[Conv(o)][p].of = o
  BY DEF SettledWasPosted
<1>1. PICK p \in DOMAIN log[Conv(o)] : log[Conv(o)][p].of = o
  BY DEF SettledWasPosted
<1>2. /\ DOMAIN log[Conv(o)] = 1..Len(log[Conv(o)])
      /\ DOMAIN log'[Conv(o)] = 1..Len(log'[Conv(o)])
      /\ \A q \in 1..Len(log[Conv(o)]) : log'[Conv(o)][q] = log[Conv(o)][q]
      /\ Len(log[Conv(o)]) \in Nat /\ Len(log'[Conv(o)]) \in Nat
      /\ Len(log[Conv(o)]) <= Len(log'[Conv(o)])
  BY ConvType, Prefix
<1> QED
  BY <1>1, <1>2
-------------------------------------------------------------------------------
(* The conversations. *)

LEMMA EvType ==
    ASSUME NEW kind \in EventKind
    PROVE  Ev(kind) \in Event /\ Ev(kind).kind = kind /\ Ev(kind).of = Nobody
BY DEF Ev, Event

LEMMA SayTypes ==
    ASSUME WorkTypes, NEW c \in Conversation, NEW e \in Event, Say(c, e),
           UNCHANGED <<progress, synced, cursor>>,
           intake' \in [Occurrence -> {"none", "waiting", "posted", "failed"}],
           agent' \in [Conversation -> Agent]
    PROVE  /\ Grown /\ WorkTypes'
           /\ log'[c] = Append(log[c], e) /\ \A d \in Conversation : d # c => log'[d] = log[d]
<1>1. log' = [log EXCEPT ![c] = Append(log[c], e)]
  BY DEF Say
<1>2. /\ log' \in [Conversation -> Seq(Event)] /\ log'[c] = Append(log[c], e)
      /\ \A d \in Conversation : d # c => log'[d] = log[d]
  BY <1>1 DEF WorkTypes
<1>3. Grown
  BY <1>2 DEF Grown
<1>4. \A d \in Conversation : Len(log[d]) <= Len(log'[d]) /\ Len(log[d]) \in Nat
                              /\ Len(log'[d]) \in Nat
  BY <1>3, Prefix
<1> QED
  BY <1>2, <1>3, <1>4 DEF WorkTypes

LEMMA TickStays ==
    ASSUME WorkTypes, TickSound, Grown, UNCHANGED <<tick, cursor>>
    PROVE  /\ TickSound'
           /\ \A c \in Conversation : Reached(c)' <= Reached(c) /\ Reached(c)' \in Nat
<1>1. \A c \in Conversation : Len(log[c]) \in Nat /\ Len(log'[c]) \in Nat
                              /\ Len(log[c]) <= Len(log'[c])
  BY Prefix
<1>2. TickSound'
  BY <1>1 DEF TickSound, WorkTypes
<1>3. \A c \in Conversation : Reached(c)' = Reached(c) /\ Reached(c) \in Nat
  BY DEF Reached, TickSound, WorkTypes
<1> QED
  BY <1>2, <1>3

(* The agent, or a person, adds an event to a conversation. *)
LEMMA SayPreserves ==
    ASSUME WorkSound, NEW c \in Conversation, NEW kind \in EventKind, Say(c, Ev(kind)),
           UNCHANGED <<schedulerVars, progress, tickVars, intake, cursor>>,
           agent' \in [Conversation -> Agent],
           \A d \in Conversation : d # c => agent'[d] = agent[d],
           \/ AtWork(c)'
           \/ kind \in {"observation", "toolError", "interrupted"}
           \/ kind # "action" /\ ~Acting(c)
    PROVE  WorkSound'
<1> USE DEF WorkSound, tickVars, schedulerVars
<1>1. /\ Grown /\ WorkTypes'
      /\ log'[c] = Append(log[c], Ev(kind)) /\ \A d \in Conversation : d # c => log'[d] = log[d]
  BY EvType, SayTypes DEF WorkTypes
<1>2. TickSound' /\ RecoveryRemembers'
  BY <1>1, TickStays, RemembersMore
<1>3. SendersSound' /\ PostedOnce'
  BY <1>1, SendersStay
<1>4. SettledWasPosted'
  BY <1>1, SettledStays
<1>5. RestingSound'
  BY <1>1, EvType, RestingStays DEF AtWork
<1> QED
  BY <1>1, <1>2, <1>3, <1>4, <1>5

(* Whoever hears a message is at work: it starts, or ends a step.            *)
LEMMA HearSound ==
    ASSUME WorkTypes, NEW c \in Conversation, Hear(c), Len(log'[c]) \in Nat
    PROVE  /\ agent' \in [Conversation -> Agent]
           /\ \A d \in Conversation : d # c => agent'[d] = agent[d]
           /\ AtWork(c)'
<1>1. agent \in [Conversation -> Agent] /\ agent[c] \in Agent
  BY DEF WorkTypes
<1> DEFINE old == agent[c]
           new == IF old.status = "running" THEN old
                  ELSE IF old.stopping THEN [old EXCEPT !.status = "idle"]
                  ELSE [status |-> "running", read |-> Len(log'[c]), stopping |-> FALSE]
<1>2. agent' = [agent EXCEPT ![c] = new]
  BY DEF Hear
<1>3. new \in Agent /\ (new.status = "running" \/ new.stopping)
  BY <1>1 DEF Agent, AgentStatus
<1> HIDE DEF new
<1> QED
  BY <1>1, <1>2, <1>3 DEF AtWork

LEMMA ChatPreserves ==
    ASSUME WorkSound, Chat
    PROVE  WorkSound'
<1>1. Home \in Conversation /\ "message" \in EventKind
  BY DEF Conversation, EventKind
<1>2. Say(Home, Ev("message")) /\ Hear(Home)
  BY DEF Chat
<1>3. log'[Home] \in Seq(Event)
  BY <1>1, <1>2, EvType DEF Say, WorkSound, WorkTypes
<1>4. Len(log'[Home]) \in Nat
  BY <1>3
<1>5. /\ agent' \in [Conversation -> Agent]
      /\ \A d \in Conversation : d # Home => agent'[d] = agent[d]
      /\ AtWork(Home)'
  BY <1>1, <1>2, <1>4, HearSound DEF WorkSound
<1>6. UNCHANGED <<schedulerVars, progress, tickVars, intake, cursor>>
  BY DEF Chat
<1> QED
  BY <1>1, <1>2, <1>5, <1>6, SayPreserves

LEMMA AgentPreserves ==
    ASSUME WorkSound, NEW c \in Conversation,
           Outcome(c) \/ Finish(c) \/ Act(c) \/ Break(c) \/ Halt(c)
    PROVE  WorkSound'
<1>1. {"action", "observation", "toolError", "finish", "error", "pause"} \subseteq EventKind
  BY DEF EventKind
<1>2. ASSUME NEW kind \in EventKind, Say(c, Ev(kind)) PROVE Len(log'[c]) \in Nat
  <2>1. log'[c] \in Seq(Event)
    BY <1>2, EvType DEF Say, WorkSound, WorkTypes
  <2> QED
    BY <2>1
<1>3. /\ agent \in [Conversation -> Agent] /\ agent[c] \in Agent
      /\ agent[c].status \in AgentStatus /\ agent[c].read \in Nat
      /\ agent[c].stopping \in BOOLEAN
  BY DEF WorkSound, WorkTypes, Agent
(* What remains to be shown of an action is what the agent becomes. *)
<1>4. ASSUME NEW new \in Agent, agent' = [agent EXCEPT ![c] = new],
             NEW kind \in EventKind, Say(c, Ev(kind)),
             UNCHANGED <<schedulerVars, progress, tickVars, intake, cursor>>,
             \/ new.status = "running" \/ new.stopping
             \/ kind \in {"observation", "toolError", "interrupted"}
             \/ kind # "action" /\ ~Acting(c)
      PROVE  WorkSound'
  <2>1. /\ agent' \in [Conversation -> Agent] /\ agent'[c] = new
        /\ \A d \in Conversation : d # c => agent'[d] = agent[d]
    BY <1>3, <1>4
  <2> QED
    BY <1>4, <2>1, SayPreserves DEF AtWork
<1>5. CASE Act(c)
  <2>1. agent' = [agent EXCEPT ![c] = agent[c]]
    BY <1>3, <1>5 DEF Act
  <2> QED
    BY <1>1, <1>3, <1>4, <1>5, <2>1 DEF Act, AtWork
<1>6. CASE Outcome(c)
  <2>1. PICK kind \in {"observation", "toolError"} : Say(c, Ev(kind))
    BY <1>6 DEF Outcome
  <2> DEFINE new == IF agent[c].stopping THEN [agent[c] EXCEPT !.stopping = FALSE]
                    ELSE [agent[c] EXCEPT !.read = Len(log'[c])]
  <2>2. agent' = [agent EXCEPT ![c] = new]
    BY <1>6 DEF Outcome
  <2>3. new \in Agent
    BY <1>1, <1>2, <1>3, <2>1 DEF Agent
  <2> HIDE DEF new
  <2> QED
    BY <1>1, <1>4, <1>6, <2>1, <2>2, <2>3 DEF Outcome
<1>7. CASE Finish(c)
  <2> DEFINE new == IF agent[c].stopping
                    THEN [agent[c] EXCEPT !.status = "finished", !.stopping = FALSE]
                    ELSE [agent[c] EXCEPT
                            !.status = IF Unread(c) THEN "running" ELSE "finished",
                            !.read = Len(log'[c])]
  <2>1. Say(c, Ev("finish")) /\ ~Acting(c) /\ Len(log'[c]) \in Nat
        /\ agent' = [agent EXCEPT ![c] = new]
    BY <1>1, <1>2, <1>7 DEF Finish
  <2>2. new \in Agent
    BY <1>3, <2>1 DEF Agent, AgentStatus
  <2> HIDE DEF new
  <2> QED
    BY <1>1, <1>4, <1>7, <2>1, <2>2 DEF Finish
<1>8. CASE Break(c)
  <2> DEFINE new == [agent[c] EXCEPT !.status = "error", !.stopping = FALSE]
  <2>1. agent' = [agent EXCEPT ![c] = new]
    BY <1>3, <1>8 DEF Break
  <2>2. new \in Agent
    BY <1>3 DEF Agent, AgentStatus
  <2> HIDE DEF new
  <2> QED
    BY <1>1, <1>4, <1>8, <2>1, <2>2 DEF Break
<1>9. CASE Halt(c)
  <2> DEFINE new == IF agent[c].read = 0 THEN agent[c]
                    ELSE [agent[c] EXCEPT !.status = "paused", !.stopping = AtWork(c)]
  <2>1. agent' = [agent EXCEPT ![c] = new]
    BY <1>9 DEF Halt
  <2>2. new \in Agent /\ (AtWork(c) => new.status = "running" \/ new.stopping)
    BY <1>3 DEF Agent, AgentStatus, AtWork
  <2>3. \/ new.status = "running" \/ new.stopping \/ ~Acting(c)
    BY <2>2 DEF WorkSound, RestingSound
  <2> HIDE DEF new
  <2> QED
    BY <1>1, <1>4, <1>9, <2>1, <2>2, <2>3 DEF Halt
<1> QED
  BY <1>5, <1>6, <1>7, <1>8, <1>9

LEMMA PostPreserves ==
    ASSUME WorkSound, NEW o \in Occurrence, Post(o)
    PROVE  WorkSound'
<1> DEFINE c == Conv(o)
           e == [kind |-> "message", of |-> o]
<1> USE DEF WorkSound, tickVars, schedulerVars
<1>1. /\ c \in Conversation /\ e \in Event /\ Say(c, e) /\ Hear(c)
      /\ UNCHANGED <<schedulerVars, progress, tickVars, cursor, faults>>
      /\ intake[o] = "waiting" /\ intake' = [intake EXCEPT ![o] = "posted"]
  BY ConvType DEF Post, Event, EventKind
<1> HIDE DEF c
<1>2. log'[c] \in Seq(Event) /\ Len(log'[c]) \in Nat
  <2>1. log'[c] = Append(log[c], e) /\ log[c] \in Seq(Event)
    BY <1>1 DEF Say, WorkTypes
  <2> QED
    BY <1>1, <2>1
<1>3. /\ agent' \in [Conversation -> Agent]
      /\ \A d \in Conversation : d # c => agent'[d] = agent[d]
      /\ AtWork(c)'
  BY <1>1, <1>2, HearSound
<1>4. /\ intake' \in [Occurrence -> {"none", "waiting", "posted", "failed"}]
      /\ \A q : intake[q] = "posted" => intake'[q] = "posted"
      /\ intake'[o] = "posted"
  BY <1>1 DEF WorkTypes
<1>5. /\ Grown /\ WorkTypes'
      /\ log'[c] = Append(log[c], e) /\ \A d \in Conversation : d # c => log'[d] = log[d]
  BY <1>1, <1>3, <1>4, SayTypes
<1>6. TickSound' /\ RecoveryRemembers'
  BY <1>1, <1>5, TickStays, RemembersMore
<1>7. SettledWasPosted'
  BY <1>1, <1>5, SettledStays
<1>8. RestingSound'
  BY <1>3, <1>5, RestingStays DEF AtWork
<1>9. /\ log[c] \in Seq(Event) /\ Len(log[c]) \in Nat /\ DOMAIN log[c] = 1..Len(log[c])
      /\ DOMAIN log'[c] = 1..(Len(log[c]) + 1) /\ log'[c][Len(log[c]) + 1] = e
      /\ \A p \in DOMAIN log[c] : log'[c][p] = log[c][p]
  BY <1>1, <1>5 DEF WorkTypes
<1>10. o # Nobody /\ \A d \in Conversation : \A p \in DOMAIN log[d] : log[d][p].of # o
  BY <1>1, RunRecoveryAssumption DEF SendersSound
<1>11. SendersSound'
  <2> SUFFICES ASSUME NEW d \in Conversation, NEW p \in DOMAIN log'[d],
                      log'[d][p].of # Nobody
               PROVE  Conv(log'[d][p].of) = d /\ intake'[log'[d][p].of] = "posted"
    BY DEF SendersSound
  <2>1. CASE d = c /\ p = Len(log[c]) + 1
    BY <1>4, <1>9, <2>1 DEF c
  <2>2. CASE ~(d = c /\ p = Len(log[c]) + 1)
    <3>1. p \in DOMAIN log[d] /\ log'[d][p] = log[d][p]
      BY <1>5, <1>9, <2>2
    <3> QED
      BY <1>4, <3>1 DEF SendersSound
  <2> QED
    BY <2>1, <2>2
<1>12. PostedOnce'
  <2> SUFFICES ASSUME NEW d \in Conversation, NEW p \in DOMAIN log'[d],
                      NEW q \in DOMAIN log'[d], p # q, log'[d][p].of # Nobody
               PROVE  log'[d][p].of # log'[d][q].of
    BY DEF PostedOnce
  <2>1. CASE d # c
    BY <1>5, <2>1 DEF PostedOnce
  <2>2. CASE d = c /\ p \in DOMAIN log[c] /\ q \in DOMAIN log[c]
    BY <1>9, <2>2 DEF PostedOnce
  <2>3. CASE d = c /\ (p \notin DOMAIN log[c] \/ q \notin DOMAIN log[c])
    <3>1. \/ p = Len(log[c]) + 1 /\ q \in DOMAIN log[c]
          \/ q = Len(log[c]) + 1 /\ p \in DOMAIN log[c]
      BY <1>9, <2>3
    <3> QED
      BY <1>1, <1>9, <1>10, <2>3, <3>1
  <2> QED
    BY <2>1, <2>2, <2>3
<1> QED
  BY <1>5, <1>6, <1>7, <1>8, <1>11, <1>12

LEMMA RestartPreserves ==
    ASSUME WorkSound, ServerRestart
    PROVE  WorkSound'
<1> USE DEF WorkSound, tickVars, schedulerVars
<1>1. /\ log' = [c \in Conversation |-> Restored(c).log]
      /\ agent' = [c \in Conversation |-> Restored(c).agent]
      /\ UNCHANGED <<schedulerVars, progress, tickVars, intake, cursor>>
  BY DEF ServerRestart
<1>2. "interrupted" \in EventKind /\ Ev("interrupted") \in Event
      /\ Ev("interrupted").kind = "interrupted"
  BY EvType DEF EventKind
<1>3. \A c \in Conversation :
         \/ Acting(c) /\ log'[c] = Append(log[c], Ev("interrupted"))
         \/ ~Acting(c) /\ log'[c] = log[c]
  BY <1>1 DEF Restored
<1>4. Grown
  BY <1>2, <1>3 DEF Grown
<1>5. WorkTypes'
  <2>1. \A c \in Conversation : Len(log[c]) <= Len(log'[c]) /\ log'[c] \in Seq(Event)
                                /\ Len(log[c]) \in Nat /\ Len(log'[c]) \in Nat
    BY <1>4, Prefix
  <2>2. log' \in [Conversation -> Seq(Event)]
    BY <1>1, <2>1
  <2>3. agent' \in [Conversation -> Agent]
    BY <1>1 DEF Restored, Agent, AgentStatus
  <2> QED
    BY <1>1, <2>1, <2>2, <2>3 DEF WorkTypes
<1>6. TickSound' /\ RecoveryRemembers'
  BY <1>1, <1>4, TickStays, RemembersMore
<1>7. SendersSound' /\ PostedOnce'
  BY <1>1, <1>2, <1>3, <1>4, SendersStay
<1>8. SettledWasPosted'
  BY <1>1, <1>4, SettledStays
<1>9. RestingSound'
  <2> SUFFICES ASSUME NEW c \in Conversation PROVE ~Acting(c)'
    BY DEF RestingSound
  <2>1. CASE log'[c] = Append(log[c], Ev("interrupted"))
    BY <1>2, <2>1, RestAfter DEF WorkTypes
  <2>2. CASE ~Acting(c) /\ log'[c] = log[c]
    BY <2>2 DEF Acting
  <2> QED
    BY <1>3, <2>1, <2>2
<1> QED
  BY <1>5, <1>6, <1>7, <1>8, <1>9
-------------------------------------------------------------------------------
(* Steps that leave the conversations alone. *)

(* The runs that have started, or have ended after that. *)
Begun(status) == status \in {"started", "done", "failed"}

LEMMA EditBegins ==
    ASSUME TypeOK, Edit \/ Clock \/ \E S : Reserve(S), NEW o \in Occurrence, Begun(run'[o])
    PROVE  Begun(run[o])
<1>1. ASSUME NEW t \in Task, Cancel(t) PROVE Begun(run[o])
  BY <1>1 DEF Cancel, Begun
<1>2. ASSUME NEW t \in Task, NEW s,
             Pause(t) \/ Resume(t) \/ Schedule(t, s[1], s[2]) \/ Update(t, s[1], s[2])
      PROVE  Begun(run[o])
  BY <1>2 DEF Pause, Resume, Schedule, Update
<1>3. ASSUME NEW S, Reserve(S) PROVE Begun(run[o])
  BY <1>3 DEF Reserve, Begun
<1>4. CASE Clock
  BY <1>4 DEF Clock
<1> QED
  BY <1>1, <1>2, <1>3, <1>4 DEF Edit

LEMMA ObserveBegins ==
    ASSUME NEW c, NEW what, NEW q, NEW reconcile, Observe(c, what, q, reconcile),
           NEW o \in Occurrence, Begun(run'[o])
    PROVE  Begun(run[o]) \/ (what = "message" /\ q = o)
<1> DEFINE settled == {x \in Occurrence : Settles(x, c, what)}
<1>1. run' = [x \in Occurrence |->
                CASE x \in settled -> IF what = "reply" THEN "done" ELSE "failed"
                  [] what = "message" /\ x = q /\ Open(x) -> "started"
                  [] OTHER -> run[x]]
  BY DEF Observe
<1>2. o \in settled => run[o] = "started"
  BY DEF Settles
<1> HIDE DEF settled
<1>3. CASE o \in settled
  BY <1>2, <1>3 DEF Begun
<1>4. CASE o \notin settled /\ ~(what = "message" /\ o = q)
  <2>1. run'[o] = run[o]
    BY <1>1, <1>4
  <2> QED
    BY <2>1
<1> QED
  BY <1>3, <1>4

LEMMA TickPreserves ==
    ASSUME WorkSound, log' = log,
           \A c \in Conversation : /\ progress'[c].pending = progress[c].pending
                                   /\ progress'[c].actions = progress[c].actions,
           WorkTypes', TickSound',
           \A c \in Conversation : Reached(c)' <= Reached(c) /\ Reached(c)' \in Nat,
           \A c \in Conversation : AtWork(c) => AtWork(c)' \/ ~Acting(c),
           \A o : intake[o] = "posted" => intake'[o] = "posted",
           \A o \in Occurrence : Begun(run'[o]) =>
              \/ Begun(run[o])
              \/ \E p \in DOMAIN log[Conv(o)] : log[Conv(o)][p].of = o
    PROVE  WorkSound'
<1> USE DEF WorkSound
<1>1. Grown
  BY DEF Grown
<1>2. SendersSound' /\ PostedOnce'
  BY <1>1, SendersStay
<1>3. SettledWasPosted'
  BY <1>1, SettledStays DEF Begun
<1>4. RestingSound'
  BY RestingStays
<1>5. RecoveryRemembers'
  BY <1>1, RemembersMore
<1> QED
  BY <1>2, <1>3, <1>4, <1>5

(* The agent comes to rest, or gets stuck, where its actions have outcomes.  *)
LEMMA ComesToRest ==
    ASSUME WorkSound, NEW c \in Conversation, Stopped(c) \/ GetStuck(c)
    PROVE  WorkSound'
<1>1. UNCHANGED <<schedulerVars, recoveryVars, tickVars, intake, cursor>>
  BY DEF Stopped, GetStuck
<1>2. ~Acting(c)
  <2>1. CASE Stopped(c)
    BY <2>1 DEF Stopped
  <2>2. CASE GetStuck(c)
    <3>1. /\ log[c] \in Seq(Event) /\ log[c] # <<>>
          /\ log[c][Len(log[c])].kind \in {"observation", "toolError", "interrupted"}
      BY <2>2 DEF GetStuck, WorkSound, WorkTypes
    <3>2. DOMAIN log[c] = 1..Len(log[c]) /\ Len(log[c]) \in Nat
      BY <3>1
    <3>3. ASSUME NEW p \in DOMAIN log[c], log[c][p].kind = "action"
          PROVE  Len(log[c]) \in (p + 1)..Len(log[c])
      BY <3>1, <3>2, <3>3
    <3> QED
      BY <3>1, <3>3 DEF Acting
  <2> QED
    BY <2>1, <2>2
<1>3. /\ agent' \in [Conversation -> Agent]
      /\ \A d \in Conversation : d # c => agent'[d] = agent[d]
  <2>1. agent \in [Conversation -> Agent] /\ agent[c] \in Agent
    BY DEF WorkSound, WorkTypes
  <2>2. PICK new \in {[agent[c] EXCEPT !.stopping = FALSE],
                      [agent[c] EXCEPT !.status = "stuck"]} :
           agent' = [agent EXCEPT ![c] = new]
    BY <2>1 DEF Stopped, GetStuck
  <2>3. new \in Agent
    BY <2>1, <2>2 DEF Agent, AgentStatus
  <2> QED
    BY <2>1, <2>2, <2>3
<1>4. WorkTypes' /\ TickSound'
  BY <1>1, <1>3 DEF WorkSound, WorkTypes, TickSound, recoveryVars, tickVars
<1>5. \A d \in Conversation : Reached(d)' <= Reached(d) /\ Reached(d)' \in Nat
  BY <1>1 DEF Reached, WorkSound, WorkTypes, TickSound, tickVars
<1>6. \A d \in Conversation : AtWork(d) => AtWork(d)' \/ ~Acting(d)
  BY <1>2, <1>3 DEF AtWork
<1> QED
  BY <1>1, <1>4, <1>5, <1>6, TickPreserves DEF recoveryVars, schedulerVars

(* Steps that leave the recovery and the agents alone, too. *)
LEMMA QuietPreserves ==
    ASSUME WorkSound, UNCHANGED <<recoveryVars, cursor, agent>>,
           synced' \subseteq Conversation,
           intake' \in [Occurrence -> {"none", "waiting", "posted", "failed"}],
           TickSound', tick' = tick \/ tick'.at \notin {"read"} \/ tick'.next = cursor[tick'.of] + 1,
           \A o : intake[o] = "posted" => intake'[o] = "posted",
           \A o \in Occurrence : Begun(run'[o]) => Begun(run[o])
    PROVE  WorkSound'
<1> USE DEF recoveryVars
<1>1. WorkTypes'
  BY DEF WorkSound, WorkTypes
<1>2. \A c \in Conversation : cursor[c] \in Nat /\ cursor'[c] = cursor[c]
  BY DEF WorkSound, WorkTypes
<1>3. ASSUME NEW c \in Conversation PROVE Reached(c)' <= Reached(c) /\ Reached(c)' \in Nat
  <2>1. Reached(c) \in Nat /\ cursor[c] <= Reached(c)
    BY <1>2 DEF Reached, WorkSound, TickSound
  <2>2. CASE tick' = tick
    BY <1>2, <2>1, <2>2 DEF Reached
  <2>3. CASE tick'.at # "read"
    BY <1>2, <2>1, <2>3 DEF Reached
  <2>4. CASE tick'.at = "read" /\ tick'.next = cursor[tick'.of] + 1
    BY <1>2, <2>1, <2>4 DEF Reached
  <2> QED
    BY <2>2, <2>3, <2>4
<1> QED
  BY <1>1, <1>3, TickPreserves DEF AtWork

LEMMA RestSound ==
    ASSUME tick' = Rest
    PROVE  /\ TickSound' /\ tick'.at \notin {"read"}
           /\ \A c : Reached(c)' = cursor'[c]
BY DEF TickSound, Rest, Reached

LEMMA StartTickPreserves ==
    ASSUME TypeOK, WorkSound, StartTick
    PROVE  WorkSound'
<1>1. /\ UNCHANGED <<recoveryVars, tick, synced, intake, cursor, agent>>
      /\ \E S : Reserve(S)
  BY DEF StartTick
<1>2. TickSound' /\ synced' \subseteq Conversation
  BY <1>1 DEF WorkSound, TickSound, WorkTypes, recoveryVars
<1> QED
  BY <1>1, <1>2, EditBegins, QuietPreserves DEF WorkSound, WorkTypes

LEMMA EditPreserves ==
    ASSUME TypeOK, WorkSound, Edit \/ Clock,
           UNCHANGED <<recoveryVars, tickVars, intake, cursor, agent, faults>>
    PROVE  WorkSound'
<1>1. TickSound' /\ synced' \subseteq Conversation /\ tick' = tick
  BY DEF WorkSound, TickSound, WorkTypes, recoveryVars, tickVars
<1> QED
  BY <1>1, EditBegins, QuietPreserves DEF WorkSound, WorkTypes

LEMMA SubmitPreserves ==
    ASSUME WorkSound, NEW o \in Occurrence, Submit(o)
    PROVE  WorkSound'
<1>1. /\ UNCHANGED <<schedulerVars, recoveryVars, synced, cursor, agent>>
      /\ tick' = [Rest EXCEPT !.at = "mark", !.of = o]
      /\ intake' = [intake EXCEPT ![o] = IF @ = "none" THEN "waiting" ELSE @]
  BY DEF Submit, Accepted
<1>2. TickSound' /\ tick'.at = "mark"
  BY <1>1 DEF TickSound, Rest
<1>3. /\ intake' \in [Occurrence -> {"none", "waiting", "posted", "failed"}]
      /\ \A q : intake[q] = "posted" => intake'[q] = "posted"
  BY <1>1 DEF WorkSound, WorkTypes
<1>4. synced' \subseteq Conversation
  BY <1>1 DEF WorkSound, WorkTypes
<1> QED
  BY <1>1, <1>2, <1>3, <1>4, QuietPreserves DEF schedulerVars

LEMMA MarkPreserves ==
    ASSUME TypeOK, WorkSound, MarkEnqueued
    PROVE  WorkSound'
<1>1. /\ UNCHANGED <<recoveryVars, synced, intake, cursor, agent>> /\ tick' = Rest
      /\ Enqueued(tick.of)
  BY DEF MarkEnqueued
<1>2. \A o \in Occurrence : Begun(run'[o]) => Begun(run[o])
  BY <1>1 DEF Enqueued, Begun, TypeOK
<1> QED
  BY <1>1, <1>2, RestSound, QuietPreserves DEF WorkSound, WorkTypes

LEMMA StartReadPreserves ==
    ASSUME WorkSound, NEW c \in Conversation, StartRead(c)
    PROVE  WorkSound'
<1>1. /\ UNCHANGED <<schedulerVars, recoveryVars, synced, intake, cursor, agent>>
      /\ tick' = [at |-> "read", of |-> c, next |-> cursor[c] + 1,
                  high |-> Len(log[c]), status |-> ""]
  BY DEF StartRead, Rest
<1>2. log[c] \in Seq(Event) /\ cursor[c] \in Nat /\ cursor[c] <= Len(log[c])
  BY DEF WorkSound, WorkTypes
<1>3. log' = log /\ cursor' = cursor
  BY <1>1 DEF recoveryVars
<1>4. Len(log[c]) \in Nat
  BY <1>2
<1>5. TickSound'
  <2>1. /\ tick'.at = "read" /\ tick'.of = c /\ tick'.next = cursor[c] + 1
        /\ tick'.high = Len(log[c])
    BY <1>1
  <2> QED
    BY <1>2, <1>3, <1>4, <2>1 DEF TickSound
<1>6. /\ synced' \subseteq Conversation /\ tick'.next = cursor[tick'.of] + 1
      /\ intake' \in [Occurrence -> {"none", "waiting", "posted", "failed"}]
  BY <1>1 DEF WorkSound, WorkTypes
<1> QED
  BY <1>1, <1>5, <1>6, QuietPreserves DEF schedulerVars

LEMMA AskPreserves ==
    ASSUME WorkSound, NEW c \in Conversation, AskStatus(c)
    PROVE  WorkSound'
<1>1. /\ UNCHANGED <<schedulerVars, recoveryVars, intake, cursor, agent>>
      /\ synced' = synced \ {c} /\ tick = Rest
      /\ tick' = tick \/ tick' = [Rest EXCEPT !.at = "status", !.of = c,
                                              !.status = agent[c].status]
  BY DEF AskStatus
<1>2. TickSound' /\ tick'.at # "read"
  <2>1. CASE tick' = tick
    BY <1>1, <2>1, RestSound
  <2>2. CASE tick' = [Rest EXCEPT !.at = "status", !.of = c, !.status = agent[c].status]
    <3>1. tick'.at = "status" /\ tick'.of = c
      BY <2>2 DEF Rest
    <3> QED
      BY <3>1 DEF TickSound
  <2> QED
    BY <1>1, <2>1, <2>2
<1>3. synced' \subseteq Conversation
  BY <1>1 DEF WorkSound, WorkTypes
<1> QED
  BY <1>1, <1>2, <1>3, QuietPreserves DEF WorkSound, WorkTypes, schedulerVars

LEMMA FailurePreserves ==
    ASSUME WorkSound, CallFails \/ RelayCrash
    PROVE  WorkSound'
<1>1. /\ UNCHANGED <<schedulerVars, recoveryVars, intake, cursor, agent>>
      /\ synced' \subseteq Conversation /\ tick' = Rest
  BY DEF CallFails, RelayCrash, WorkSound, WorkTypes
<1> QED
  BY <1>1, RestSound, QuietPreserves DEF WorkSound, WorkTypes, schedulerVars

LEMMA PostFailsPreserves ==
    ASSUME WorkSound, NEW o \in Occurrence, PostFails(o)
    PROVE  WorkSound'
<1>1. /\ UNCHANGED <<schedulerVars, recoveryVars, tickVars, cursor, agent>>
      /\ intake[o] = "waiting" /\ intake' = [intake EXCEPT ![o] = "failed"]
  BY DEF PostFails
<1>2. /\ intake' \in [Occurrence -> {"none", "waiting", "posted", "failed"}]
      /\ \A q : intake[q] = "posted" => intake'[q] = "posted"
  BY <1>1 DEF WorkSound, WorkTypes
<1>3. TickSound' /\ synced' \subseteq Conversation /\ tick' = tick
  BY <1>1 DEF WorkSound, TickSound, WorkTypes, recoveryVars, tickVars
<1> QED
  BY <1>1, <1>2, <1>3, QuietPreserves DEF schedulerVars

(* The end of a page: what was read is now before the cursor. *)
LEMMA EndReadPreserves ==
    ASSUME WorkSound, EndRead
    PROVE  WorkSound'
<1> DEFINE c == tick.of
<1>1. /\ UNCHANGED <<schedulerVars, recoveryVars, intake, agent>>
      /\ tick.at = "read" /\ tick.next > tick.high /\ tick' = Rest
      /\ cursor' = [cursor EXCEPT ![c] = tick.high]
      /\ synced' = synced \cup {c}
  BY DEF EndRead, NextCursor
<1>2. /\ c \in Conversation /\ tick.high \in Nat /\ tick.next = tick.high + 1
      /\ tick.high <= Len(log[c])
  BY <1>1 DEF WorkSound, TickSound
<1>3. WorkTypes'
  BY <1>1, <1>2 DEF WorkSound, WorkTypes, recoveryVars
<1>4. \A d \in Conversation : cursor'[d] = IF d = c THEN tick.high ELSE cursor[d]
  BY <1>1 DEF WorkSound, WorkTypes
<1>5. \A d \in Conversation : Reached(d)' <= Reached(d) /\ Reached(d)' \in Nat
  <2>1. \A d \in Conversation : cursor[d] \in Nat
    BY DEF WorkSound, WorkTypes
  <2> QED
    BY <1>1, <1>2, <1>4, <2>1, RestSound DEF Reached
<1> QED
  BY <1>1, <1>3, <1>5, RestSound, TickPreserves DEF recoveryVars, schedulerVars, AtWork

LEMMA ParkPreserves ==
    ASSUME WorkSound, Park
    PROVE  WorkSound'
<1>1. /\ UNCHANGED <<log, synced, intake, cursor, agent>> /\ tick' = Rest
      /\ tick.at = "status" /\ tick.of \in Conversation
      /\ progress' = [progress EXCEPT ![tick.of].issue = TRUE]
      /\ Observe(tick.of, "failure", Nobody, progress[tick.of].actions # {})
  BY DEF Park, WorkSound, TickSound
<1>2. /\ progress' \in [Conversation -> [pending : BOOLEAN, actions : SUBSET Nat,
                                         issue : BOOLEAN]]
      /\ \A c \in Conversation : /\ progress'[c].pending = progress[c].pending
                                 /\ progress'[c].actions = progress[c].actions
  BY <1>1 DEF WorkSound, WorkTypes
<1>3. WorkTypes'
  BY <1>1, <1>2 DEF WorkSound, WorkTypes
<1>4. \A c \in Conversation : Reached(c)' <= Reached(c) /\ Reached(c)' \in Nat
  BY <1>1, RestSound DEF Reached, WorkSound, WorkTypes
<1>5. \A o \in Occurrence : Begun(run'[o]) => Begun(run[o])
  BY <1>1, ObserveBegins
<1> QED
  BY <1>1, <1>2, <1>3, <1>4, <1>5, RestSound, TickPreserves DEF AtWork

LEMMA ResumeRunPreserves ==
    ASSUME WorkSound, ResumeRun
    PROVE  WorkSound'
<1>1. /\ UNCHANGED <<schedulerVars, recoveryVars, synced, intake, cursor>> /\ tick' = Rest
      /\ tick.at = "status" /\ tick.of \in Conversation
      /\ agent' = agent \/ Resumed(tick.of)
  BY DEF ResumeRun, WorkSound, TickSound
<1>2. Len(log[tick.of]) \in Nat
  BY <1>1 DEF WorkSound, WorkTypes
<1>3. /\ agent' \in [Conversation -> Agent]
      /\ \A c \in Conversation : AtWork(c) => AtWork(c)'
  <2>1. CASE agent' = agent
    BY <2>1 DEF WorkSound, WorkTypes, AtWork
  <2>2. CASE Resumed(tick.of)
    <3>1. agent \in [Conversation -> Agent]
      BY DEF WorkSound, WorkTypes
    <3> DEFINE woken == [status |-> "running", read |-> Len(log[tick.of]), stopping |-> FALSE]
    <3>2. woken \in Agent /\ woken.status = "running"
      BY <1>2 DEF Agent, AgentStatus
    <3>3. agent' = [agent EXCEPT ![tick.of] = woken] \/ agent' = agent
      BY <2>2, <3>1 DEF Resumed
    <3> HIDE DEF woken
    <3> QED
      BY <1>1, <3>1, <3>2, <3>3 DEF AtWork
  <2> QED
    BY <1>1, <2>1, <2>2
<1>4. WorkTypes'
  BY <1>1, <1>3 DEF WorkSound, WorkTypes, recoveryVars
<1>5. \A c \in Conversation : Reached(c)' <= Reached(c) /\ Reached(c)' \in Nat
  BY <1>1, RestSound DEF Reached, WorkSound, WorkTypes
<1> QED
  BY <1>1, <1>3, <1>4, <1>5, RestSound, TickPreserves DEF recoveryVars, schedulerVars

(* An event is read.  A message that the scheduler counts as the start of a  *)
(* run is in the log of its conversation; what the event takes off the list  *)
(* of actions has its observation.                                           *)
LEMMA ReadPreserves ==
    ASSUME WorkSound, ReadEvent
    PROVE  WorkSound'
<1> DEFINE c == tick.of
           p == tick.next
           e == log[c][p]
           old == progress[c]
           new == ProgressAfter(c, p)
<1>1. /\ tick.at = "read" /\ p <= tick.high
      /\ UNCHANGED <<log, synced, intake, cursor, agent>>
      /\ Observe(c, Meaning(e), e.of, FALSE)
      /\ progress' = [progress EXCEPT ![c] = new]
      /\ tick' = [tick EXCEPT !.next = p + 1]
  BY DEF ReadEvent
<1>2. /\ c \in Conversation /\ p \in Nat /\ tick.high \in Nat /\ cursor[c] < p
      /\ tick.high <= Len(log[c]) /\ cursor[c] \in Nat /\ log[c] \in Seq(Event)
      /\ p \in 1..Len(log[c])
  <2>1. /\ c \in Conversation /\ p \in Nat /\ tick.high \in Nat /\ cursor[c] < p
        /\ tick.high <= Len(log[c])
    BY <1>1 DEF WorkSound, TickSound
  <2>2. cursor[c] \in Nat /\ log[c] \in Seq(Event)
    BY <2>1 DEF WorkSound, WorkTypes
  <2>3. Len(log[c]) \in Nat
    BY <2>2
  <2> QED
    BY <1>1, <2>1, <2>2, <2>3
<1>3. e \in Event
  BY <1>2
<1>4. /\ tick'.at = "read" /\ tick'.of = c /\ tick'.next = p + 1 /\ tick'.high = tick.high
  <2>1. tick.of = c
    OBVIOUS
  <2> QED
    BY <1>1
<1>5. TickSound'
  BY <1>1, <1>2, <1>4 DEF TickSound
<1>6. /\ old \in [pending : BOOLEAN, actions : SUBSET Nat, issue : BOOLEAN]
      /\ new.pending = (IF e.kind \in Settling THEN FALSE ELSE old.pending \/ e.kind = "message")
      /\ new.actions = (IF e.kind = "action" THEN old.actions \cup {p}
                        ELSE IF e.kind = "observation" THEN old.actions \ ActionOf(c, p)
                        ELSE old.actions)
      /\ new.issue = (old.issue /\ e.kind # "message")
  BY <1>2 DEF ProgressAfter, PendingAfter, WorkSound, WorkTypes
<1>7. new \in [pending : BOOLEAN, actions : SUBSET Nat, issue : BOOLEAN]
  <2>1. new.pending \in BOOLEAN /\ new.issue \in BOOLEAN /\ new.actions \in SUBSET Nat
    BY <1>2, <1>6
  <2>2. new = [pending |-> new.pending, actions |-> new.actions, issue |-> new.issue]
    BY DEF ProgressAfter
  <2> HIDE DEF new
  <2> QED
    BY <2>1, <2>2
<1> HIDE DEF new, e, p, c, old
<1>8. /\ progress'[c] = new /\ \A d \in Conversation : d # c => progress'[d] = progress[d]
      /\ progress' \in [Conversation -> [pending : BOOLEAN, actions : SUBSET Nat,
                                         issue : BOOLEAN]]
  BY <1>1, <1>2, <1>7 DEF WorkSound, WorkTypes
<1>9. WorkTypes'
  BY <1>1, <1>8 DEF WorkSound, WorkTypes
<1>10. SendersSound' /\ PostedOnce' /\ RestingSound'
  BY <1>1 DEF WorkSound, SendersSound, PostedOnce, RestingSound, Acting, AtWork
<1>11. SettledWasPosted'
  <2>1. Grown
    BY <1>1 DEF Grown
  <2>2. ASSUME NEW o \in Occurrence, Begun(run'[o])
        PROVE  Begun(run[o]) \/ \E x \in DOMAIN log[Conv(o)] : log[Conv(o)][x].of = o
    <3>1. CASE Meaning(e) = "message" /\ e.of = o
      <4>1. o # Nobody /\ p \in DOMAIN log[c] /\ log[c][p].of = o
        BY <1>2, <3>1, RunRecoveryAssumption DEF e
      <4>2. Conv(o) = c
        BY <1>2, <4>1 DEF WorkSound, SendersSound
      <4> QED
        BY <4>1, <4>2
    <3>2. CASE ~(Meaning(e) = "message" /\ e.of = o)
      BY <1>1, <2>2, <3>2, ObserveBegins
    <3> QED
      BY <3>1, <3>2
  <2> QED
    BY <2>1, <2>2, SettledStays DEF Begun, WorkSound
<1>12. RecoveryRemembers'
  <2> SUFFICES ASSUME NEW d \in Conversation, NEW x \in 1..Reached(d)'
               PROVE  /\ log[d][x].kind = "message" =>
                            \/ progress'[d].pending
                            \/ \E q \in (x + 1)..Len(log[d]) : log[d][q].kind \in Settling
                      /\ log[d][x].kind = "action" =>
                            x \in progress'[d].actions \/ Observed(d, x)
    BY <1>1 DEF RecoveryRemembers, Observed, ActionOf
  <2>1. CASE d # c
    <3>1. Reached(d)' = Reached(d) /\ progress'[d] = progress[d]
      BY <1>1, <1>4, <1>8, <2>1 DEF Reached, c
    <3> QED
      BY <3>1 DEF WorkSound, RecoveryRemembers
  <2>2. CASE d = c
    <3>1. Reached(d)' = p /\ Reached(d) = p - 1
      BY <1>1, <1>2, <1>4, <2>2 DEF Reached, c, p
    <3>2. x \in 1..p /\ x \in Nat
      BY <3>1, <1>2
    <3>3. CASE x = p
      BY <1>6, <1>8, <2>2, <3>3 DEF e, Settling
    <3>4. CASE x # p
      <4>1. x \in 1..Reached(d) /\ p \in (x + 1)..Len(log[c])
        BY <1>2, <3>1, <3>2, <3>4
      <4>2. /\ log[c][x].kind = "message" =>
                  old.pending \/ \E q \in (x + 1)..Len(log[c]) : log[c][q].kind \in Settling
            /\ log[c][x].kind = "action" => x \in old.actions \/ Observed(c, x)
        BY <1>2, <2>2, <4>1 DEF WorkSound, RecoveryRemembers, old
      <4>3. ~new.pending /\ old.pending => log[c][p].kind \in Settling
        BY <1>6 DEF e
      <4>4. x \in old.actions /\ x \notin new.actions => Observed(c, x)
        BY <1>6, <4>1 DEF e, Observed
      <4> QED
        BY <1>8, <2>2, <4>1, <4>2, <4>3, <4>4
    <3> QED
      BY <3>3, <3>4
  <2> QED
    BY <2>1, <2>2
<1> QED
  BY <1>5, <1>9, <1>10, <1>11, <1>12 DEF WorkSound
-------------------------------------------------------------------------------
LEMMA WorkInitially == WorkInit => WorkInv
<1> SUFFICES ASSUME WorkInit PROVE WorkInv
  OBVIOUS
<1>1. Inv
  BY Initially DEF WorkInit
<1>2. \A o \in Occurrence : run[o] = "none"
  BY DEF WorkInit, Init
<1>3. \A c \in Conversation : log[c] = <<>> /\ Len(log[c]) = 0 /\ DOMAIN log[c] = {}
  BY DEF WorkInit, RecoveryInit
<1>4. WorkTypes
  BY <1>3 DEF WorkInit, RecoveryInit, WorkTypes, Agent, AgentStatus
<1>5. TickSound
  BY DEF WorkInit, TickSound, Rest
<1>6. RecoveryRemembers
  <2>1. \A c \in Conversation : Reached(c) = 0
    BY DEF WorkInit, Reached, Rest
  <2> QED
    BY <2>1 DEF RecoveryRemembers
<1> QED
  BY <1>1, <1>2, <1>3, <1>4, <1>5, <1>6 DEF WorkInv, WorkSound, SendersSound, PostedOnce,
     RestingSound, Acting, SettledWasPosted

LEMMA WorkPreserves ==
    ASSUME WorkInv, [WorkNext]_allVars
    PROVE  WorkInv'
<1>1. TypeOK
  BY DEF WorkInv, Inv
<1>2. Inv'
  BY <1>1, StepOfScheduler, NextPreserves DEF WorkInv
<1>3. ASSUME UNCHANGED allVars PROVE WorkSound'
  <2>1. TickSound' /\ UNCHANGED <<tick, synced, intake>>
    BY <1>3 DEF allVars, schedulerVars, recoveryVars, tickVars, WorkInv, WorkSound, TickSound
  <2> QED
    BY <1>3, <2>1, QuietPreserves DEF allVars, schedulerVars, WorkInv, WorkSound, WorkTypes
<1>4. ASSUME TickStep PROVE WorkSound'
  BY <1>1, <1>4, StartTickPreserves, MarkPreserves, ReadPreserves, EndReadPreserves,
     ParkPreserves, ResumeRunPreserves, SubmitPreserves, StartReadPreserves, AskPreserves
     DEF TickStep, WorkInv
<1>5. WorkSound'
  BY <1>1, <1>3, <1>4, EditPreserves, FailurePreserves, PostPreserves, PostFailsPreserves,
     AgentPreserves, ComesToRest, ChatPreserves, RestartPreserves
     DEF WorkNext, AgentStep, WorkInv
<1> QED
  BY <1>2, <1>5 DEF WorkInv

(* The inductive invariant holds in every reachable state (ScheduledWork).   *)
THEOREM WorkInvariance == WorkSpec => []WorkInv
<1>1. WorkInit => WorkInv
  BY WorkInitially
<1>2. WorkInv /\ [WorkNext]_allVars => WorkInv'
  BY WorkPreserves
<1> QED
  BY <1>1, <1>2, PTL DEF WorkSpec

(* The scheduler among the tick, the conversations, crashes and restarts     *)
(* implements the scheduler alone (due, enqueued, observe).                  *)
THEOREM ImplementsScheduler == WorkSpec => SchedulerSpec
<1>1. WorkInit => Init
  BY DEF WorkInit
<1>2. WorkInv /\ [WorkNext]_allVars => [Next]_vars
  BY StepOfScheduler DEF WorkInv, Inv
<1> QED
  BY <1>1, <1>2, WorkInvariance, PTL DEF WorkSpec, SchedulerSpec, Spec

(* Its safety therefore holds in these surroundings, too: one open run of a  *)
(* task and of a conversation, no active recurring task without a time, no   *)
(* ended run reopened by a page that is read again.                          *)
THEOREM SchedulerSafe ==
    WorkSpec => []OneRunAtATime /\ []NeverStranded /\ EndedStaysEnded
BY ImplementsScheduler, RunsSafe, TasksSafe, EndsSafe, PTL DEF SchedulerSpec

(* The message of an occurrence appears once in its conversation, whatever   *)
(* the crashes between its acceptance and the mark (due, acceptInbound).     *)
THEOREM PostsSafe == WorkSpec => []PostedOnce
BY WorkInvariance, PTL DEF WorkInv, WorkSound

(* A run starts and ends only when its message is in the log (observe).      *)
THEOREM SettlesSafe == WorkSpec => []SettledWasPosted
BY WorkInvariance, PTL DEF WorkInv, WorkSound

(* Every message read is owed an answer until one, or a pause, follows it in *)
(* the log, and every action read is listed until its observation is         *)
(* (RunRecovery.observe).                                                    *)
THEOREM RemembersSafe == WorkSpec => []RecoveryRemembers
BY WorkInvariance, PTL DEF WorkInv, WorkSound

LEMMA ResumesSound ==
    ASSUME WorkInv, [WorkNext]_allVars, tick.at = "status", tick' = Rest, agent' # agent,
           NEW p \in 1..cursor[tick.of], log[tick.of][p].kind = "action"
    PROVE  Observed(tick.of, p)
<1>1. CASE ResumeRun
  <2>1. tick.of \in Conversation /\ p \in 1..Reached(tick.of)
    BY DEF WorkInv, WorkSound, TickSound, Reached
  <2>2. progress[tick.of].actions = {}
    BY <1>1 DEF ResumeRun, MustPark
  <2> QED
    BY <2>1, <2>2 DEF WorkInv, WorkSound, RecoveryRemembers
<1>2. CASE tick' = tick
  <2>1. tick'.at = "rest"
    BY DEF Rest
  <2> QED
    BY <1>2, <2>1
<1>3. CASE UNCHANGED agent
  BY <1>3
<1> QED
  BY <1>1, <1>2, <1>3 DEF WorkNext, TickStep, AgentStep, Outcome, Finish, Stopped, Act, Break,
     GetStuck, Halt, Post,
     PostFails, Chat, ServerRestart, StartTick, Submit, MarkEnqueued, ReadEvent, EndRead,
     Park, StartRead, AskStatus, CallFails, RelayCrash, tickVars, allVars

(* The relay resumes only where each action that it has read has its         *)
(* observation (RelayRuntime.tick, docs/bridges.md).                         *)
THEOREM ResumesSafe == WorkSpec => ResumesOnlyObserved
<1>1. WorkInv /\ [WorkNext]_allVars =>
        [tick.at = "status" /\ tick' = Rest /\ agent' # agent =>
            \A p \in 1..cursor[tick.of] :
               log[tick.of][p].kind = "action" => Observed(tick.of, p)]_allVars
  BY ResumesSound
<1> QED
  BY <1>1, WorkInvariance, PTL DEF WorkSpec, ResumesOnlyObserved

(* Who starts to run was at rest: a step that a pause has left under way     *)
(* keeps a message, or a call of the relay, from starting another.           *)
LEMMA StartsFromRest ==
    ASSUME WorkInv, [WorkNext]_allVars, NEW c \in Conversation,
           agent[c].status # "running", agent'[c].status = "running"
    PROVE  ~AtWork(c)
<1>1. /\ agent \in [Conversation -> Agent] /\ agent[c] \in Agent
      /\ agent[c].stopping \in BOOLEAN
  BY DEF WorkInv, WorkSound, WorkTypes, Agent
<1> SUFFICES ~agent[c].stopping
  BY DEF AtWork
<1>2. ASSUME NEW d, Hear(d) PROVE ~agent[c].stopping
  BY <1>1, <1>2 DEF Hear
<1>3. CASE ResumeRun
  BY <1>1, <1>3 DEF ResumeRun, Resumed
<1>4. ASSUME NEW d \in Conversation, AgentStep(d) PROVE ~agent[c].stopping
  <2>1. agent[d] \in Agent
    BY DEF WorkInv, WorkSound, WorkTypes
  <2>2. CASE Outcome(d)
    BY <1>1, <2>1, <2>2 DEF Outcome, Agent, AtWork
  <2>3. CASE Finish(d)
    BY <1>1, <2>1, <2>3 DEF Finish, Agent, AtWork
  <2>4. CASE Stopped(d)
    BY <1>1, <2>1, <2>4 DEF Stopped, Agent
  <2> QED
    BY <1>4, <2>2, <2>3, <2>4 DEF AgentStep
<1>5. ASSUME NEW d \in Conversation, Break(d) \/ GetStuck(d) \/ Halt(d) PROVE FALSE
  <2>1. agent[d] \in Agent
    BY DEF WorkInv, WorkSound, WorkTypes
  <2>2. CASE Break(d)
    BY <1>1, <2>1, <2>2 DEF Break, Agent
  <2>3. CASE GetStuck(d)
    BY <1>1, <2>1, <2>3 DEF GetStuck, Agent
  <2>4. CASE Halt(d)
    BY <1>1, <2>1, <2>4 DEF Halt, Agent
  <2> QED
    BY <1>5, <2>2, <2>3, <2>4
<1>6. CASE ServerRestart
  BY <1>6 DEF ServerRestart, Restored
<1>7. CASE UNCHANGED agent
  BY <1>7
<1>8. \A o \in Occurrence : Post(o) => \E d \in Conversation : Hear(d)
  BY ConvType DEF Post
<1>9. Chat => \E d \in Conversation : Hear(d)
  BY DEF Chat, Conversation
<1> QED
  BY <1>2, <1>3, <1>4, <1>5, <1>6, <1>7, <1>8, <1>9 DEF WorkNext, TickStep, Act, PostFails,
     StartTick, Submit, MarkEnqueued, ReadEvent, EndRead, Park, StartRead, AskStatus,
     CallFails, RelayCrash, allVars

(* No conversation is set to work where an action has no outcome, so that    *)
(* none is repeated (RunRecovery, recoverInterruptedTools).                  *)
THEOREM ActionsSafe == WorkSpec => NoActionRepeated
<1>1. WorkInv /\ [WorkNext]_allVars =>
        [\A c \in Conversation :
            agent[c].status # "running" /\ agent'[c].status = "running" =>
               ~Acting(c)]_allVars
  BY StartsFromRest DEF WorkInv, WorkSound, RestingSound
<1> QED
  BY <1>1, WorkInvariance, PTL DEF WorkSpec, NoActionRepeated
-------------------------------------------------------------------------------
(* What is pending is what the events up to some position leave owed, which  *)
(* is not before the one that was reached: a page may be read again.  Once a *)
(* conversation was read to its end in this tick, it is the cursor.          *)

CaughtUp(c) == c \in synced \/ (tick.at = "status" /\ tick.of = c)

Agrees(c, m) ==
    /\ progress[c].pending <=> Owed(c, m)
    /\ CaughtUp(c) => m = cursor[c]
    /\ tick.at = "read" /\ tick.of = c => m <= tick.high

OwedSound ==
    /\ tick.at = "read" => tick.of \notin synced
    /\ tick.at = "status" => progress[tick.of].pending
    /\ \A c \in Conversation : \E m \in Reached(c)..Len(log[c]) : Agrees(c, m)

(* What is owed at a position does not change when conversations grow.       *)
LEMMA OwedStays ==
    ASSUME WorkTypes, Grown, NEW c \in Conversation, NEW m \in 0..Len(log[c])
    PROVE  Owed(c, m)' <=> Owed(c, m)
<1>1. Len(log[c]) \in Nat /\ \A p \in 1..Len(log[c]) : log'[c][p] = log[c][p]
  BY Prefix
<1>2. \A p \in 1..m : log'[c][p] = log[c][p] /\ p \in Nat
  BY <1>1
<1>3. \A p \in 1..m : \A q \in (p + 1)..m : log'[c][q] = log[c][q]
  BY <1>1, <1>2
<1> QED
  BY <1>2, <1>3 DEF Owed

(* Every step but those that read keeps the positions.                       *)
LEMMA OwedKept ==
    ASSUME WorkSound, OwedSound, Grown, cursor' = cursor,
           \A c \in Conversation : progress'[c].pending = progress[c].pending,
           \A c \in Conversation : Reached(c)' <= Reached(c) /\ Reached(c)' \in Nat,
           \A c \in Conversation : CaughtUp(c)' => CaughtUp(c),
           tick'.at = "read" =>
              /\ tick'.of \notin synced'
              /\ tick' = tick \/ tick'.high = Len(log'[tick'.of]),
           tick'.at = "status" => progress'[tick'.of].pending
    PROVE  OwedSound'
<1> SUFFICES ASSUME NEW c \in Conversation
             PROVE  \E m \in Reached(c)'..Len(log'[c]) : Agrees(c, m)'
  BY DEF OwedSound
<1>1. PICK m \in Reached(c)..Len(log[c]) : Agrees(c, m)
  BY DEF OwedSound
<1>2. /\ Len(log[c]) \in Nat /\ Len(log'[c]) \in Nat /\ Len(log[c]) <= Len(log'[c])
      /\ Reached(c) \in Nat /\ Reached(c)' \in Nat /\ Reached(c)' <= Reached(c)
  BY Prefix DEF WorkSound, WorkTypes, TickSound, Reached
<1>3. m \in Reached(c)'..Len(log'[c]) /\ m \in 0..Len(log[c])
  BY <1>2
<1>4. Owed(c, m)' <=> Owed(c, m)
  BY <1>3, OwedStays DEF WorkSound
<1>5. Agrees(c, m)'
  BY <1>1, <1>2, <1>3, <1>4 DEF Agrees
<1> QED
  BY <1>3, <1>5

(* The tick comes to rest, or a call of it fails.                            *)
LEMMA OwedAtRest ==
    ASSUME WorkSound, OwedSound, tick' = Rest, synced' \subseteq synced,
           UNCHANGED <<log, cursor>>,
           \A c \in Conversation : progress'[c].pending = progress[c].pending
    PROVE  OwedSound'
<1>1. /\ tick'.at = "rest" /\ Grown
      /\ \A c \in Conversation : CaughtUp(c)' => CaughtUp(c)
  BY DEF Rest, Grown, CaughtUp
<1>2. \A c \in Conversation : Reached(c)' <= Reached(c) /\ Reached(c)' \in Nat
  BY <1>1 DEF Reached, WorkSound, WorkTypes, TickSound
<1> QED
  BY <1>1, <1>2, OwedKept

(* The conversations go on, or the scheduler does, while the tick waits.     *)
LEMMA OwedMeanwhile ==
    ASSUME WorkSound, OwedSound, Grown, UNCHANGED <<progress, tick, synced, cursor>>
    PROVE  OwedSound'
<1>1. \A c \in Conversation : CaughtUp(c)' => CaughtUp(c)
  BY DEF CaughtUp
<1>2. \A c \in Conversation : Reached(c)' <= Reached(c) /\ Reached(c)' \in Nat
  BY TickStays DEF WorkSound
<1> QED
  BY <1>1, <1>2, OwedKept DEF OwedSound

(* A page begins, or a status was received.                                  *)
LEMMA OwedAsked ==
    ASSUME WorkSound, OwedSound, NEW c \in Conversation, StartRead(c) \/ AskStatus(c)
    PROVE  OwedSound'
<1>1. UNCHANGED <<log, progress, cursor>> /\ tick = Rest
  BY DEF StartRead, AskStatus, recoveryVars
<1>2. tick.at = "rest" /\ Grown
  BY <1>1 DEF Rest, Grown
<1>3. \A d \in Conversation : cursor[d] \in Nat /\ Reached(d) = cursor[d]
  BY <1>2 DEF WorkSound, WorkTypes, Reached
<1>4. CASE StartRead(c)
  <2>1. /\ synced' = synced /\ c \notin synced
        /\ tick'.at = "read" /\ tick'.of = c /\ tick'.next = cursor[c] + 1
        /\ tick'.high = Len(log[c])
    BY <1>4 DEF StartRead, Rest
  <2>2. \A d \in Conversation : CaughtUp(d)' => CaughtUp(d)
    BY <2>1 DEF CaughtUp
  <2>3. \A d \in Conversation : Reached(d)' = cursor[d]
    BY <1>1, <1>2, <1>3, <2>1 DEF Reached
  <2> QED
    BY <1>1, <1>2, <1>3, <2>1, <2>2, <2>3, OwedKept
<1>5. CASE AskStatus(c)
  <2>1. /\ synced' \subseteq synced /\ c \in synced
        /\ \/ tick' = tick
           \/ tick'.at = "status" /\ tick'.of = c /\ progress[c].pending
    BY <1>5 DEF AskStatus, Rest, Pending
  <2>2. \A d \in Conversation : CaughtUp(d)' => CaughtUp(d)
    BY <1>1, <1>2, <2>1 DEF CaughtUp
  <2>3. \A d \in Conversation : Reached(d)' = cursor[d]
    BY <1>1, <1>2, <1>3, <2>1 DEF Reached
  <2> QED
    BY <1>1, <1>2, <1>3, <2>1, <2>2, <2>3, OwedKept
<1> QED
  BY <1>4, <1>5

(* A page ends: what is pending is what its last event has left.             *)
LEMMA OwedReadToEnd ==
    ASSUME WorkSound, OwedSound, EndRead
    PROVE  OwedSound'
<1> DEFINE c == tick.of
<1>1. /\ UNCHANGED <<log, progress>> /\ tick.at = "read" /\ tick.next > tick.high
      /\ tick'.at = "rest" /\ synced' = synced \cup {c}
      /\ cursor' = [cursor EXCEPT ![c] = tick.high]
  BY DEF EndRead, NextCursor, recoveryVars, Rest
<1>2. /\ c \in Conversation /\ tick.high \in Nat /\ tick.next = tick.high + 1
      /\ cursor \in [Conversation -> Nat]
  BY <1>1 DEF WorkSound, WorkTypes, TickSound
<1>3. \A d \in Conversation : Reached(d)' = (IF d = c THEN tick.high ELSE cursor[d])
  BY <1>1, <1>2 DEF Reached
<1>4. \A d \in Conversation : Reached(d) = (IF d = c THEN tick.high ELSE cursor[d])
  BY <1>1, <1>2 DEF Reached
<1> SUFFICES ASSUME NEW d \in Conversation
             PROVE  \E m \in Reached(d)'..Len(log'[d]) : Agrees(d, m)'
  BY <1>1 DEF OwedSound
<1>5. PICK m \in Reached(d)..Len(log[d]) : Agrees(d, m)
  BY DEF OwedSound
<1>6. Owed(d, m)' <=> Owed(d, m)
  BY <1>1 DEF Owed
<1>7. d = c => m = tick.high
  BY <1>1, <1>2, <1>4, <1>5 DEF Agrees
<1>8. CaughtUp(d)' => m = cursor'[d]
  BY <1>1, <1>2, <1>5, <1>7 DEF Agrees, CaughtUp
<1>9. Agrees(d, m)'
  BY <1>1, <1>5, <1>6, <1>8 DEF Agrees
<1> QED
  BY <1>1, <1>3, <1>4, <1>9

(* An event is read.  One that decides what is owed makes its own position   *)
(* the one that counts; any other leaves it, or moves it on by one.          *)
LEMMA OwedRead ==
    ASSUME WorkSound, OwedSound, ReadEvent
    PROVE  OwedSound'
<1> DEFINE c == tick.of
           p == tick.next
           kind == log[c][p].kind
<1>1. /\ tick.at = "read" /\ p <= tick.high /\ UNCHANGED <<log, synced, cursor>>
      /\ progress' = [progress EXCEPT ![c] = ProgressAfter(c, p)]
      /\ tick' = [tick EXCEPT !.next = p + 1]
  BY DEF ReadEvent
<1>2. /\ c \in Conversation /\ p \in Nat \ {0} /\ tick.high \in Nat
      /\ tick.high <= Len(log[c]) /\ Len(log[c]) \in Nat
  <2>1. /\ c \in Conversation /\ p \in Nat /\ tick.high \in Nat /\ cursor[c] < p
        /\ tick.high <= Len(log[c])
    BY <1>1 DEF WorkSound, TickSound
  <2>2. cursor[c] \in Nat /\ log[c] \in Seq(Event)
    BY <2>1 DEF WorkSound, WorkTypes
  <2> QED
    BY <2>1, <2>2
<1>3. /\ progress \in [Conversation -> [pending : BOOLEAN, actions : SUBSET Nat,
                                        issue : BOOLEAN]]
      /\ \A d \in Conversation : cursor[d] \in Nat
  BY DEF WorkSound, WorkTypes
<1>4. /\ \A d \in Conversation : d # c => progress'[d] = progress[d]
      /\ progress'[c].pending = (IF kind \in Settling THEN FALSE
                                 ELSE progress[c].pending \/ kind = "message")
  BY <1>1, <1>2, <1>3 DEF ProgressAfter, PendingAfter
<1>5. tick'.at = "read" /\ tick'.of = c /\ tick'.next = p + 1 /\ tick'.high = tick.high
  <2>1. tick.of = c
    OBVIOUS
  <2> QED
    BY <1>1
<1> HIDE DEF c, p
<1>6. \A d \in Conversation : IF d = c THEN Reached(d) = p - 1 /\ Reached(d)' = p
                              ELSE Reached(d)' = Reached(d)
  BY <1>1, <1>2, <1>5 DEF Reached, c, p
<1>7. \A d \in Conversation : CaughtUp(d)' <=> CaughtUp(d)
  BY <1>1, <1>5 DEF CaughtUp
<1>8. c \notin synced /\ \A d : d = c => ~CaughtUp(d)
  BY <1>1 DEF OwedSound, CaughtUp, c
<1>9. \A d, m : Owed(d, m)' <=> Owed(d, m)
  BY <1>1 DEF Owed
<1> SUFFICES ASSUME NEW d \in Conversation
             PROVE  \E m \in Reached(d)'..Len(log'[d]) : Agrees(d, m)'
  BY <1>1, <1>5, <1>8 DEF OwedSound, c
<1>10. PICK m \in Reached(d)..Len(log[d]) : Agrees(d, m)
  BY DEF OwedSound
<1>11. CASE d # c
  <2>1. Agrees(d, m)'
    BY <1>1, <1>4, <1>5, <1>7, <1>9, <1>10, <1>11 DEF Agrees, c
  <2> QED
    BY <1>1, <1>6, <1>11, <2>1
<1>12. CASE d = c
  <2>1. /\ m \in Nat /\ p - 1 <= m /\ m <= tick.high
        /\ progress[c].pending <=> Owed(c, m)
    BY <1>1, <1>2, <1>6, <1>10, <1>12 DEF Agrees, c
  <2>2. ASSUME NEW n \in p..tick.high, progress'[c].pending <=> Owed(c, n)
        PROVE  \E k \in Reached(d)'..Len(log'[d]) : Agrees(d, k)'
    <3>1. Agrees(d, n)'
      BY <1>1, <1>2, <1>5, <1>7, <1>8, <1>9, <1>12, <2>2 DEF Agrees
    <3>2. n \in Reached(d)'..Len(log'[d])
      BY <1>1, <1>2, <1>6, <1>12
    <3> QED
      BY <3>1, <3>2
  <2>3. p \in p..tick.high /\ p \in 1..p
    BY <1>1, <1>2 DEF p
  <2>4. CASE kind = "message"
    <3>1. kind \notin Settling /\ (p + 1)..p = {}
      BY <1>2, <2>4 DEF Settling
    <3>2. Owed(c, p)
      BY <2>3, <2>4, <3>1 DEF Owed
    <3> QED
      BY <1>4, <2>2, <2>3, <2>4, <3>1, <3>2
  <2>5. CASE kind \in Settling
    <3>1. ASSUME NEW x \in 1..p, log[c][x].kind = "message" PROVE p \in (x + 1)..p
      BY <1>2, <2>5, <3>1 DEF Settling
    <3>2. ~Owed(c, p)
      BY <2>5, <3>1 DEF Owed
    <3> QED
      BY <1>4, <2>2, <2>3, <2>5, <3>2
  <2>6. CASE kind # "message" /\ kind \notin Settling
    <3>1. progress'[c].pending <=> Owed(c, m)
      BY <1>2, <1>3, <1>4, <2>1, <2>6
    <3>2. CASE m # p - 1
      <4>1. m \in p..tick.high
        BY <1>2, <2>1, <3>2
      <4> QED
        BY <2>2, <3>1, <4>1
    <3>3. CASE m = p - 1
      <4>1. Owed(c, p) => Owed(c, p - 1)
        <5>1. SUFFICES ASSUME NEW x \in 1..p, log[c][x].kind = "message",
                              \A q \in (x + 1)..p : log[c][q].kind \notin Settling
                       PROVE  Owed(c, p - 1)
          BY DEF Owed
        <5>2. x \in 1..(p - 1) /\ (x + 1)..(p - 1) \subseteq (x + 1)..p
          BY <1>2, <2>6, <5>1
        <5> QED
          BY <5>1, <5>2 DEF Owed
      <4>2. Owed(c, p - 1) => Owed(c, p)
        <5>1. SUFFICES ASSUME NEW x \in 1..(p - 1), log[c][x].kind = "message",
                              \A q \in (x + 1)..(p - 1) : log[c][q].kind \notin Settling
                       PROVE  Owed(c, p)
          BY DEF Owed
        <5>2. x \in 1..p /\ \A q \in (x + 1)..p : q = p \/ q \in (x + 1)..(p - 1)
          BY <1>2
        <5> QED
          BY <2>6, <5>1, <5>2 DEF Owed
      <4> QED
        BY <2>2, <2>3, <3>1, <3>3, <4>1, <4>2
    <3> QED
      BY <3>2, <3>3
  <2> QED
    BY <2>4, <2>5, <2>6
<1> QED
  BY <1>11, <1>12

LEMMA OwedPreserves ==
    ASSUME WorkInv, OwedSound, [WorkNext]_allVars
    PROVE  OwedSound'
<1> USE DEF WorkInv, recoveryVars, tickVars
<1>1. CASE UNCHANGED <<log, progress, tick, synced, cursor>>
  BY <1>1, OwedMeanwhile DEF Grown
<1>2. CASE tick' = Rest /\ synced' \subseteq synced /\ UNCHANGED <<recoveryVars, cursor>>
  BY <1>2, OwedAtRest
<1>3. CASE Park
  <2>1. \A c \in Conversation : progress'[c].pending = progress[c].pending
    BY <1>3 DEF Park, WorkSound, WorkTypes
  <2> QED
    BY <1>3, <2>1, OwedAtRest DEF Park
<1>4. ASSUME NEW o \in Occurrence, Submit(o) PROVE OwedSound'
  <2>1. /\ UNCHANGED <<log, progress, synced, cursor>>
        /\ tick.at = "rest" /\ tick'.at = "mark" /\ Grown
    BY <1>4 DEF Submit, Rest, Grown
  <2>2. \A c \in Conversation : CaughtUp(c)' => CaughtUp(c)
    BY <2>1 DEF CaughtUp
  <2>3. \A c \in Conversation : Reached(c)' <= Reached(c) /\ Reached(c)' \in Nat
    BY <2>1 DEF Reached, WorkSound, WorkTypes
  <2> QED
    BY <2>1, <2>2, <2>3, OwedKept
<1>5. ASSUME NEW c \in Conversation,
             \E e \in Event : Say(c, e), UNCHANGED <<progress, tickVars, cursor>>
      PROVE  OwedSound'
  <2>1. Grown
    BY <1>5 DEF Say, Grown, WorkSound, WorkTypes
  <2> QED
    BY <1>5, <2>1, OwedMeanwhile
<1>6. ASSUME NEW o \in Occurrence, Post(o) PROVE OwedSound'
  <2>1. [kind |-> "message", of |-> o] \in Event
    BY DEF Event, EventKind
  <2> QED
    BY <1>5, <1>6, <2>1, ConvType DEF Post
<1>7. \A kind \in EventKind : Ev(kind) \in Event
  BY EvType
<1>8. ASSUME NEW c \in Conversation, Outcome(c) \/ Finish(c) \/ Act(c) \/ Break(c) \/ Halt(c)
      PROVE  OwedSound'
  <2>1. \E e \in Event : Say(c, e)
    BY <1>7, <1>8 DEF Outcome, Finish, Act, Break, Halt, EventKind
  <2>2. UNCHANGED <<progress, tickVars, cursor>>
    BY <1>8 DEF Outcome, Finish, Act, Break, Halt
  <2> QED
    BY <1>5, <2>1, <2>2
<1>9. CASE Chat
  BY <1>5, <1>7, <1>9 DEF Chat, Conversation, EventKind
<1>10. CASE ServerRestart
  <2>1. \A c \in Conversation : log'[c] = log[c] \/ log'[c] = Append(log[c], Ev("interrupted"))
    BY <1>10 DEF ServerRestart, Restored
  <2>2. Grown
    BY <1>7, <2>1 DEF Grown, EventKind
  <2> QED
    BY <1>10, <2>2, OwedMeanwhile DEF ServerRestart
<1> QED
  BY <1>1, <1>2, <1>3, <1>4, <1>6, <1>8, <1>9, <1>10, OwedAsked, OwedReadToEnd, OwedRead
     DEF WorkNext, TickStep, AgentStep, Stopped, GetStuck, PostFails, StartTick, MarkEnqueued,
     ResumeRun, CallFails, RelayCrash, allVars

LEMMA OwedInitially == WorkInit => OwedSound
<1> SUFFICES ASSUME WorkInit PROVE OwedSound
  OBVIOUS
<1>1. tick.at = "rest" /\ synced = {}
  BY DEF WorkInit, Rest
<1>2. ASSUME NEW c \in Conversation
      PROVE  /\ 0 \in Reached(c)..Len(log[c]) /\ cursor[c] = 0
             /\ progress[c].pending = FALSE
  BY <1>1 DEF WorkInit, RecoveryInit, Reached
<1>3. \A c : ~Owed(c, 0)
  BY DEF Owed
<1>4. \A c \in Conversation : Agrees(c, 0)
  BY <1>1, <1>2, <1>3 DEF Agrees, CaughtUp
<1> QED
  BY <1>1, <1>2, <1>4 DEF OwedSound

(* What is pending is what the events leave owed (RunRecovery.observe).      *)
THEOREM OwedInvariance == WorkSpec => []OwedSound
<1>1. WorkInit => OwedSound
  BY OwedInitially
<1>2. WorkInv /\ OwedSound /\ [WorkNext]_allVars => OwedSound'
  BY OwedPreserves
<1> QED
  BY <1>1, <1>2, WorkInvariance, PTL DEF WorkSpec

(* The relay resumes only for a message it has read that neither an answer   *)
(* nor a pause follows in what was read (RelayRuntime.tick, docs/bridges.md).*)
THEOREM OwedSafe == WorkSpec => ResumesOnlyOwed
<1>1. ASSUME OwedSound, [WorkNext]_allVars, tick.at = "status", tick' = Rest,
             agent' # agent, tick.of \in Conversation
      PROVE  Owed(tick.of, cursor[tick.of])
  BY <1>1 DEF OwedSound, Agrees, CaughtUp
<1>2. WorkInv /\ OwedSound /\ [WorkNext]_allVars =>
        [tick.at = "status" /\ tick' = Rest /\ agent' # agent =>
            Owed(tick.of, cursor[tick.of])]_allVars
  BY <1>1 DEF WorkInv, WorkSound, TickSound
<1> QED
  BY <1>2, WorkInvariance, OwedInvariance, PTL DEF WorkSpec, ResumesOnlyOwed
================================================================================
