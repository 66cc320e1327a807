# A verification of the SmolPaws Message Relay

SmolPaws lets a person talk to a coding agent from WhatsApp, Slack, Discord, e-mail or GitHub. The
hard part of the program is not the chat: it is that a message must reach the agent, and the agent's
answer the person, once, in order, through restarts, lost responses, stalled workers and operators
who repair what went wrong. That is the work of the Message Relay (`src/src/coordinator`), of the
bridges that feed it, and of the conversation, admission, lease and session code of the agent server
(`src/packages/openhands-agent-server/src`). This directory models them in TLA+, checks small
instances with TLC and proves all their safety properties with TLAPS.

## 1. The system

| Component | State it keeps | Operations | Talks to | Module |
|---|---|---|---|---|
| Message work store (`store.ts`, `schema.ts`, `types.ts`) | one SQLite file: lanes, work rows, command journal, projection cursors; every operation one IMMEDIATE transaction | acceptIntake, insertDelivery, claimReady, markSending, settle, release, startCommand, finishCommand, reconcile, skip, confirmDelivered, requeue, cursor operations | everything below, from more than one process during a restart | `MessageWork`, `WorkQueue` |
| Message Relay workers (`messageRelay.ts`, `deliveryDispatcher.ts`) | the claim in hand across awaits | integrateNextIntake, performCommand, dispatchNext | store, agent server over HTTP, the platform | `MessageWork`, `RelayIntake` |
| Delivery outbox (`messageRelay.ts`) | a cursor into each conversation's event log | syncDeliveryOutbox, isQueuedFinalEcho | store, agent server | `DeliveryOutbox`, `Outbox` |
| Relay runtime (`relayRuntime.ts`, `outboundRelay.ts`) | active tick, running commands, timer | start, accept, runOnce (coalescing), tick, stop | all workers, scheduler, run recovery | `RelayRuntime`, `MessageRelay`, `ScheduledWork` |
| Task scheduler (`taskScheduler.ts`) | tasks and their runs in a SQLite file | schedule, update, pause, resume, cancel, due, enqueued, observe | runtime (due runs become intake), agent events | `TaskScheduler` |
| Run recovery (`runRecovery.ts`) | projection of a conversation's events | observe, resume or park | runtime, agent server | `RunRecovery`, `ScheduledWork` |
| WhatsApp bridge (`apps/whatsapp`) | the ledger of a chat: sequence, dispatched and seen marks; the relay runtime | upsert, pollChat, start, stop | WhatsApp, runtime | `WhatsAppBridge` |
| Event service (`eventService.ts`) | one conversation: event log, running agent, rerun flag, run generation | sendMessage, run, pause, interrupt, condense, close | admission, lease, publish/subscribe | `EventServiceRun` |
| Run admission (`runAdmission.ts`) | free slots, waiters, shared reservations | tryAcquire, acquire, abort, share, release | event service, conversation service | `RunAdmission` |
| Conversation lease (`conversationLease.ts`) | lease file and lock file in the conversation's directory | claim, renew, guardedWrite, release | event service of every server process | `ConversationLease` |
| Conversation service (`conversationService.ts`) | open conversations, lifecycle lock | create, open, fork, delete, close | event service, lease | `EventServiceRun`, `ConversationLease` |
| Sockets (`pubSub.ts`, `sessionSocket.ts`, `sockets.ts`) | subscribers, buffers, last sequence sent | subscribe, replay, publish, close | event service, clients | `SessionSocket` |
| Other bridges, relay server, routers, tools | platform sessions, processes, files | receive, send | relay runtime | none |

A message travels: bridge, `RelayRuntime.accept`, `acceptIntake` (durable), `integrateNextIntake`
(claim, append to the conversation by event id, settle), the agent runs, its deliverable events are
read by `syncDeliveryOutbox` into delivery rows, `dispatchNext` (claim, `markSending`, platform,
settle). A `/condense` message is a *command*: it is not appended; the relay asks the agent server to
condense the conversation, and the person gets a receipt. A scheduled task enters the same way: a
tick turns what is due into messages, learns from the conversation's events how the runs end, and
resumes or parks the runs that a restart cut off.

What makes the system hard: a claim is kept across awaits while its lease runs out; a crash between
any two awaits; two databases that cannot be written in one transaction; external effects (platform
send, condense, an action of the agent) that cannot be undone or repeated; a lane is a queue, so one
stuck row stops everything behind it; operators change rows while workers hold them; an answer that
was given up on may still arrive. `PROJECT.json` lists the hazards line by line, with the properties
that cover them.

How the modules are composed:

    AgentEvents -- RelayLane --+-- RelayIntake ----+-- MessageRelay      RunAdmission
                               +-- DeliveryOutbox -+                          |
                                     | implements                       EventServiceRun
                                   Outbox                                     | implements
                                                                        AdmissionSpec
    TaskScheduler -- RunRecovery -- ScheduledWork       RelayRuntime -- WhatsAppBridge

    MessageWork -- implements -- WorkQueue -- implemented by -- RelayIntake

    ConversationLease        SessionSocket

A plain line to the right is EXTENDS: the module at its end adds actors to the state of the other one.
`Outbox` and `WorkQueue` are abstract specifications, reached by INSTANCE with a refinement mapping.
Where two modules model the same code they do it at different grains: `MessageWork` has the claims,
leases and retries of every row and knows nothing of conversations; `RelayIntake` has the network
and the server's handler and one worker, whose claims are only "claimed"; in `ScheduledWork` and
`RelayRuntime` the way of a message into its conversation is a single step that may fail. The first two
grains are tied together by a proof: the rows of `MessageWork` and those of `RelayIntake` both
implement `WorkQueue`, so the worker of `RelayIntake` does nothing to a row that the promise of the
store excludes.

## 2. Plan

Done: the store and its workers (1), intake, outbox and their composition with an agent server (3, 4),
scheduler, recovery and their composition (5), the run chains over the pool (6), the lease (7), session
sockets (8), the relay's ticks and the WhatsApp bridge (9), with proofs of every safety property that a
passing run checks (10).

Left, in order of what it would add:

1. The lane directory (`resolveLane`), unparking of a cursor by hand.
2. The lifecycle queue and the forking of `conversationService.ts`, condensation in
   `eventService.ts`.
3. The cursor of the relay server's Slack checker; the WhatsApp bridge's hand-over from the earlier
   host and the reconnection of its socket.
4. The conversation runtime of the earlier agent server (`apps/agent-server`).

## 3. `MessageWork`: rows and claims

### State

| Variable | Code |
|---|---|
| `work` | table `work`: row identity to its state, lane, `lane_sequence`, `claim_generation`, `attempts`, `send_attempted`, `available_at`, `claim_until` |
| `command` | table `intake_commands`: status and `attempt_deadline` |
| `claims` | the `ClaimedWork` values workers hold in memory, stale ones included, and the await they are in |
| `effects` | history: platform sends and condense requests begun for a row |
| `requeues` | history: operator requeues of a row |
| `faults` | how many disturbances happened so far |

A row is named by its kind and source key, which `ux_work_kind_source` makes unique; `event` and
`receipt` rows are both deliveries and share one queue per lane. Timestamps are kept as the time left
until they are reached: `wait` for `available_at` of a row that waits for a retry, `lease` for
`claim_until`, `deadline` for `attempt_deadline`; `Tick` counts all of them down together. Payloads,
errors, jitter and reasons of rejections are left out. `claimReady` takes the claimable head with the
smallest `available_at`; the model lets it take any claimable head, so what holds of the model holds
of every order between lanes. At most one process sweeps at a time, but nothing depends on it: the
sweep is one transaction.

### Actions

| Action | Code |
|---|---|
| `AcceptIntake`, `InsertDelivery` | `acceptIntake` with the insertion of the command's journal entry; `insertDelivery`. A known source key returns the stored row: a stuttering step |
| `ClaimReady(kind)` | `claimReady`: ready, due and at the head of its lane; new generation, one more attempt |
| `IntegrateDone`, `IntegrateRetry`, `IntegrateReject` | how `integrateNextIntake` ends with an ordinary message, a retryable and a permanent error; each ends in the fenced `settle` or `finishCommand` |
| `StartCommand`, `PerformCommand` | `startCommand` (the attempt fence) and the request after it; `performCommand` ends in `finishCommand` |
| `DispatchInvalid`, `DispatchRelease`, `DispatchSend`, `DispatchSettle` | `dispatchNext`: no target or bad payload; transport down, claim given back; `markSending` and the send; the answer, or its failure, settled |
| `Reconcile` | `reconcile` as one transaction: rejected and expired commands completed, lapsed claims swept (to `delivery_unknown` when a send was begun), due retries released |
| `Skip`, `ConfirmDelivered`, `Requeue` | the operator's transitions |
| `Crash(c)`, `Tick` | a worker gone with its claim; time |

`Settle`, `FinishCommand` and `CompleteCommand` are the operators for `settle`, `finishCommand` and
`completeCommand`, which the actions share. An action is one transaction together with the worker's
own step up to its next await, so two actions of one worker can have anything between them.

### Properties

- `HeadOfLine`: a row that was ever claimed has only `done` or `skipped` rows ahead of it.
- `OneLiveClaim`: of all claims still in some worker's hands, one at most is accepted by the store.
- `EffectOnce`: `POST /condense` is issued at most once for a command, and a delivery is sent once,
  plus once for each requeue by an operator.
- `CommandJournal`: journal, receipt and intake row of a command always agree; a command never blocks
  its lane.
- `QueuePromise`: the queues of all lanes implement `WorkQueue`. There a queue is the sequence of its
  rows, each `open` (`ready`, `retry_wait`), `claimed`, `blocked` (`failed`, `delivery_unknown`) or
  `resolved` (`done`, `skipped`); rows join at the end, only the first row that is not resolved moves,
  and a resolved one never does. The mapping finds a row by its `lane_sequence`. A step of the store
  may be one of many queues: a sweep settles rows of several lanes and adds their receipts.
- `ResolvedIsFinal`: no step changes the state of a resolved row. It is proved and in no run, since a
  step that violates it violates `QueuePromise`.
- `Progress`, `CommandAnswered`: every row is resolved and every command answered, unless the row, or
  one ahead of it, waits for an operator.

### Fairness

`RelayRuntime.start` runs a tick on a timer; a tick reconciles first and then claims both kinds, so
`Reconcile` and `ClaimReady` are weakly fair, and so is time. A worker that has neither crashed nor
stalled finishes with its claim: it has a timeout of its own, shorter than the lease (a send is given
up after 30 s, a claim lasts 60 s; the request of a command has the very deadline that is stored with
it). Operators are not fair: nothing obliges them to repair anything, which is why the liveness
properties have the exception `Stopped`. Crashes, lapses under a working worker and refused
transports are counted in `faults` and end at `MaxFaults`: the usual assumption that the system is
eventually left alone. Without it a worker that crashes each time would be retried for ever (a
hazard listed as uncovered: the code has no bound there).

### Runs

| Run | Instance | Shows |
|---|---|---|
| `work_rows` | 1 lane, 2 messages, each ordinary or a command, with the receipts of the commands; 1 fault, 1 requeue of each row; 530,921 states | `HeadOfLine`, `OneLiveClaim`, `EffectOnce`, `CommandJournal` |
| `work_progress` | 2 lanes, a message and an event, whose receipt and delivery may share a queue; 1 fault, with fairness | `QueuePromise`, `Progress`, `CommandAnswered` |

`ClaimTtl` is 1 and `CommandTimeout` 2 so that the command's deadline is later than the lease it
replaces; two attempts give one retry with a backoff and one exhaustion. Two rows of a lane are
enough for overtaking and for a stale claim on a row whose successor moves; a receipt is a delivery,
so the rows of two messages also give the deliveries of `EffectOnce`. A queue is independent of the
queues of other lanes, so `work_rows` keeps one lane, where rows meet most, and `work_progress` two;
that one sweep may answer commands of several lanes is left to the proof of `CommandJournal`. With
more faults only chains of the same stale claims get longer, and the safety properties are proved
for any number. Symmetry of keys and lanes is used only where no liveness is checked. The type
invariant, and the whole inductive invariant `Inv`, are in no run: they are proved (section 10).

## 4. `RelayIntake`, `DeliveryOutbox`, `MessageRelay`: one lane and its conversation

`AgentEvents` is what the relay tells apart in an event log: messages it appended (`user`), and of
the agent's events the deliverable ones, `send` (a `send_message` action), `final` (text that ends a
turn) and `error`. `RelayLane` is what both workers of a lane share: the conversation on the server
(`absent`, `foreign` if another relay store created it, `present`, `deleted`), whether the running
server has it `loaded`, `conversation_ready`, and the log.

### `RelayIntake`

`intake` are the intake rows, `worker` the await that `integrateNextIntake` is at, `requests` the
appends in flight: a worker that gives up on a call leaves its request behind, and the server may
serve it much later. `asked` is a history variable: the messages a run was requested for when they
were in the log.

`Claim`, `CreateAnswered` / `CreateRejected` / `CreateLost`, `MarkReady`, `AppendAnswered`,
`AppendTimedOut`, `AppendBroken` and `Reclaim` are the worker, from await to await; `Lookup`, `Store`
and `AskRun` are `EventService.sendMessage` on the server, with the await between the lookup of the
event id and the append, and a second lookup inside `EventLog.append`; `SkipMessage` and
`RequeueMessage` are the operator.

- `PostedOnce`: a message is in the log at most once, however often its append was sent.
- `PostedInOrder`: messages are in the log in the platform's order, but for one an operator skipped.
- `DoneIsServed`: a settled message is in the log and had a run requested for it.

### `DeliveryOutbox` and the specification `Outbox`

`cursor` and `parked` are the projection cursor, `outbox` the delivery rows in sequence order (as
positions of the log), `skipped` those an operator gave up, `sync` the await of `syncDeliveryOutbox`.
`StartSync`, `Fetch`, `ScanPlain`, `ScanFinal`, `SearchBack`, `InsertFinal` and `EndPage` are its
steps; a page is a snapshot, the log grows and rows are skipped between any two of them; `SyncFails`,
`SearchFails` and the crash start again at the cursor. `Verdict` is one page of `isQueuedFinalEcho`:
whether the text that ends a turn repeats what was already queued in it.

`Outbox` says what this is for, without pages, cursor and crashes: each deliverable event of the log
enters the queue at most once and in the order of the log, and none is passed over but an echo of one
that was queued. `Promise == INSTANCE Outbox` is the refinement mapping (the positions themselves),
`OutboxPromise` the property. One exception had to be admitted, `Reconsidered`: if the delivery that
a final text repeats is skipped after the text was passed over and before the cursor was saved, a
crash replays the page and queues the text after later events.

- `OutboxPromise`: the outbox implements `Outbox`.
- `CursorIsSafe`: everything below the cursor is queued, an echo, or not deliverable.

### `MessageRelay`

The composition: a tick integrates first and syncs then, so the two workers of a process never
interleave with each other, but with the server, the agent (`AgentSpeaks`), a client that deletes the
conversation, a restart of the server that may leave the conversation unloaded (its lease seems to be
another's) and a crash of the relay.

- `MessagesServed`: every accepted message is served, unless it or one before it waits for an
  operator.
- `RepliesQueued`: every reply is queued or known as an echo, unless the outbox was parked because
  the server did not know the conversation; nothing in the code unparks it by itself.

Fairness: the tick is repeated on a timer and gives both workers their turn (SF for `Claim` and
`StartSync`, which the other worker disables again and again), calls are answered or given up, the
server goes on with what it has received (WF).

| Run | Instance | Shows |
|---|---|---|
| `relay_lane` | 2 messages, 2 events of the agent in 2 texts, pages of 2, 2 attempts, 1 requeue, 1 fault | all seven properties above, with fairness |

A page of two with a log of four makes turns that begin on an earlier page; two texts make an echo and
a non-echo; two attempts and a requeue give four calls of one append. The five safety properties are
proved for any constants, so one fault is enough here.

## 5. `TaskScheduler`, `RunRecovery`, `ScheduledWork`: from a due time to a result

`TaskScheduler` has `task` (`scheduler_tasks`), `run` (`scheduler_runs`, by task and due time) and the
clock, in units of a recurring task's interval. Its actions are the transactions: `Schedule`,
`Update`, `Pause`, `Resume`, `Cancel`; `Reserve` (the writes of `due`, which looks at one task after
the other in no particular order, so the model chooses one); `Enqueued`; `Observe` (an event of a
conversation). The module lets any event come at any time.

- `OneRunAtATime`: a task has one open run, and a conversation one open run of its group's tasks.
- `NeverStranded`: an active recurring task waits for a time or for the end of a run.
- `EndedStaysEnded`: a run that has ended keeps its status, whatever is replayed.

`RunRecovery` adds the event logs and `relay_runs`, the progress the relay has read from them.
`ScheduledWork` composes both with the tick (`StartTick`, `Submit`, `MarkEnqueued`, `StartRead`,
`ReadEvent`, `EndRead`, `AskStatus`, `Park`, `ResumeRun`: one action per await), the agent (`Act`,
`Outcome`, `Finish`, `Break`, `GetStuck`), chat messages and pauses of people in the same conversation
(`Chat`, `Halt`), restarts of the server that append the error of an interrupted tool, and crashes of
the relay between any two awaits.

`agent` has the execution status, one of `AgentStatus`, how much the last call of the model has read,
and `stopping`: a pause sets the status at once, but the step under way goes on to its end (`runOnce`
looks at the status between steps, under the step lock), so a paused agent may still act (`AtWork`)
until `Stopped`. A message after the pause makes the status `idle` meanwhile and starts no other run,
since the old one holds the ticket. A conversation restored after a restart has no agent: a pause then
only logs its event. `GetStuck` is `checkStuckOrNudge`: the stuck detector, on by default, ends a run
before a step when the last steps repeat themselves, and logs nothing. The relay neither parks nor
resumes a conversation that is `stuck` or `paused` (`relayRuntime.ts:249-255`), and a pause that it
reads takes back what was owed (`runRecovery.ts:14`; `Settling` in the model).

- `PostedOnce`: the message of an occurrence is in its conversation once.
- `SettledWasPosted`: a run starts and ends only by what its conversation says.
- `SchedulerSpec`: every step of the composition is, for the scheduler, a step of `TaskScheduler` or
  none, though there `Observe` and `Enqueued` come from the pages and the batch of a tick. It is proved
  (`ImplementsScheduler`) and in no run.
- `RecoveryRemembers`: of what was read, a message is pending until an answer or a pause follows it in
  the log, and an action is listed until its observation is in the log.
- `ResumesOnlyObserved`: the relay resumes a conversation only where every action up to its cursor was
  observed; an error in place of an observation is not enough.
- `ResumesOnlyOwed`: the relay resumes a conversation only for a message up to its cursor that is
  followed there by no answer and no pause. This is how far "Explicit pauses are respected"
  (`docs/bridges.md:209`) goes: a pause that is in the log but not read yet stops nothing after a
  restart, when the conversation is `idle`.
- `NoActionRepeated`: a run is resumed only where every action has its outcome.
- `SubmittedRunsEnd`: what was submitted ends, whatever crashes, unless its conversation is for good
  left to people (`LeftToPeople`): a message failed and waits for an operator, a pause is the last
  thing a person said there, or the agent is stuck. Each of the three is needed; without the second or
  the third TLC finds a started run that stays open.
- `InterruptedPausesTask`: see Findings.

Fairness: the tick is repeated and comes to every conversation (SF for `StartTick` and `StartRead`),
its steps, the agent, the delivery of messages and time go on (WF). Nobody is obliged to speak, to
pause or to take a pause back, and the agent need not get stuck.

| Run | Instance | Shows |
|---|---|---|
| `scheduler` | 2 tasks of a group and an isolated one, 2 intervals, 1 command to an existing task | the three properties of `TaskScheduler` |
| `scheduled_work` | 1 task with 1 interval, 1 chat message, 1 pause, 1 action, 1 fault | all of `ScheduledWork` but `SchedulerSpec` and the last, with fairness |
| `scheduled_interrupted` | 1 task, no chat, no pause, 1 action, 1 fault | violated: see Findings |

Two group tasks compete for one conversation, the isolated one has nothing but `next_run` to keep it
from a second run; the second interval lets an occurrence come back. `MaxEvents` is 10, more than the
run's log ever holds: with `WorkTypeOK`, which says so, as an invariant the run passes too. Commands on
tasks are left to `scheduler`: a command meets a run only inside the scheduler's own transactions, and
by `ImplementsScheduler` the composition adds nothing to them. One chat message and one pause come in
every order, before and after the run's message, its action, the restart and the reading. What the
model shows of the code besides: an error of any tool ends a started run as failed, though the agent
goes on; a run that is resumed because its status was read before the agent went on by itself gives a
second answer; a replayed page may end a run of a group by the reply to an older one.

## 6. `EventServiceRun` and `RunAdmission`: run chains over the pool

`RunAdmission` is the capacity pool by itself: `available`, `waiters` and `held`, the reservations
whose handles are not all released. An owner is one handle (`RunSlot`) or one call that waits for
one; a reservation is the set of owners that share it, so its `references` is the size of the set.
`TryAcquire`, `Enqueue`, `Abort`, `Share` and `Release` are its operations; `Freed` hands the slot of
a reservation that ended to the first waiter. `AdmissionSpec` lets any owner do any of them at any
time. It serves as a component and as the abstract specification: `EventServiceRun` extends the
module, uses its operators as the pool's operations, and is shown to implement `AdmissionSpec`.

`EventServiceRun` is the code that uses the pool: `ConversationService.startConversation`, and for
each conversation an `EventService` with its chain of runs and the step loop of `LocalConversation`
(the vendored SDK). The program is single-threaded, so an action is what happens between two awaits;
`pc` says at which await the chain is.

| Variable | Code |
|---|---|
| `service[c].pc` | the await `runAndPublish` is at; `none` when `runPromise` is null |
| `.started`, `.generation` | the generation the chain was launched with; `stopGeneration` |
| `.rerun` | `rerunRequested` |
| `.status` | `executionStatus`; `error` stands for ERROR and STUCK, which the next run treats alike |
| `.latest`, `.seen`, `.read` | the last user message of the log; the one the last step began with; `lastStepUserMessageId` |
| `.agent`, `.pauses` | `conversationPromise` is fulfilled; pauses that await it |
| `.phase` | where the conversation is between its creation and the end of `close` |
| `requests` | calls of `sendMessage` that await their append |
| `history` | what clients were told and the agent was shown; no action asks for it |

| Action | Code |
|---|---|
| `Create`, `Initialize`, `InitialMessage`, `Created`, `CreateFails`, `CreatorReleases` | creation under a slot of its own, which the first run shares |
| `SendMessage`, `Appended`, `AppendFails`, `ResendMessage`, `Post` | `sendMessage` up to its append; what follows it; a failure of the append; a repetition with the same event id |
| `RequestRun`, `Pause`, `PauseApplied`, `Close`, `Closed` | the other requests; `whenIdle` |
| `Enter`, `Resume`, `StartRun`, `EndRun`, `FailRun`, `EndTail`, `EndFailure`, `FailTail`, `Settle` | `runAndPublish` and the `finally` of its ticket, from await to await; any await may throw |
| `BeginStep`, `EndStep`, `Stuck` | the loop of `runOnce` |

A refused request (conversation closing, capacity full, chain already there) has no effect and is a
stuttering step, apart from what `Post` does before it. A message enters the log when `sendMessage`
appends it, and the rest of that call (saving, publishing) may end at any time later or throw.

- `SlotsMatchWork`: a run that prepares or steps has a slot; no slot or place in the queue outlives
  its chain, however it broke off.
- `ClosedIsQuiet`: a closed conversation has no chain, slot or place in the queue, also when
  requests were on their way.
- `AdmissionSpec`: the refinement. The pool's own invariant, `AdmissionInv` (no slot is lost or made,
  nobody waits beside a free slot, owners are distinct), is proved of it.
- `PauseHolds`: after a pause has taken effect no step begins until a run is asked for.
- `Answered`: a message whose run was accepted is shown to the agent, unless a stop or failure
  follows: a chain that ends forgets nothing that joined it.
- `CloseEnds`: closing comes to an end.

Fairness: every await of the server itself ends: appends, saves, publications and the construction of
the agent are local, and a step of the agent has the deadline of its model client. So the steps of a
chain, of a creation, of an applied pause and of `whenIdle` are weakly fair. Clients are not: nobody
has to send, pause or close. Nothing is assumed of the order in which chains make progress.

| Run | Instance | Shows |
|---|---|---|
| `run_chains` | 1 conversation, 1 slot, 2 iterations, 2 messages, 1 stop, with fairness | all six properties above |
| `run_late_joiner` | 1 conversation, 1 message, no stop, with fairness | violated: see Findings |

`MaxMessages` bounds the user messages, though every conversation may have an initial one;
`ResendMessage` and `RequestRun` are not bounded, so chains of any length occur. `MaxStops` bounds the
pauses, not the closing of a conversation. The creator of a conversation and its chain compete for
the slot, share it and queue for it. With two conversations liveness does not hold and is not meant
to: a chain with unread continuations keeps its slot (the comment at `eventService.ts:514`), so a
conversation that is written to without end starves others; this is listed as a hazard without a
property. The safety properties are proved for any number of conversations and slots. Deadlock is not
checked: the server is at rest when every conversation is closed.

## 7. `ConversationLease`: who owns a stored conversation

`lease` is the lease file, reduced to its owner, its generation and whether it has expired; `lock` is
whether the lock file exists, which does not say whose it is; `job` is what each thread of a server
(its main line, and the timer that renews) does with the lease: `claim`, `renew`, `save` (a
`guardedWrite`) or `release`, waiting for the lock, before the check, before the write that the check
permits, or before the removal of the lock; `claimed` is the generation a server believes it holds.
A server that restarts is another one. `Enter` and `GiveUp` are `acquireLock`, `Leave` the `finally`
of `withLock`; `Expire` lets a lease run out under a live owner (`MaxStalls`) or a dead one; `Crash`
leaves the lock of the crashed server behind; `Delete` is `deleteConversation`, which removes the
directory, lock and lease included, without holding the lock.

- `OneInside`: one thread of all servers is inside the lock. It is proved and in no run: what it is
  for is `WritesFenced`.
- `WritesFenced`: a guarded write, renewal or release happens under the lease it was permitted by.
- `TakeoverIsJustified`: a live owner loses its lease only after it expired, and to a higher
  generation.
- `DeadOwnerReplaced`: the conversation of a dead server goes to another one that wants it, unless
  the crash left the lock behind.

The first three are stated until a deletion: after one the model shows two threads inside the lock, a
renewal in flight that overwrites a successor's lease, and a `finally` that removes its lock
(`conversationService.ts:218`). The exception of the fourth is `conversationLease.ts:151`: nothing
removes the lock file of a dead process. Not shown, because the code does not promise it: a server
that lost its lease goes on believing it has it until its next guarded write, and appends of events
are not guarded at all (`eventService.ts:577`).

Fairness: what is inside the lock gets out and time passes (WF); a thread that waits does not miss a
lock that is free again and again (SF: it polls for five seconds), and a server without the
conversation is asked for it again (SF: the relay retries).

| Run | Instance | Shows |
|---|---|---|
| `lease` | 2 servers on 2 hosts, 1 stall, 1 crash, 1 deletion, with fairness | the last three |

Servers of one host can see that an owner is dead, those of different hosts cannot: the instance takes
the harder case. The safety properties also hold of three servers (5.6 million states), and are
proved for any number.

## 8. `SessionSocket`: replay joined with live events

The event log, what of it was published and the phase of the run chain on one side; on the other a
client with one connection at a time, over several connections, that asks for what follows the
highest number it has seen. `Connect`, `Replay`, `GoLive` are `SessionSubscriber` (what is published
during the replay is buffered, what the replay brought is dropped from the buffer, what does not fit
shuts the writer); `ConnectAndResend` is the older endpoint; `MessageStored` / `MessageSaved` and
`RunStarts` / `AgentActs` / `RunEnds` / `RunSaved` are when the event service logs and publishes;
saves may fail and the server may restart. `got`, `twice`, `seen` and `overtaken` are history.

- `NothingBetween`: a live connection has brought all of the history it asked for and all that was
  published since.
- `TwiceOnlyIfLate`: a connection brings an event twice only if it was first published after the
  replay had read it from the log.
- `MissedOnlyOvertaken`: below its highest number a client misses only events that were published
  out of order, whatever the restarts and connections.

| Run | Instance | Shows |
|---|---|---|
| `session_replay` | 4 events, 3 connections, a buffer of 1, 1 fault | the three properties |
| `session_reconnect` | 2 events, 2 connections, no fault | violated: see Findings |

Four events let two be published out of order while one is replayed and one buffered; a buffer of one
overflows. There is no liveness: only the client can end a connection whose writer has given up
(`sessionSocket.ts:104-112` waits for the client), so a slow consumer may stay silent for ever. Two
cases are left out: a live frame of more than `MAX_FRAME_BYTES` gives the writer up as a full buffer
does (lines 138-141), and the replay passes over an event that cannot be read (line 243), which the
client then never gets.

## 9. `RelayRuntime`, `WhatsAppBridge`: ticks, stops, and how a chat becomes prompts

`RelayRuntime` is the life of the runtime: `phase` is between `start` and the end of `stop`, `tick`
what the active tick awaits, `accepted` and `queue` the intake rows, `commands` the commands that run
beside the ticks. `Wake` is `runOnce`, which joins a tick under way; `Stop` waits for the tick and
then for the commands, one of which may begin in that very tick; a runtime whose first tick fails is
stopped. What a tick does with a message is one step that may fail.

`WhatsAppBridge` is one chat of the bridge on top of it: the ledger (`kinds` by sequence number, the
marks `dispatched` and `seen`) and `poll`, what `pollChat` awaits. A poll takes what is fresh, splits
it at the commands, and for each segment reads the transcript (`ReadTranscript`), has the relay accept
it (`AcceptSegment`), marks it seen and then dispatched (`MarkSeen`, `MarkDispatched`); a segment in
which nobody addresses the agent is passed over and becomes context of a later one. The ledger and
the relay's store are two databases: between any two of these steps the process may crash or a call
fail, messages arrive, the bridge stops.

- `ClosedIsAtRest`: when the databases are closed no tick, command or poll is under way.
- `ContextComplete`: with the answer to a message the agent has got everything that was said before
  it, also what nobody addressed to it, stood before a command, or was interrupted by a crash.
- `ShownOnce`: a message is in one prompt, and in one more for each crash or failure at most.
- `WantedIsHandedOver`: every addressed message and every command gets to the agent.

What `ShownOnce` allows does happen: after a crash between the acceptance and the marks the old
messages appear again in the next prompt, if a new message has arrived meanwhile, and one that arrives
between the marks may bring an answer nobody wanted.

Fairness: timers fire and awaits end; the service manager keeps the process alive
(`docs/bridges.md:34-35`) and WhatsApp lets the socket open again (`scheduleReconnect`); a burst of
messages comes to an end (the debounce at `adapter.ts:515` has no upper bound). `MaxFaults` is below
the attempts of an intake row, so that none fails for good.

| Run | Instance | Shows |
|---|---|---|
| `whatsapp` | 3 messages of any kind, 2 faults, 1 orderly stop, with fairness | all four |

Three messages are one before, one at and one after a command, or a segment with a newcomer; the
second fault interrupts what the first one has made be repeated. `TypeOK` holds in the same run and is
proved.

## 10. Proofs

Every listed theorem is for any value of the constants; the only assumptions are the named ones of
the modules, which give the constants their types (`EventServiceAssumption`: the owners are the
creators and the chains; `RunAdmissionAssumption`: at least one slot; `TaskSchedulerAssumption`: the
tasks are finitely many; `DeliveryOutboxAssumption`: a page is not empty). Each proof module shows
that an invariant holds initially and is kept by every action, one lemma or step per action, and what
it implies. What the invariants add to the properties, and why:

| Module | Theorems | The strengthening |
|---|---|---|
| `MessageWorkProofs` | `Invariance`, `TypeCorrect`, `NoOvertaking`, `JournalAtomic`, `Fencing`, `AtMostOnce`, `Finality`, `ImplementsQueue` | see below |
| `MessageRelayProofs`, intake | `OnceSafe`, `OrderSafe`, `DoneSafe`, `ImplementsQueue`, `TypeCorrect` | `ClaimHeld`: while a worker works on a message that message is claimed and all before it are resolved. `RequestsSound`: an append in flight, awaited or not, is of a message with only resolved ones ahead of it, and how far it has got in the server agrees with the log. `PostedAreFirst`: so has every message of the log; a late call can therefore overtake none but a skipped one |
| `MessageRelayProofs`, outbox | `CursorSafe`, `KeepsPromise` | `QueueSound`: all events before a queued one are settled: queued, an echo of a queued one, or not deliverable. `CursorSound`. `SyncSound`: at an event all before it are settled; while the turn is searched backwards (`AtSearch`) the part that was searched is silent, so that `NoEcho` holds when the event is inserted, though rows are skipped meanwhile |
| `TaskSchedulerProofs` | `RunsSafe`, `TasksSafe`, `EndsSafe` | `NextOnlyBetweenRuns`: no next time while a run is open. `RunsWereDue`, `NextIsFresh`: runs exist only for times that have come, and the next time of a recurring task has had none, so that `INSERT OR IGNORE` does insert. `RunsAreScheduled`: only scheduled tasks have runs |
| `ScheduledWorkProofs` | `ImplementsScheduler`, `SchedulerSafe`, `PostsSafe`, `SettlesSafe`, `RemembersSafe`, `ResumesSafe`, `OwedSafe`, `ActionsSafe` | see below |
| `EventServiceRunProofs`, pool | `AdmissionSafe` | types, conservation, no idle slot and distinct owners are inductive only together: `Release` needs distinctness to take one slot for one reservation, and `NoIdleSlot` to hand it on |
| `EventServiceRunProofs`, chains | `TypesSafe`, `SlotsSafe`, `ClosingSafe`, `ImplementsAdmission`, `PauseSafe` | `Placed`: where each owner may be at each await. `Alive`: requests exist for created conversations only. Each action uses the pool by one of its operations under that operation's condition, so the lemmas about the pool carry over. `PauseInv`: while a pause is in force, a chain that could begin a step belongs to an older generation or finds the status paused |
| `ConversationLeaseProofs` | `MutualExclusion`, `Fencing`, `TakeoverSafe` | `LockMade`: who is inside has made the lock. `ClaimsDecided`: between the check of a claim and its write the lease stays one that may be taken over, and the generation the next one. `Busy`: a thread that is not at rest has an operation |
| `SessionSocketProofs` | `ReplaySafe`, `MissedSafe`, `TwiceSafe` | see below |
| `WhatsAppBridgeProofs` | `ClosedSafe`, `ContextSafe`, `OnceShown` | see below |

`MessageWorkProofs`. `Numbered`: the rows of a queue have the sequences 1, 2, ... without gap or
repetition, so a new row is behind all others and `MAX(...) + 1` has a value. `RowsSound`: a row that
is not ready was claimed once, so that the exemption of unclaimed rows from `HeadOfLine` hides
nothing; only a delivery is marked as being sent, and never one that can be claimed. `ClaimsSound`:
generations of claims never exceed those of their rows, and no two claims of a row share one; a live
claim is in the phase that the durable fields tell. This is the fence. `EffectsSound`: what the
durable fields tell of the effects begun so far. `ReceiptsSound`: a receipt belongs to a command. The
sweep, which completes a set of commands at once, needs that two commands that complete together are
in different lanes: by `HeadOfLine` both were claimed, so neither is ahead of the other. The same fact
carries the refinement: `RowsMove` says of every action what a row may become (`RowsStep`), and a row
that moves is at the head, by the guard of a claim or, having been claimed, by `HeadOfLine`. `Numbered`
makes the row that the mapping chooses unique (`StandingsAt`), so `QueueSteps` reads the steps of the
rows as steps of the sequences.

`MessageRelayProofs`. That the rows implement `WorkQueue` takes one invariant more, `RowsSound`: the
messages accepted so far are the first ones, and a row that is claimed or failed is the first one not
resolved. `TypeCorrect` says among the types that the server keeps no response that nobody waits for;
this takes `CallsSound`: no two calls in flight have the same message and attempt, none has an attempt
beyond the one its row counts, and a worker has not called for its attempt before it appends. The outbox implements `Outbox`: initial states map to initial states, every step to a
step of `Outbox` or a stutter. The specification is the composed one, `MessageRelay`: of the log the
intake, the server and the agent only need to be known to append.

`WhatsAppBridgeProofs`. `Sources`: an intake row stands for a message of its kind and shows none that
came after it. `SeenShown`: what is marked as seen was shown, but for commands; from this and
`PromptSound` (a prompt has all that is unseen) follows `ContextComplete`. `SeenFresh`: what is marked
as seen and not yet as dispatched is in a segment that was accepted before, so the segment a later
poll makes of it ends at the same message and is recognised, or goes further and has something unseen
to show. `CountSound`: every showing of a message but the one that is marked, or about to be, has cost
a fault. The ends of segments (`SegmentIs`) are those of bounded sets of numbers, which have a
minimum and a maximum because the natural numbers are well founded (`HasMin`, `HasMax`).

`ScheduledWorkProofs` extends `TaskSchedulerProofs`: each action is shown to be a step of the scheduler
or to leave it alone (`StepOfScheduler`), so the invariant of the scheduler and with it `RunsSafe`,
`TasksSafe` and `EndsSafe` carry over without being proved again (`SchedulerSafe`). Of the
conversations: `SendersSound`: a message of a run is in the run's conversation, and its intake row says
so, which is why a second acceptance posts nothing. `TickSound`: a page being read lies beyond the
cursor and within the log, which may have grown since. `RestingSound`: where the agent is not at work, a
step that a pause has left under way counted as work, every action has an outcome, also after a restart.
`RecoveryRemembers` is inductive with these because it speaks of `Reached`, the cursor or, within a
page, the event before the next one: a crash in the page falls back to the cursor, and what was read
twice is folded into the progress twice. `ResumesOnlyObserved` follows from it and from `MustPark`.
`ResumesOnlyOwed` takes a second invariant, `OwedSound`: what is pending is what the events up to some
position leave owed, which lies at or beyond the one reached, as a page that is read again goes over
events that were folded in before; the read of an answer, a pause or a message makes its own position
the one that counts; and once a conversation was read to its end in this tick, until its status was
answered, the position is the cursor. `WorkTypes` leaves the length of a log open, since a restart adds
errors beyond `MaxEvents`; TLC checks that the bound of the run is never met.

`SessionSocketProofs`. `ReplaySound`: in the replay the client has got exactly what lies between its
cursor and the next event, and everything published beyond the replay is in the buffer; at `GoLive` the
two make `NothingBetween`. `OvertakenSound`, `SeenSound`: what lies below a published, or a seen, event
is so too or was overtaken. `AskedSound`: a connection asks for what follows an event that was seen, so
that what `SeenSound` says of that event covers the part below the replay.

Not proved, and only model-checked: the liveness properties (`Progress`, `CommandAnswered`, `Answered`,
`CloseEnds`, `MessagesServed`, `RepliesQueued`, `SubmittedRunsEnd`, `DeadOwnerReplaced`,
`WantedIsHandedOver`), which are out of the prover's reach: it has no rules for fairness and `ENABLED`.

## 11. Findings

- `run_late_joiner`. The README of the agent server (lines 136-138) says that accepted continuations
  wait for capacity and that pause, interrupt and close cancel queued work. A message that is accepted
  while a failed run saves its tail joins the chain (`eventService.ts:224-225`), and line 527 drops
  what it asked for: it is stored, its sender was answered with success, and no run follows until
  something else asks for one. The same holds for a message that is accepted after a pause while the
  stopped chain winds down, because the generations differ at lines 488 and 257.
- `scheduled_interrupted`. `docs/bridges.md:207-209` says that an action without an observation parks
  its run and pauses the scheduled task. After a restart of the server in the middle of an action the
  log has an error for it (`eventService.ts:128-136`), which the scheduler takes for the end of the
  run (`taskScheduler.ts:168`) and gives the task its next time; when the conversation is parked
  afterwards, no started run is left whose task could be paused.
- `session_reconnect`. `sessionProtocol.ts:14` says that durable events survive a reconnect by
  `after_seq`. Events are published in another order than they are logged (`eventService.ts:524`,
  `:572`): a client that has seen the later number never gets the earlier event, and `goLive` drops it
  as "already sent from disk" (`sessionSocket.ts:214-215`) when it is published during the replay.

Seen while modelling, without a run:

- A conversation that is stuck or paused is neither parked nor resumed (`relayRuntime.ts:249-255`): the
  scheduled run that started there stays open and its task is not due again, until a person speaks in
  the conversation. Nothing in the log or in the relay tells of a stuck agent.
- The relay respects a pause that it has read. If the server restarts, the conversation is idle again,
  and a tick that has not read the pause resumes it.
- A message that comes after a pause, while the tool of the stopped step is still at work, makes the
  status `idle` (`eventService.ts:216-218`); a tick that asks then finds an unobserved action in an
  idle conversation and parks it as interrupted, though the action is merely not over.
- The comment on `WorkState` (`types.ts:16`) says that the terminal-resolved states are `done` and
  `failed`; a lane is resolved by `RESOLVED_STATES` (`types.ts:32`), `done` and `skipped`.
- `sessionProtocol.ts:14-16` says that a slow consumer is disconnected; the handler waits for the
  client to close (`sessionSocket.ts:104-112`).
- The comment at `adapter.ts:336` of the WhatsApp bridge speaks of at most one relay intake per chat
  and poll; `pollChat` has one accepted for each segment.
- A socket that closes while the last part of the replay is sent leaves its subscriber behind
  (`sessionSocket.ts:252`, `pubSub.ts:33`).

## 12. Not modelled

Much of the repository is input and output around the components above, or has no state of its own:
platform protocol code of the bridges, HTTP routing and parsing, files, git, shells, settings and
profiles, prompts, skills and their page scripts, launch scripts, the vendored distribution. They are
most of the implementation's lines (more than a quarter are in one page script of a skill), so the share
of lines that the models stand for is small, though the coordination code is mostly covered.
`PROJECT.json` lists every component with its status. Of the modelled components these parts are left
out: the lane directory and the unparking of a cursor; the order in which one tick serves several lanes
and its bound of 32; registration of groups, the command journal and the legacy format of the scheduler;
the stuck detector's nudge (a message of the environment in the middle of a run) and its thresholds; the
status of a conversation that is being deleted; condensation, profile switching and search in the event
service; forking and the lifecycle queue of the conversation service; deltas, authentication, incoming
and over-long frames and unreadable events of the sockets; the WhatsApp bridge's media (a message whose
download is in flight while the bridge stops is dropped and left to WhatsApp's redelivery,
`adapter.ts:443`), its reconnection and the marks of the earlier host. The two earlier runtimes
(`src/src/index.ts`, `src/apps/agent-server`) are what the modelled code replaced.

## 13. Running

    tlc -workers 2 -config MessageWork_rows.cfg MCMessageWork
    tlc -workers 2 -config MessageWork_progress.cfg MCMessageWork
    tlc -workers 2 -config MessageRelay_lane.cfg MessageRelay
    tlc -workers 2 -config TaskScheduler_tasks.cfg MCTaskScheduler
    tlc -workers 2 -config ScheduledWork_runs.cfg ScheduledWork
    tlc -workers 2 -config ScheduledWork_interrupted.cfg ScheduledWork
    tlc -workers 2 -config EventServiceRun_chains.cfg MCEventServiceRun
    tlc -workers 2 -config EventServiceRun_late.cfg MCEventServiceRun
    tlc -workers 2 -config ConversationLease_owners.cfg ConversationLease
    tlc -workers 2 -config SessionSocket_replay.cfg SessionSocket
    tlc -workers 2 -config SessionSocket_reconnect.cfg SessionSocket
    tlc -workers 2 -config WhatsAppBridge_chat.cfg WhatsAppBridge
    tlapm MessageWorkProofs.tla
    tlapm MessageRelayProofs.tla
    tlapm TaskSchedulerProofs.tla
    tlapm ScheduledWorkProofs.tla
    tlapm EventServiceRunProofs.tla
    tlapm ConversationLeaseProofs.tla
    tlapm SessionSocketProofs.tla
    tlapm WhatsAppBridgeProofs.tla
