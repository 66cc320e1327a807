------------------------------ MODULE MessageWork ------------------------------
(***************************************************************************)
(* The durable work store of the Message Relay (coordinator/store.ts) and  *)
(* the claims its workers hold on it.                                      *)
(*                                                                         *)
(* The store is one SQLite table of work rows, ordered per lane and kind,  *)
(* and a journal of maintenance commands.  Every store operation is one    *)
(* IMMEDIATE transaction, hence one atomic action.  A worker keeps the     *)
(* claim it was given across awaits: between two of its actions its lease  *)
(* may run out, the row may be reclaimed, settled or repaired by somebody  *)
(* else, and the worker may crash.                                         *)
(*                                                                         *)
(* A timestamp is kept as the time left until it is reached: `wait' for    *)
(* available_at, `lease' for claim_until, `deadline' for attempt_deadline. *)
(***************************************************************************)
EXTENDS Integers, FiniteSetsExt

CONSTANTS
    Lane,            \* lane keys; every lane is in the lane directory
    IntakeKey,       \* source keys of inbound platform messages
    EventKey,        \* source keys of deliverable agent events
    MaxAttempts,     \* RetryPolicy.maxAttempts
    ClaimTtl,        \* RetryPolicy.claimTtlMs
    CommandTimeout,  \* CONDENSE_REQUEST_TIMEOUT_MS
    Backoff,         \* Backoff[a]: the backoff after the a-th failed attempt
    MaxFaults,       \* bound on crashes, lapsed leases and refused sends
    MaxRequeues      \* bound on operator requeues of one row

ASSUME MessageWorkAssumption ==
    /\ MaxAttempts \in Nat \ {0}
    /\ ClaimTtl \in Nat \ {0}
    /\ CommandTimeout \in Nat \ {0}
    /\ Backoff \in [1..MaxAttempts -> Nat]
    /\ MaxFaults \in Nat
    /\ MaxRequeues \in Nat

VARIABLES
    work,      \* the work table: row identity -> row
    command,   \* the intake_commands table: intake identity -> journal entry
    claims,    \* claims handed to workers and not yet given up
    effects,   \* history: unrepeatable external effects started for a row
    requeues,  \* history: operator requeues of a row
    faults     \* disturbances so far, bounded by MaxFaults

vars == <<work, command, claims, effects, requeues, faults>>
-------------------------------------------------------------------------------
(* Rows are identified by (kind, source_key), which is unique in the table. *)
(* The receipt of a command is a delivery with a source key of its own.     *)

IntakeId  == {"intake"} \X IntakeKey
EventId   == {"event"} \X EventKey
ReceiptId == {"receipt"} \X IntakeKey
WorkId    == IntakeId \cup EventId \cup ReceiptId

Receipt(i) == <<"receipt", i[2]>>
Kind(w)    == IF w[1] = "intake" THEN "intake" ELSE "delivery"

WorkState     == {"ready", "claimed", "done", "retry_wait", "failed",
                  "delivery_unknown", "skipped"}
Resolved      == {"done", "skipped"}
Blocked       == {"failed", "delivery_unknown"}
CommandResult == {"succeeded", "rejected", "unknown"}

Row == [state : WorkState, lane : Lane, sequence : Nat, generation : Nat,
        attempts : Nat, sendAttempted : BOOLEAN, wait : Nat, lease : Nat]

JournalEntry == [status : {"pending", "attempted"} \cup CommandResult,
                 deadline : Nat]

(* "held": claimed, nothing irreversible started yet.  "sending": the       *)
(* dispatcher awaits the platform.  "performing": the relay awaits /condense. *)
Claim == [id : WorkId, generation : Nat,
          phase : {"held", "sending", "performing"}]

TypeOK ==
    /\ DOMAIN work \subseteq WorkId
    /\ work \in [DOMAIN work -> Row]
    /\ DOMAIN command \subseteq IntakeId
    /\ command \in [DOMAIN command -> JournalEntry]
    /\ claims \subseteq Claim
    /\ effects \in [WorkId -> Nat]
    /\ requeues \in [WorkId -> Nat]
    /\ faults \in Nat

SameQueue(v, w) == Kind(v) = Kind(w) /\ work[v].lane = work[w].lane

Ahead(v, w) == SameQueue(v, w) /\ work[v].sequence < work[w].sequence

IsHeadPastFailures(w) ==      \* wrong: failed rows do not block
    \A v \in DOMAIN work :
        Ahead(v, w) => work[v].state \in Resolved \cup {"failed"}

IsHead(w) ==
    \A v \in DOMAIN work : Ahead(v, w) => work[v].state \in Resolved

Queue(kind, l) == {v \in DOMAIN work : Kind(v) = kind /\ work[v].lane = l}

Sequences(kind, l) == {work[v].sequence : v \in Queue(kind, l)}

NextSequence(kind, l) == 1 + Max({0} \cup Sequences(kind, l))

LiveUnfenced(c) ==            \* wrong: no test of the generation
    c.id \in DOMAIN work /\ work[c.id].state = "claimed"

Live(c) ==
    /\ c.id \in DOMAIN work
    /\ work[c.id].state = "claimed"
    /\ work[c.id].generation = c.generation

Status(w) == IF w \in DOMAIN command THEN command[w].status ELSE "none"
-------------------------------------------------------------------------------
(* Accepting work.  A source key that is already in the table is returned as *)
(* it is, whatever the replay asks for: a stuttering step.                   *)

NewRow(kind, l) ==
    [state |-> "ready", lane |-> l, sequence |-> NextSequence(kind, l),
     generation |-> 0, attempts |-> 0, sendAttempted |-> FALSE,
     wait |-> 0, lease |-> 0]

InsertWork(w, l) ==
    work' = [v \in DOMAIN work \cup {w} |->
                IF v \in DOMAIN work THEN work[v] ELSE NewRow(Kind(v), l)]

AcceptIntake(i, l, isCommand) ==
    /\ i \notin DOMAIN work
    /\ InsertWork(i, l)
    /\ command' = IF ~isCommand THEN command
                  ELSE [j \in DOMAIN command \cup {i} |->
                          IF j \in DOMAIN command THEN command[j]
                          ELSE [status |-> "pending", deadline |-> 0]]
    /\ UNCHANGED <<claims, effects, requeues, faults>>

InsertDelivery(d, l) ==
    /\ d \notin DOMAIN work
    /\ InsertWork(d, l)
    /\ UNCHANGED <<command, claims, effects, requeues, faults>>
-------------------------------------------------------------------------------
(* Completing commands: outcome, receipt and end of the intake row at once. *)

CompletedWork(S) ==
    [w \in DOMAIN work \cup {Receipt(i) : i \in S} |->
        IF w \in S
        THEN [work[w] EXCEPT !.state = "done", !.generation = @ + 1,
                             !.lease = 0]
        ELSE IF w \in DOMAIN work THEN work[w]
        ELSE NewRow("delivery", work[<<"intake", w[2]>>].lane)]

CompletedJournal(result) ==
    [i \in DOMAIN command |->
        IF i \in DOMAIN result THEN [status |-> result[i], deadline |-> 0]
        ELSE command[i]]

CompleteCommand(i, result) ==
    /\ work' = CompletedWork({i})
    /\ command' = CompletedJournal([j \in {i} |-> result])
-------------------------------------------------------------------------------
(* Claiming.  The generation is the fence; the attempt is counted at once. *)

Claimed(row) == [row EXCEPT !.state = "claimed", !.lease = ClaimTtl,
                            !.generation = @ + 1, !.attempts = @ + 1]

Claimable(w) == work[w].state = "ready" /\ work[w].wait = 0 /\ IsHead(w)

ClaimReady(kind) ==
    \E w \in DOMAIN work :
        /\ Kind(w) = kind
        /\ Claimable(w)
        /\ work' = [work EXCEPT ![w] = Claimed(@)]
        /\ claims' = claims \cup {[id |-> w, phase |-> "held",
                                   generation |-> work[w].generation + 1]}
        /\ UNCHANGED <<command, effects, requeues, faults>>
-------------------------------------------------------------------------------
(* Settling: fenced by the claim's generation, and the last thing a worker *)
(* does with a claim.                                                      *)

SettledState(row, outcome) ==
    IF outcome = "retry"
    THEN IF row.attempts < MaxAttempts THEN "retry_wait" ELSE "failed"
    ELSE IF outcome = "fail" THEN "failed" ELSE outcome

Settled(row, outcome) ==
    LET state == SettledState(row, outcome)
    IN  [row EXCEPT !.state = state, !.lease = 0,
            !.wait = IF state = "retry_wait" THEN Backoff[row.attempts] ELSE @]

RejectsCommand(i, outcome) ==
    /\ Status(i) = "pending"
    /\ \/ outcome = "fail"
       \/ outcome = "retry" /\ work[i].attempts >= MaxAttempts

Settle(c, outcome) ==
    /\ claims' = claims \ {c}
    /\ \/ ~Live(c) /\ UNCHANGED <<work, command>>
       \/ /\ Live(c) /\ RejectsCommand(c.id, outcome)
          /\ CompleteCommand(c.id, "rejected")
       \/ /\ Live(c) /\ ~RejectsCommand(c.id, outcome)
          /\ work' = [work EXCEPT ![c.id] = Settled(@, outcome)]
          /\ UNCHANGED command
    /\ UNCHANGED <<effects, requeues, faults>>
-------------------------------------------------------------------------------
(* The intake worker (messageRelay.ts): append, then settle. *)

HeldIntake(c) == c.phase = "held" /\ Kind(c.id) = "intake"

IntegrateDone(c) ==
    /\ HeldIntake(c)
    /\ c.id \notin DOMAIN command
    /\ Settle(c, "done")

IntegrateRetry(c) == HeldIntake(c) /\ Settle(c, "retry")

(* The journal write of a command's outcome, fenced like Settle.  A row in  *)
(* state failed under a pending command is left by an older version only.   *)
Finishes(c, result) ==
    /\ c.id \in DOMAIN work
    /\ work[c.id].generation = c.generation
    /\ \/ work[c.id].state = "claimed" /\ Status(c.id) = "attempted"
       \/ /\ work[c.id].state \in {"claimed", "failed"}
          /\ Status(c.id) = "pending"
          /\ result = "rejected"

FinishCommand(c, result) ==
    /\ claims' = claims \ {c}
    /\ \/ ~Finishes(c, result) /\ UNCHANGED <<work, command>>
       \/ Finishes(c, result) /\ CompleteCommand(c.id, result)
    /\ UNCHANGED <<effects, requeues, faults>>

(* A permanent error before the append or the command. *)
IntegrateReject(c) ==
    /\ HeldIntake(c)
    /\ \/ Status(c.id) = "pending" /\ FinishCommand(c, "rejected")
       \/ Status(c.id) # "pending" /\ Settle(c, "fail")

(* The attempt fence, then POST /condense; only a pending command passes. *)
Starts(c) == Live(c) /\ Status(c.id) = "pending"

Attempt == [status |-> "attempted", deadline |-> CommandTimeout]

StartCommand(c) ==
    /\ HeldIntake(c)
    /\ c.id \in DOMAIN command
    /\ \/ /\ ~Starts(c)
          /\ claims' = claims \ {c}
          /\ UNCHANGED <<work, command, effects>>
       \/ /\ Starts(c)
          /\ work' = [work EXCEPT ![c.id].lease = CommandTimeout]
          /\ command' = [command EXCEPT ![c.id] = Attempt]
          /\ claims' = (claims \ {c}) \cup {[c EXCEPT !.phase = "performing"]}
          /\ effects' = [effects EXCEPT ![c.id] = @ + 1]
    /\ UNCHANGED <<requeues, faults>>

PerformCommand(c) ==
    /\ c.phase = "performing"
    /\ \E result \in CommandResult : FinishCommand(c, result)
-------------------------------------------------------------------------------
(* The delivery worker (deliveryDispatcher.ts). *)

HeldDelivery(c) == c.phase = "held" /\ Kind(c.id) = "delivery"

(* No target for the platform, or a payload the target refuses. *)
DispatchInvalid(c) == HeldDelivery(c) /\ Settle(c, "fail")

(* The transport is not connected: the claim is given back, uncounted. *)
Down(n) == IF n > 0 THEN n - 1 ELSE 0

Released(row) == [row EXCEPT !.state = "ready", !.wait = 0, !.lease = 0,
                             !.attempts = Down(@)]

DispatchRelease(c) ==
    /\ HeldDelivery(c)
    /\ faults < MaxFaults
    /\ faults' = faults + 1
    /\ claims' = claims \ {c}
    /\ work' = IF Live(c) THEN [work EXCEPT ![c.id] = Released(@)] ELSE work
    /\ UNCHANGED <<command, effects, requeues>>

(* markSending, and the call of the platform right after it. *)
DispatchSend(c) ==
    /\ HeldDelivery(c)
    /\ \/ /\ ~Live(c)
          /\ claims' = claims \ {c}
          /\ UNCHANGED <<work, effects>>
       \/ /\ Live(c)
          /\ work' = [work EXCEPT ![c.id].sendAttempted = TRUE]
          /\ claims' = (claims \ {c}) \cup {[c EXCEPT !.phase = "sending"]}
          /\ effects' = [effects EXCEPT ![c.id] = @ + 1]
    /\ UNCHANGED <<command, requeues, faults>>

(* The platform answered, or it failed or timed out. *)
DispatchSettle(c) ==
    /\ c.phase = "sending"
    /\ \E outcome \in {"done", "delivery_unknown"} : Settle(c, outcome)
-------------------------------------------------------------------------------
(* Recovery: the sweep at the start of every tick. *)

SweptBlindly(w, row) ==       \* wrong: send_attempted is not looked at
    IF \/ row.state = "claimed" /\ row.lease = 0
       \/ row.state = "retry_wait" /\ row.wait = 0
    THEN [row EXCEPT !.generation = @ + 1, !.state = "ready"]
    ELSE row

SweptByLease(w, row) ==       \* wrong: the state is not looked at
    IF row.generation > 0 /\ row.lease = 0
    THEN [row EXCEPT !.generation = @ + 1, !.state = "ready"]
    ELSE row

SweptClaimsOnly(w, row) ==    \* wrong: retries that are due are not released
    IF row.state = "claimed" /\ row.lease = 0
    THEN [row EXCEPT !.generation = @ + 1,
                     !.state = IF Kind(w) = "delivery" /\ row.sendAttempted
                               THEN "delivery_unknown" ELSE "ready"]
    ELSE row

SweptDeliveriesOnly(w, row) ==   \* wrong: an intake claim that lapsed is kept
    IF row.state = "claimed" /\ row.lease = 0 /\ Kind(w) = "delivery"
    THEN [row EXCEPT !.generation = @ + 1,
                     !.state = IF row.sendAttempted
                               THEN "delivery_unknown" ELSE "ready"]
    ELSE IF row.state = "retry_wait" /\ row.wait = 0
    THEN [row EXCEPT !.state = "ready"]
    ELSE row

Swept(w, row) ==
    IF row.state = "claimed" /\ row.lease = 0
    THEN [row EXCEPT !.generation = @ + 1,
                     !.state = IF Kind(w) = "delivery" /\ row.sendAttempted
                               THEN "delivery_unknown" ELSE "ready"]
    ELSE IF row.state = "retry_wait" /\ row.wait = 0
    THEN [row EXCEPT !.state = "ready"]
    ELSE row

SavedRejections ==
    {i \in DOMAIN command : Status(i) = "pending" /\ work[i].state = "failed"}

ExpiredCommandsFailed ==      \* wrong: asks for a failed row, as for rejections
    {i \in DOMAIN command : /\ Status(i) = "attempted" /\ command[i].deadline = 0
                            /\ work[i].state = "failed"}

ExpiredCommands ==
    {i \in DOMAIN command : Status(i) = "attempted" /\ command[i].deadline = 0}

(* At most one command of a lane is past its predecessors, so the receipts  *)
(* of one sweep go to different lanes and their sequences cannot collide.   *)
Reconcile ==
    LET completed == SavedRejections \cup ExpiredCommands
        table     == CompletedWork(completed)
    IN  /\ work' = [w \in DOMAIN table |-> Swept(w, table[w])]
        /\ command' = CompletedJournal([i \in completed |->
                         IF i \in ExpiredCommands THEN "unknown"
                         ELSE "rejected"])
        /\ UNCHANGED <<claims, effects, requeues, faults>>
-------------------------------------------------------------------------------
(* Operator repair of a row that blocks its lane. *)

Skip(w) ==
    /\ w \in DOMAIN work
    /\ work[w].state \in Blocked
    /\ work' = [work EXCEPT ![w].state = "skipped"]
    /\ UNCHANGED <<command, claims, effects, requeues, faults>>

ConfirmDelivered(w) ==
    /\ w \in DOMAIN work
    /\ work[w].state = "delivery_unknown"
    /\ work' = [work EXCEPT ![w].state = "done"]
    /\ UNCHANGED <<command, claims, effects, requeues, faults>>

Requeued(row) == [row EXCEPT !.state = "ready", !.wait = 0, !.lease = 0,
                             !.sendAttempted = FALSE, !.generation = @ + 1]

Requeue(w) ==
    /\ w \in DOMAIN work
    /\ work[w].state \in Blocked
    /\ requeues[w] < MaxRequeues
    /\ work' = [work EXCEPT ![w] = Requeued(@)]
    /\ requeues' = [requeues EXCEPT ![w] = @ + 1]
    /\ UNCHANGED <<command, claims, effects, faults>>
-------------------------------------------------------------------------------
(* The environment: time passes, workers crash with the claims they hold. *)

(* Time runs out on a worker that is still at work: a stalled worker. *)
Lapsing == {c \in claims : Live(c) /\ work[c.id].lease = 1}

Tick ==
    /\ \/ \E w \in DOMAIN work : work[w].lease > 0 \/ work[w].wait > 0
       \/ \E i \in DOMAIN command : command[i].deadline > 0
    /\ faults' = IF Lapsing = {} THEN faults ELSE faults + 1
    /\ faults' <= MaxFaults
    /\ work' = [w \in DOMAIN work |->
                  [work[w] EXCEPT !.wait = Down(@), !.lease = Down(@)]]
    /\ command' = [i \in DOMAIN command |->
                     [command[i] EXCEPT !.deadline = Down(@)]]
    /\ UNCHANGED <<claims, effects, requeues>>

Crash(c) ==
    /\ faults < MaxFaults
    /\ faults' = faults + 1
    /\ claims' = claims \ {c}
    /\ UNCHANGED <<work, command, effects, requeues>>
-------------------------------------------------------------------------------
Init ==
    /\ work = [w \in {} |-> 0]
    /\ command = [i \in {} |-> 0]
    /\ claims = {}
    /\ effects = [w \in WorkId |-> 0]
    /\ requeues = [w \in WorkId |-> 0]
    /\ faults = 0

IntakeStep(c) ==
    \/ IntegrateDone(c) \/ IntegrateRetry(c) \/ IntegrateReject(c)
    \/ StartCommand(c) \/ PerformCommand(c)

DeliveryStep(c) ==
    DispatchInvalid(c) \/ DispatchSend(c) \/ DispatchSettle(c)

Arrival ==
    \E l \in Lane :
        \/ \E i \in IntakeId, b \in BOOLEAN : AcceptIntake(i, l, b)
        \/ \E d \in EventId : InsertDelivery(d, l)

Operator == \E w \in WorkId : Skip(w) \/ ConfirmDelivered(w) \/ Requeue(w)

Next ==
    \/ Arrival
    \/ \E kind \in {"intake", "delivery"} : ClaimReady(kind)
    \/ \E c \in claims : IntakeStep(c) \/ DeliveryStep(c)
    \/ \E c \in claims : DispatchRelease(c) \/ Crash(c)
    \/ Reconcile
    \/ Operator
    \/ Tick

Spec == Init /\ [][Next]_vars

(* The relay ticks on a timer, reconciling and then claiming; a worker that *)
(* is neither crashed nor stalled finishes with its claim; time passes.     *)
Fairness ==
    /\ WF_vars(Tick)
    /\ WF_vars(Reconcile)
    /\ \A kind \in {"intake", "delivery"} : WF_vars(ClaimReady(kind))
    /\ WF_vars(\E c \in claims : IntakeStep(c) \/ DeliveryStep(c))

FairSpec == Spec /\ Fairness
-------------------------------------------------------------------------------
(* Properties. *)

(* No overtaking: a row that was ever claimed has only resolved rows ahead   *)
(* of it in its lane, through crashes, lapsed leases and operator repair     *)
(* (claimReady, "lane-head only").                                           *)
HeadOfLine ==
    \A v, w \in DOMAIN work :
        Ahead(v, w) /\ work[w].generation > 0 => work[v].state \in Resolved

(* The fence: of all the claims workers still hold on a row, stale ones      *)
(* included, at most one can change it (the generation test of markSending,  *)
(* settle, release, startCommand and finishCommand).                         *)
OneLiveClaim ==
    \A c, d \in claims : c.id = d.id /\ Live(c) /\ Live(d) => c = d

(* An effect that cannot be taken back is begun once for a row, whatever     *)
(* crashes, lapses or stale workers: POST /condense for a command, and the   *)
(* platform's send for a delivery, which an operator may requeue             *)
(* (startCommand, markSending, the delivery_unknown branch of reconcile).    *)
EffectOnce ==
    \A w \in WorkId :
        effects[w] <= IF Kind(w) = "intake" THEN 1 ELSE 1 + requeues[w]

(* The journal, the receipt and the intake row of a command agree at every   *)
(* moment, and a command never blocks its lane (completeCommand).            *)
CommandJournal ==
    \A i \in DOMAIN command :
        /\ i \in DOMAIN work
        /\ \/ /\ Status(i) \in CommandResult
              /\ work[i].state = "done"
              /\ Receipt(i) \in DOMAIN work
              /\ work[Receipt(i)].lane = work[i].lane
           \/ /\ Receipt(i) \notin DOMAIN work
              /\ \/ /\ Status(i) = "pending"
                    /\ work[i].state \in {"ready", "claimed", "retry_wait"}
                 \/ /\ Status(i) = "attempted"
                    /\ work[i].state = "claimed"
                    /\ work[i].lease = command[i].deadline

(* A resolved row never comes back, or the rows it let pass were overtaken.  *)
ResolvedIsFinal ==
    [][\A w \in DOMAIN work : work[w].state \in Resolved =>
          w \in DOMAIN work' /\ work'[w].state = work[w].state]_vars

Stopped(w) ==
    \E v \in DOMAIN work : (v = w \/ Ahead(v, w)) /\ work[v].state \in Blocked

(* Every accepted row is resolved, unless it or a row ahead of it waits for  *)
(* an operator: no claim, retry or lease is left behind by a fault.          *)
Progress ==
    \A w \in WorkId :
        w \in DOMAIN work ~>
            w \in DOMAIN work /\ (work[w].state \in Resolved \/ Stopped(w))

(* Every command is answered with a receipt, whatever happens to the worker  *)
(* that runs it, unless a row ahead of it waits for an operator.             *)
CommandAnswered ==
    \A i \in IntakeId :
        i \in DOMAIN command ~> Receipt(i) \in DOMAIN work \/ Stopped(i)
-------------------------------------------------------------------------------
(* The queues as their promise (module WorkQueue) sees them.                 *)

Standing(state) ==
    CASE state \in {"ready", "retry_wait"} -> "open"
      [] state = "claimed" -> "claimed"
      [] state \in Blocked -> "blocked"
      [] state \in Resolved -> "resolved"

RowAt(kind, l, n) == CHOOSE w \in Queue(kind, l) : work[w].sequence = n

Standings(kind, l) ==
    [n \in 1..(NextSequence(kind, l) - 1) |-> Standing(work[RowAt(kind, l, n)].state)]

QueueName == {"intake", "delivery"} \X Lane

Promise == INSTANCE WorkQueue
              WITH Name <- QueueName, queue <- [k \in QueueName |-> Standings(k[1], k[2])]

(* Each queue keeps its promise, though a sweep settles rows of many lanes,  *)
(* completes commands and adds their receipts in one transaction             *)
(* (MessageWorkStore.reconcile).                                             *)
QueuePromise == Promise!Spec
-------------------------------------------------------------------------------
(* The inductive invariant behind the safety properties.                     *)

(* The rows of a queue are numbered 1, 2, ... in the order of acceptance     *)
(* (insertWork, and the unique index ux_work_lane_seq of schema.ts).         *)
Numbered ==
    /\ \A kind \in {"intake", "delivery"}, l \in Lane :
          /\ NextSequence(kind, l) \in Nat \ {0}
          /\ Sequences(kind, l) = 1..(NextSequence(kind, l) - 1)
    /\ \A v, w \in DOMAIN work :
          SameQueue(v, w) /\ work[v].sequence = work[w].sequence => v = w

(* Only a ready row can be unclaimed as yet, and only a delivery is sent.    *)
RowsSound ==
    \A w \in DOMAIN work :
        /\ work[w].state # "ready" => work[w].generation > 0
        /\ work[w].state = "claimed" => work[w].attempts > 0
        /\ work[w].sendAttempted =>
              Kind(w) = "delivery" /\ work[w].state \notin {"ready", "retry_wait"}

(* A claim is older than or as old as its row, no two claims of a row have   *)
(* the same generation, and the phase of a live claim tells what is durable. *)
ClaimsSound ==
    /\ \A c \in claims :
          /\ c.id \in DOMAIN work
          /\ c.generation <= work[c.id].generation
          /\ c.phase = "sending" => Kind(c.id) = "delivery"
          /\ c.phase = "performing" => c.id \in DOMAIN command
          /\ Live(c) => /\ work[c.id].sendAttempted <=> c.phase = "sending"
                        /\ Status(c.id) = "attempted" <=> c.phase = "performing"
    /\ \A c, d \in claims :
          c.id = d.id /\ c.generation = d.generation => c = d

(* What the rows and the journal say of the effects started so far.          *)
EffectsSound ==
    \A w \in WorkId :
        effects[w] <=
            IF Kind(w) = "intake"
            THEN IF Status(w) \in {"none", "pending"} THEN 0 ELSE 1
            ELSE IF w \in DOMAIN work /\ work[w].sendAttempted
                 THEN 1 + requeues[w] ELSE requeues[w]

(* A receipt belongs to a command.                                           *)
ReceiptsSound ==
    \A i \in IntakeId : Receipt(i) \in DOMAIN work => i \in DOMAIN command

Inv ==
    /\ TypeOK
    /\ Numbered
    /\ HeadOfLine
    /\ RowsSound
    /\ ClaimsSound
    /\ EffectsSound
    /\ CommandJournal
    /\ ReceiptsSound
================================================================================
