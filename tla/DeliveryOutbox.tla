----------------------------- MODULE DeliveryOutbox -----------------------------
(***************************************************************************)
(* How the events of the agent get into the delivery outbox of the lane    *)
(* (syncDeliveryOutbox): page by page from a durable cursor, each event    *)
(* queued once, the final text of a turn held against what the turn has    *)
(* already queued (isQueuedFinalEcho).  A step is what happens between two *)
(* awaits; a sync that fails or crashes starts again at the cursor.        *)
(***************************************************************************)
EXTENDS RelayLane, FiniteSetsExt, Functions

CONSTANT PageSize   \* outboxSyncPageSize

ASSUME DeliveryOutboxAssumption == PageSize \in Nat \ {0}

VARIABLES
    cursor,    \* projection_cursors.next_page_id: events below it are done
    parked,    \* projection_cursors.parked_at
    outbox,    \* delivery rows of the lane in sequence order: log positions
    skipped,   \* those an operator skipped
    sync       \* where syncDeliveryOutbox is

outboxVars == <<cursor, parked, outbox, skipped, sync>>

(* fetch: a page is awaited, from `low'.  scan: event `next' of the page     *)
(* low+1..high is looked at, and `more' tells that the page had a successor. *)
(* search: the page of events that ends at `back' is awaited, to tell        *)
(* whether event `next' is an echo.  insert: it is not.                      *)
Sync == [at : {"idle", "fetch", "scan", "search", "insert"}, low : Nat,
         high : Nat, more : BOOLEAN, next : Nat, back : Nat]

OutboxTypeOK ==
    /\ cursor \in Nat
    /\ parked \in BOOLEAN
    /\ outbox \in Seq(DOMAIN log)
    /\ skipped \subseteq DOMAIN log
    /\ sync \in Sync

Resting == [at |-> "idle", low |-> 0, high |-> 0, more |-> FALSE,
            next |-> 0, back |-> 0]

Fetching(offset) == [Resting EXCEPT !.at = "fetch", !.low = offset]

Queued == Range(outbox)
-------------------------------------------------------------------------------
(* Pages. *)

(* listConversationIds. *)
Listed == ready

StartSync ==
    /\ sync = Resting
    /\ Listed /\ ~parked
    /\ sync' = Fetching(cursor)
    /\ UNCHANGED <<lane, cursor, parked, outbox, skipped>>

PageEnd(offset) == Min({offset + PageSize, Len(log)})

Fetch ==
    /\ sync.at = "fetch"
    /\ \/ /\ Served
          /\ sync' = [Resting EXCEPT
                        !.at = "scan", !.low = sync.low,
                        !.high = PageEnd(sync.low), !.next = sync.low + 1,
                        !.more = sync.low + PageSize < Len(log)]
          /\ UNCHANGED parked
       \/ /\ ~Served
          /\ sync' = Resting
          /\ parked' = TRUE
    /\ UNCHANGED <<lane, cursor, outbox, skipped>>

NextCursorEarly ==            \* wrong: one event too many is taken as done
    IF sync.more THEN sync.high + 1 ELSE sync.high

NextCursor == sync.high

EndPage ==
    /\ sync.at = "scan" /\ sync.next > sync.high
    /\ cursor' = NextCursor
    /\ sync' = IF sync.more THEN Fetching(NextCursor) ELSE Resting
    /\ UNCHANGED <<lane, parked, outbox, skipped>>

(* The network or the store fails. *)
SyncFails ==
    /\ sync.at # "idle"
    /\ Fault
    /\ sync' = Resting
    /\ UNCHANGED <<conversation, loaded, ready, log,
                   cursor, parked, outbox, skipped>>
-------------------------------------------------------------------------------
(* Events. *)

PassOn == sync' = [sync EXCEPT !.at = "scan", !.next = @ + 1, !.back = 0]

InsertAgain ==                \* wrong: a replay queues the event once more
    outbox' = Append(outbox, sync.next)

(* insertDelivery: the source key of the event is unique. *)
Insert ==
    outbox' = IF sync.next \in Queued THEN outbox
              ELSE Append(outbox, sync.next)

Event0 == log[sync.next]

ScanPlain ==
    /\ sync.at = "scan" /\ sync.next <= sync.high
    /\ Event0.kind # "final"
    /\ IF Deliverable(Event0) THEN Insert ELSE UNCHANGED outbox
    /\ PassOn
    /\ UNCHANGED <<lane, cursor, parked, skipped>>

(* isQueuedFinalEcho over the events low..high before p, from the last back: *)
(* the first one that tells decides.                                         *)
SaysTheSame(q, p) ==
    log[q].kind = "send" /\ q \in Queued \ skipped /\ log[q].text = log[p].text

EndsTurn(q) == log[q].kind \in {"user", "final"}

VerdictAcrossTurns(low, high, p) ==   \* wrong: a user message ends no turn
    IF \E q \in low..high :
          SaysTheSame(q, p) /\ \A r \in (q + 1)..high : log[r].kind # "final"
    THEN "echo"
    ELSE IF low = 1 \/ \E q \in low..high : log[q].kind = "final"
         THEN "new" ELSE "unknown"

Verdict(low, high, p) ==
    IF \E q \in low..high :
          SaysTheSame(q, p) /\ \A r \in (q + 1)..high : ~EndsTurn(r)
    THEN "echo"
    ELSE IF low = 1 \/ \E q \in low..high : EndsTurn(q) THEN "new" ELSE "unknown"

Act(verdict, low) ==
    \/ verdict = "echo" /\ PassOn
    \/ verdict = "new" /\ sync' = [sync EXCEPT !.at = "insert"]
    \/ verdict = "unknown" /\ sync' = [sync EXCEPT !.at = "search",
                                                   !.back = low - 1]

ScanFinal ==
    /\ sync.at = "scan" /\ sync.next <= sync.high
    /\ Event0.kind = "final"
    /\ LET low == sync.low + 1
       IN  Act(Verdict(low, sync.next - 1, sync.next), low)
    /\ UNCHANGED <<lane, cursor, parked, outbox, skipped>>

SearchBack ==
    /\ sync.at = "search"
    /\ Served
    /\ LET low == Max({0, sync.back - PageSize}) + 1
       IN  Act(Verdict(low, sync.back, sync.next), low)
    /\ UNCHANGED <<lane, cursor, parked, outbox, skipped>>

(* A search that finds the conversation gone is an error like any other. *)
SearchFails ==
    /\ sync.at = "search"
    /\ ~Served
    /\ sync' = Resting
    /\ UNCHANGED <<lane, cursor, parked, outbox, skipped>>

InsertFinal ==
    /\ sync.at = "insert"
    /\ Insert
    /\ PassOn
    /\ UNCHANGED <<lane, cursor, parked, skipped>>

SyncStep ==
    \/ Fetch \/ EndPage
    \/ ScanPlain \/ ScanFinal \/ SearchBack \/ SearchFails \/ InsertFinal
-------------------------------------------------------------------------------
(* An operator gives a delivery up that failed or whose fate is unknown. *)
SkipDelivery(p) ==
    /\ p \in Queued \ skipped
    /\ skipped' = skipped \cup {p}
    /\ UNCHANGED <<lane, cursor, parked, outbox, sync>>

OutboxInit ==
    /\ cursor = 0
    /\ parked = FALSE
    /\ outbox = <<>>
    /\ skipped = {}
    /\ sync = Resting

OutboxNext ==
    \/ StartSync \/ SyncStep \/ SyncFails
    \/ \E p \in DOMAIN log : SkipDelivery(p)
-------------------------------------------------------------------------------
Promise == INSTANCE Outbox WITH log <- log, outbox <- outbox, skipped <- skipped

(* The outbox keeps its promise (module Outbox) through pages that end in    *)
(* the middle of a turn, failures, crashes and replays of a page.            *)
OutboxPromise == Promise!Spec

(* The cursor never moves past an event that is neither queued nor a known   *)
(* echo: what a crash forgets, the next sync finds again.                    *)
CursorIsSafe == \A p \in 1..cursor : Promise!Settled(p)
================================================================================
