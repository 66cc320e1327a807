------------------------------ MODULE RelayIntake ------------------------------
(***************************************************************************)
(* How an accepted message gets into its conversation: the intake worker   *)
(* (integrateNextIntake), its HTTP client, and the agent server's handler  *)
(* of an append (EventService.sendMessage).                                *)
(*                                                                         *)
(* The client gives up on a call that takes too long, but the server may   *)
(* still be at work on it: `requests' are the appends in flight, awaited   *)
(* by a worker or not.  The claims of the work table are those of module   *)
(* MessageWork; here a row is claimed by the one worker of the process.    *)
(***************************************************************************)
EXTENDS RelayLane, FiniteSetsExt

CONSTANTS
    MaxAttempts,   \* RetryPolicy.maxAttempts
    MaxRequeues    \* bound on operator requeues

ASSUME RelayIntakeAssumption ==
    MaxAttempts \in Nat \ {0} /\ MaxRequeues \in Nat

VARIABLES
    intake,     \* the intake row of each message
    worker,     \* what the intake worker awaits
    requests,   \* appends in flight
    asked,      \* history: messages a run was requested for, once in the log
    requeues    \* operator requeues so far

intakeVars == <<intake, worker, requests, asked, requeues>>

Row == [state : {"none", "ready", "claimed", "done", "failed", "skipped"},
        attempts : Nat]

(* at: "creating" and "created" surround markLaneConversationReady.          *)
Worker == [at : {"idle", "creating", "created", "appending"},
           message : 0..MaxMessages, attempt : Nat]

(* at: "missed": the event id was looked up and not found, the append is     *)
(* awaited; "stored": the message is durable, the run is not requested yet;  *)
(* then the status of the response, which only a worker that still waits     *)
(* receives: 200, 429, 500 or 404.                                           *)
Response == {"accepted", "refused", "broken", "absent"}

Request == [message : Message, attempt : Nat,
            at : {"sent", "missed", "stored"} \cup Response]

Awaited(r) ==
    /\ worker.at = "appending"
    /\ worker.message = r.message /\ worker.attempt = r.attempt

(* No response is kept that nobody waits for. *)
IntakeTypeOK ==
    /\ intake \in [Message -> Row]
    /\ worker \in Worker
    /\ requests \subseteq Request
    /\ \A r \in requests : r.at \in Response => Awaited(r)
    /\ asked \subseteq Message
    /\ requeues \in 0..MaxRequeues

Idle == [at |-> "idle", message |-> 0, attempt |-> 0]

Resolved(m) == intake[m].state \in {"done", "skipped"}

FirstPastRetries(m) ==         \* wrong: a message that waits for a retry does not block
    \A k \in 1..(m - 1) : intake[k].state # "claimed"

First(m) == \A k \in 1..(m - 1) : Resolved(k)
-------------------------------------------------------------------------------
(* Accepting a message of the platform; a replay of it changes nothing. *)

Accept(m) ==
    /\ intake[m].state = "none"
    /\ \A k \in 1..(m - 1) : intake[k].state # "none"
    /\ intake' = [intake EXCEPT ![m].state = "ready"]
    /\ UNCHANGED <<lane, worker, requests, asked, requeues>>
-------------------------------------------------------------------------------
(* The worker. *)

AppendCall(m, n) == [message |-> m, attempt |-> n, at |-> "sent"]

Claim(m) ==
    /\ worker = Idle
    /\ intake[m].state = "ready" /\ First(m)
    /\ LET n == intake[m].attempts + 1
       IN  /\ intake' = [intake EXCEPT ![m] =
                            [state |-> "claimed", attempts |-> n]]
           /\ worker' = [at |-> IF ready THEN "appending" ELSE "creating",
                         message |-> m, attempt |-> n]
           /\ requests' = IF ready THEN requests \cup {AppendCall(m, n)}
                          ELSE requests
    /\ UNCHANGED <<lane, asked, requeues>>

StateAfter(row, outcome) ==
    IF outcome = "retry"
    THEN IF row.attempts < MaxAttempts THEN "ready" ELSE "failed"
    ELSE IF outcome = "fail" THEN "failed" ELSE "done"

(* The end of an attempt: integrateNextIntake settles its claim. *)
EndAttempt(outcome) ==
    LET m == worker.message
    IN  /\ intake' = [intake EXCEPT ![m].state =
                         StateAfter(intake[m], outcome)]
        /\ worker' = Idle
        /\ UNCHANGED <<asked, requeues>>

(* ensureConversation.  A conversation that exists is ours if its owner tag  *)
(* says so.  One that the server did not load is under the lease of another  *)
(* instance still, or under one that has run out by now.                     *)
MayCreate == conversation # "foreign"

Created == IF conversation = "absent" THEN "present" ELSE conversation

CreateAnswered ==
    /\ worker.at = "creating" /\ MayCreate
    /\ conversation' = Created /\ loaded' = TRUE
    /\ worker' = [worker EXCEPT !.at = "created"]
    /\ UNCHANGED <<ready, log, faults, intake, requests, asked, requeues>>

CreateRejected ==
    /\ worker.at = "creating"
    /\ ~MayCreate \/ ~loaded
    /\ EndAttempt("fail")
    /\ UNCHANGED <<lane, requests>>

(* The call is lost before or after the server has answered it. *)
CreateLost ==
    /\ worker.at = "creating"
    /\ Fault
    /\ conversation' \in {conversation, Created}
    /\ EndAttempt("retry")
    /\ UNCHANGED <<loaded, ready, log, requests>>

MarkReady ==
    /\ worker.at = "created"
    /\ ready' = TRUE
    /\ worker' = [worker EXCEPT !.at = "appending"]
    /\ requests' = requests \cup {AppendCall(worker.message, worker.attempt)}
    /\ UNCHANGED <<conversation, loaded, log, faults, intake, asked, requeues>>

AppendAnswered(r) ==
    /\ Awaited(r) /\ r.at \in Response
    /\ EndAttempt(CASE r.at = "accepted" -> "done"
                    [] r.at = "absent" -> "fail"
                    [] OTHER -> "retry")
    /\ requests' = requests \ {r}
    /\ UNCHANGED lane

(* The client's timeout, or a connection that breaks on the way in or out. *)
AppendTimedOut(r) ==
    /\ Awaited(r)
    /\ Fault
    /\ EndAttempt("retry")
    /\ requests' \in {requests \ {r}} \cup {s \in {requests} : r.at \notin Response}
    /\ UNCHANGED <<conversation, loaded, ready, log>>

(* The server is gone, and the connection with it. *)
AppendBroken ==
    /\ worker.at = "appending"
    /\ ~\E r \in requests : Awaited(r)
    /\ EndAttempt("retry")
    /\ UNCHANGED <<lane, requests>>

ReclaimOfReadyLane(m) ==      \* wrong: a crash before the conversation exists is forgotten
    /\ intake[m].state = "claimed" /\ worker.message # m /\ ready
    /\ intake' = [intake EXCEPT ![m].state = "ready"]
    /\ UNCHANGED <<lane, worker, requests, asked, requeues>>

(* The lease of a claim whose worker is gone runs out (reconcile). *)
Reclaim(m) ==
    /\ intake[m].state = "claimed" /\ worker.message # m
    /\ intake' = [intake EXCEPT ![m].state = "ready"]
    /\ UNCHANGED <<lane, worker, requests, asked, requeues>>
-------------------------------------------------------------------------------
(* The server: EventService.sendMessage, between its awaits. *)

(* Nobody receives the response to a call that is not awaited any more. *)
Proceed(r, at) ==
    requests' = (requests \ {r}) \cup
                {q \in {[r EXCEPT !.at = at]} : at \notin Response \/ Awaited(r)}

AfterLookupReplied(r) ==      \* wrong: a replay of the event requests no run
    IF ~Served THEN "absent"
    ELSE IF Posted(r.message) THEN "accepted" ELSE "missed"

AfterLookup(r) ==
    IF ~Served THEN "absent"
    ELSE IF Posted(r.message) THEN "stored" ELSE "missed"

Lookup(r) ==
    /\ r.at = "sent"
    /\ Proceed(r, AfterLookup(r))
    /\ UNCHANGED <<lane, intake, worker, asked, requeues>>

NewLogBlindly(m) ==           \* wrong: the append does not look the id up again
    Append(log, UserEvent(m))

(* EventLog.append finds a duplicate that came while the append was awaited. *)
NewLog(m) == IF Posted(m) THEN log ELSE Append(log, UserEvent(m))

Store(r) ==
    /\ r.at = "missed"
    /\ IF Served
       THEN log' = NewLog(r.message) /\ Proceed(r, "stored")
       ELSE log' = log /\ Proceed(r, "broken")
    /\ UNCHANGED <<conversation, loaded, ready, faults,
                   intake, worker, asked, requeues>>

(* A run is requested, or refused for want of a slot (429); or the metadata  *)
(* could not be saved after the append, or the service is closing (500).     *)
AskRun(r) ==
    /\ r.at = "stored"
    /\ \/ /\ Served
          /\ asked' = asked \cup {r.message}
          /\ Proceed(r, "accepted")
          /\ UNCHANGED lane
       \/ /\ ~Served
          /\ Proceed(r, "broken")
          /\ UNCHANGED <<lane, asked>>
       \/ /\ Fault
          /\ \E at \in {"refused", "broken"} : Proceed(r, at)
          /\ UNCHANGED <<conversation, loaded, ready, log, asked>>
    /\ UNCHANGED <<intake, worker, requeues>>
-------------------------------------------------------------------------------
(* Operator repair of a message that blocks its lane. *)

SkipMessage(m) ==
    /\ intake[m].state = "failed"
    /\ intake' = [intake EXCEPT ![m].state = "skipped"]
    /\ UNCHANGED <<lane, worker, requests, asked, requeues>>

RequeueMessage(m) ==
    /\ intake[m].state = "failed"
    /\ requeues < MaxRequeues
    /\ requeues' = requeues + 1
    /\ intake' = [intake EXCEPT ![m].state = "ready"]
    /\ UNCHANGED <<lane, worker, requests, asked>>
-------------------------------------------------------------------------------
IntakeInit ==
    /\ intake = [m \in Message |-> [state |-> "none", attempts |-> 0]]
    /\ worker = Idle
    /\ requests = {}
    /\ asked = {}
    /\ requeues = 0

WorkerStep ==
    \/ CreateAnswered \/ CreateRejected \/ MarkReady \/ AppendBroken
    \/ \E r \in requests : AppendAnswered(r)

ServerStep == \E r \in requests : Lookup(r) \/ Store(r) \/ AskRun(r)

IntakeNext ==
    \/ \E m \in Message :
          Accept(m) \/ Claim(m) \/ Reclaim(m) \/ SkipMessage(m) \/ RequeueMessage(m)
    \/ WorkerStep \/ ServerStep \/ CreateLost
    \/ \E r \in requests : AppendTimedOut(r)
-------------------------------------------------------------------------------
(* A message is in the log at most once, however often its append is sent    *)
(* and however late a call that was given up on arrives (sendMessage).       *)
PostedOnce ==
    \A p, q \in DOMAIN log :
        p # q /\ log[p].kind = "user" /\ log[q].kind = "user" =>
            log[p].message # log[q].message

(* Messages are in the log in the order the platform sent them, but for one  *)
(* an operator gave up and skipped: a late call may still bring it in.       *)
PostedInOrder ==
    \A p, q \in DOMAIN log :
        /\ p < q
        /\ log[p].kind = "user" /\ log[q].kind = "user"
        /\ log[q].message < log[p].message
        => intake[log[q].message].state = "skipped"

(* A settled message is in the log and a run was requested after it, also    *)
(* when the first append was answered with an error (integrateNextIntake).   *)
DoneIsServed ==
    \A m \in Message : intake[m].state = "done" => Posted(m) /\ m \in asked

(* The row of each message as the store's promise (module WorkQueue) sees it. *)
Standing(state) ==
    CASE state = "ready" -> "open"
      [] state = "claimed" -> "claimed"
      [] state = "failed" -> "blocked"
      [] state \in {"done", "skipped"} -> "resolved"

LastAccepted ==
    CHOOSE n \in 0..MaxMessages : \A m \in Message : intake[m].state # "none" <=> m <= n

Standings == [m \in 1..LastAccepted |-> Standing(intake[m].state)]

RowQueue == INSTANCE WorkQueue
               WITH Name <- {"intake"}, queue <- [k \in {"intake"} |-> Standings]

(* The rows of this module move as the store lets them: what a worker, its   *)
(* lost claims and the operator do here is what they may do there.           *)
RowsAreQueued == RowQueue!Spec
================================================================================
