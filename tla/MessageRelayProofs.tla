-------------------------- MODULE MessageRelayProofs ---------------------------
(***************************************************************************)
(* Proofs about one lane of the Message Relay, for any number of messages, *)
(* attempts, events, pages, lost and late calls, crashes and repairs. How  *)
(* messages enter the log (RelayIntake): once, in order, and before they   *)
(* are settled as done. How answers leave it (DeliveryOutbox): the outbox  *)
(* keeps its promise (module Outbox), and the cursor passes no event that  *)
(* is not settled.                                                         *)
(***************************************************************************)
EXTENDS MessageRelay, SequenceTheorems, TLAPS

(* The parts of the types that the argument needs. *)
Types ==
    /\ log \in Seq(Event)
    /\ intake \in [Message -> Row]
    /\ requests \subseteq Request
    /\ asked \subseteq Message

(* The worker's claim is the one on its row, at the head of the lane. *)
ClaimHeld ==
    worker # Idle =>
        /\ worker.message \in Message /\ worker.attempt \in Nat
        /\ intake[worker.message].state = "claimed"
        /\ First(worker.message)

(* An append is only called for a message at the head of the lane, and what  *)
(* its response says is so.                                                  *)
RequestsSound ==
    \A r \in requests :
        /\ First(r.message)
        /\ r.at \in {"stored", "accepted"} => Posted(r.message)
        /\ r.at = "accepted" => r.message \in asked

PostedAreFirst == \A m \in Message : Posted(m) => First(m)

IInv == Types /\ ClaimHeld /\ RequestsSound /\ PostedAreFirst
Inv == IInv /\ PostedOnce /\ PostedInOrder /\ DoneIsServed
-------------------------------------------------------------------------------
LEMMA Messages == Message \subseteq Nat /\ \A m \in Message : UserEvent(m) \in Event
BY AgentEventsAssumption DEF Message, Event

LEMMA Users ==
    /\ \A e \in Event : e.kind = "user" => e.message \in Message /\ e = UserEvent(e.message)
    /\ \A m \in Message : UserEvent(m).kind = "user" /\ UserEvent(m).message = m
    /\ \A e \in AgentEvent : e \in Event /\ e.kind # "user"
BY DEF Event, AgentEvent, UserEvent

(* The log may only grow by a message that is not in it and at the head of   *)
(* the lane, or by an event of the agent.                                    *)
LogStep ==
    \/ log' = log
    \/ \E m \in Message : ~Posted(m) /\ First(m) /\ log' = Append(log, UserEvent(m))
    \/ \E e \in AgentEvent : log' = Append(log, e)

(* What every step keeps of rows, runs and requests. *)
StepKeeps ==
    /\ LogStep
    /\ intake' \in [Message -> Row] /\ asked \subseteq asked' /\ asked' \subseteq Message
    /\ \A m \in Message : Resolved(m) => intake'[m].state = intake[m].state
    /\ \A m \in Message : intake'[m].state = "done" /\ intake[m].state # "done" =>
          Posted(m) /\ m \in asked
    /\ requests' \subseteq Request
    /\ \A r \in requests' :
          /\ First(r.message)
          /\ r.at \in {"stored", "accepted"} => Posted(r.message)'
          /\ r.at = "accepted" => r.message \in asked'
    /\ worker' # Idle =>
          /\ worker'.message \in Message /\ worker'.attempt \in Nat
          /\ intake'[worker'.message].state = "claimed"
          /\ First(worker'.message)

LEMMA LogGrows ==
    ASSUME Types, LogStep
    PROVE  /\ log' \in Seq(Event) /\ Len(log) <= Len(log')
           /\ \A p \in DOMAIN log : p \in DOMAIN log' /\ log'[p] = log[p]
           /\ \A p \in DOMAIN log' \ DOMAIN log :
                 /\ p = Len(log) + 1 /\ Len(log') = p
                 /\ log'[p].kind = "user" =>
                       /\ log'[p].message \in Message
                       /\ ~Posted(log'[p].message) /\ First(log'[p].message)
<1>1. CASE log' = log
  BY <1>1 DEF Types
<1>2. ASSUME NEW e \in Event, log' = Append(log, e)
      PROVE  /\ log' \in Seq(Event) /\ Len(log') = Len(log) + 1
             /\ \A p \in DOMAIN log : p \in DOMAIN log' /\ log'[p] = log[p]
             /\ log'[Len(log) + 1] = e
             /\ \A p \in DOMAIN log' \ DOMAIN log : p = Len(log) + 1
  BY <1>2 DEF Types
<1>3. CASE \E m \in Message : ~Posted(m) /\ First(m) /\ log' = Append(log, UserEvent(m))
  BY <1>2, <1>3, Users, Messages
<1>4. CASE \E e \in AgentEvent : log' = Append(log, e)
  BY <1>2, <1>4, Users
<1> QED
  BY <1>1, <1>3, <1>4 DEF LogStep

LEMMA StepPreserves ==
    ASSUME Inv, StepKeeps
    PROVE  Inv'
<1> USE DEF StepKeeps
<1>1. Types /\ Types'
  BY LogGrows DEF Inv, IInv, Types
<1>2. \A m \in Message : Resolved(m) => Resolved(m)'
  BY DEF Resolved
<1>3. \A m \in Message : First(m) => First(m)'
  <2> SUFFICES ASSUME NEW m \in Message, First(m), NEW k \in 1..(m - 1)
               PROVE  Resolved(k)'
    BY DEF First
  <2>1. k \in Message
    BY AgentEventsAssumption DEF Message
  <2> QED
    BY <1>2, <2>1 DEF First
<1>4. \A m : Posted(m) => Posted(m)'
  BY <1>1, LogGrows DEF Posted
<1>5. \A m \in Message : Posted(m)' => Posted(m) \/ First(m)
  <2> SUFFICES ASSUME NEW m \in Message, NEW p \in DOMAIN log', log'[p] = UserEvent(m)
               PROVE  Posted(m) \/ First(m)
    BY DEF Posted
  <2>1. log'[p].kind = "user" /\ log'[p].message = m
    BY Users
  <2> QED
    BY <1>1, <2>1, LogGrows DEF Posted
<1>6. ClaimHeld'
  BY <1>3 DEF ClaimHeld
<1>7. RequestsSound'
  BY <1>1, <1>3 DEF RequestsSound, Types, Request
<1>8. PostedAreFirst'
  BY <1>3, <1>5 DEF Inv, IInv, PostedAreFirst
<1>9. DoneIsServed'
  BY <1>4 DEF Inv, DoneIsServed
<1>10. \A p \in DOMAIN log : log[p].kind = "user" =>
          log[p].message \in Message /\ Posted(log[p].message) /\ First(log[p].message)
  BY <1>1, Users DEF Types, Posted, Inv, IInv, PostedAreFirst
<1>11. PostedOnce'
  <2> SUFFICES ASSUME NEW p \in DOMAIN log', NEW q \in DOMAIN log', p # q,
                      log'[p].kind = "user", log'[q].kind = "user",
                      log'[p].message = log'[q].message
               PROVE  FALSE
    BY DEF PostedOnce
  <2>1. CASE p \in DOMAIN log /\ q \in DOMAIN log
    BY <1>1, <2>1, LogGrows DEF Inv, PostedOnce
  <2> QED
    BY <1>1, <1>10, <2>1, LogGrows
<1>12. PostedInOrder'
  <2> SUFFICES ASSUME NEW p \in DOMAIN log', NEW q \in DOMAIN log', p < q,
                      log'[p].kind = "user", log'[q].kind = "user",
                      log'[q].message < log'[p].message
               PROVE  intake'[log'[q].message].state = "skipped"
    BY DEF PostedInOrder
  <2>1. p \in DOMAIN log /\ log'[p] = log[p]
    BY <1>1, LogGrows DEF Types
  <2>2. CASE q \in DOMAIN log
    BY <1>1, <1>10, <2>1, <2>2, LogGrows DEF Inv, PostedInOrder, Resolved
  <2>3. CASE q \notin DOMAIN log
    <3> DEFINE m == log'[q].message
    <3>1. m \in Message /\ ~Posted(m)
      BY <1>1, <2>3, LogGrows
    <3>2. Resolved(m)
      BY <1>10, <2>1, <3>1, Messages, AgentEventsAssumption DEF First, Message
    <3> QED
      BY <3>1, <3>2 DEF Inv, DoneIsServed, Resolved
  <2> QED
    BY <2>2, <2>3
<1> QED
  BY <1>1, <1>6, <1>7, <1>8, <1>9, <1>11, <1>12 DEF Inv, IInv
-------------------------------------------------------------------------------
(* One lemma for each action. *)

LEMMA Unpack ==
    ASSUME Inv
    PROVE  /\ intake \in [Message -> Row] /\ asked \subseteq Message
           /\ requests \subseteq Request
           /\ \A r \in requests :
                 /\ First(r.message) /\ r.message \in Message /\ r.attempt \in Nat
                 /\ r.at \in {"stored", "accepted"} => Posted(r.message)
                 /\ r.at = "accepted" => r.message \in asked
           /\ worker # Idle =>
                 /\ worker.message \in Message /\ worker.attempt \in Nat
                 /\ intake[worker.message].state = "claimed"
                 /\ First(worker.message)
BY DEF Inv, IInv, Types, RequestsSound, ClaimHeld, Request

(* Steps that leave the rows alone. *)
LEMMA QuietKeeps ==
    ASSUME Inv, LogStep, intake' = intake, asked' = asked,
           requests' \subseteq requests, worker' \in {worker, Idle}
    PROVE  StepKeeps
<1>1. \A m : Posted(m) => Posted(m)'
  BY LogGrows DEF Inv, IInv, Posted
<1> QED
  BY <1>1, Unpack DEF StepKeeps

(* Steps that take a row from one unresolved state to another, unless an     *)
(* operator skips it.                                                        *)
LEMMA RowKeeps ==
    ASSUME Inv, NEW m \in Message, NEW row \in Row,
           intake[m].state \in {"none", "ready", "claimed", "failed"},
           intake' = [intake EXCEPT ![m] = row],
           row.state = "done" => Posted(m) /\ m \in asked,
           worker' = Idle \/ (worker' = worker /\ intake[m].state # "claimed")
               \/ (worker' = worker /\ worker.message # m),
           log' = log, asked' = asked, requests' \subseteq requests
    PROVE  StepKeeps
<1>1. \A k \in Message : intake'[k] = IF k = m THEN row ELSE intake[k]
  BY Unpack
<1>2. intake' \in [Message -> Row]
  BY Unpack
<1> QED
  BY <1>1, <1>2, Unpack DEF StepKeeps, LogStep, Resolved, Posted

LEMMA AcceptKeeps ==
    ASSUME Inv, NEW m \in Message, Accept(m) PROVE StepKeeps
<1> DEFINE row == [intake[m] EXCEPT !.state = "ready"]
<1>1. row \in Row /\ row.state = "ready"
  BY Unpack DEF Row
<1> QED
  BY <1>1, RowKeeps DEF Accept, lane

LEMMA ClaimKeeps ==
    ASSUME Inv, NEW m \in Message, Claim(m) PROVE StepKeeps
<1> DEFINE n == intake[m].attempts + 1
           row == [state |-> "claimed", attempts |-> n]
<1>1. /\ n \in Nat /\ row \in Row /\ First(m) /\ intake[m].state = "ready"
      /\ intake' = [intake EXCEPT ![m] = row] /\ row.state = "claimed"
      /\ log' = log /\ asked' = asked
      /\ worker'.message = m /\ worker'.attempt = n
      /\ requests' \subseteq requests \cup {AppendCall(m, n)}
  BY Unpack DEF Claim, Row, lane
<1>2. /\ AppendCall(m, n) \in Request /\ AppendCall(m, n).message = m
      /\ AppendCall(m, n).at = "sent"
  BY <1>1 DEF AppendCall, Request
<1> HIDE DEF n, row
<1>3. \A k \in Message : intake'[k] = IF k = m THEN row ELSE intake[k]
  BY <1>1, Unpack
<1>4. \A r \in requests' : r \in requests \/ r = AppendCall(m, n)
  BY <1>1
<1>5. intake' \in [Message -> Row]
  BY <1>1, Unpack
<1>6. \A k : Posted(k)' = Posted(k)
  BY <1>1 DEF Posted
<1> QED
  BY <1>1, <1>2, <1>3, <1>4, <1>5, <1>6, Unpack DEF StepKeeps, LogStep, Resolved

LEMMA EndAttemptKeeps ==
    ASSUME Inv, worker # Idle, NEW outcome \in {"done", "fail", "retry"},
           EndAttempt(outcome),
           outcome = "done" => Posted(worker.message) /\ worker.message \in asked,
           log' = log, requests' \subseteq requests
    PROVE  StepKeeps
<1> DEFINE m == worker.message
           row == [intake[m] EXCEPT !.state = StateAfter(intake[m], outcome)]
<1>1. m \in Message /\ intake[m].state = "claimed"
  BY Unpack
<1>2. /\ row \in Row /\ row.state \in {"ready", "failed", "done"}
      /\ row.state = "done" => outcome = "done"
  BY <1>1, Unpack DEF Row, StateAfter
<1>3. intake' = [intake EXCEPT ![m] = row] /\ worker' = Idle /\ asked' = asked
  BY DEF EndAttempt
<1> HIDE DEF row
<1> QED
  BY <1>1, <1>2, <1>3, RowKeeps

LEMMA CreateKeeps ==
    ASSUME Inv, CreateAnswered \/ CreateRejected \/ CreateLost PROVE StepKeeps
<1>1. CASE CreateAnswered
  <2>1. /\ worker # Idle /\ worker'.message = worker.message
        /\ worker'.attempt = worker.attempt
        /\ log' = log /\ intake' = intake /\ requests' = requests /\ asked' = asked
    BY <1>1 DEF CreateAnswered, Idle, Inv
  <2> QED
    BY <2>1, Unpack DEF StepKeeps, LogStep, Posted
<1>2. CASE CreateRejected
  <2>1. worker # Idle /\ EndAttempt("fail") /\ log' = log /\ requests' = requests
    BY <1>2 DEF CreateRejected, Idle, lane
  <2> QED
    BY <2>1, EndAttemptKeeps
<1>3. CASE CreateLost
  <2>1. worker # Idle /\ EndAttempt("retry") /\ log' = log /\ requests' = requests
    BY <1>3 DEF CreateLost, Idle
  <2> QED
    BY <2>1, EndAttemptKeeps
<1> QED
  BY <1>1, <1>2, <1>3

LEMMA MarkReadyKeeps ==
    ASSUME Inv, MarkReady PROVE StepKeeps
<1> DEFINE call == AppendCall(worker.message, worker.attempt)
<1>1. /\ worker # Idle /\ worker'.message = worker.message
      /\ worker'.attempt = worker.attempt
      /\ log' = log /\ intake' = intake /\ asked' = asked
      /\ requests' = requests \cup {call}
  BY DEF MarkReady, Idle
<1>2. /\ worker.message \in Message /\ worker.attempt \in Nat
      /\ First(worker.message)
  BY <1>1, Unpack
<1>3. call.message = worker.message /\ call.at = "sent"
  BY DEF AppendCall
<1>4. call \in Request
  BY <1>2 DEF AppendCall, Request
<1> HIDE DEF call
<1>5. \A k : Posted(k)' = Posted(k)
  BY <1>1 DEF Posted
<1> QED
  BY <1>1, <1>2, <1>3, <1>4, <1>5, Unpack DEF StepKeeps, LogStep

LEMMA AppendAnsweredKeeps ==
    ASSUME Inv, NEW r \in requests, AppendAnswered(r) PROVE StepKeeps
<1> DEFINE outcome == CASE r.at = "accepted" -> "done"
                        [] r.at = "absent" -> "fail"
                        [] OTHER -> "retry"
<1>1. /\ worker # Idle /\ worker.message = r.message
      /\ EndAttempt(outcome) /\ log' = log /\ requests' \subseteq requests
  BY DEF AppendAnswered, Awaited, Idle, lane
<1>2. outcome \in {"done", "fail", "retry"} /\ (outcome = "done" => r.at = "accepted")
  OBVIOUS
<1> HIDE DEF outcome
<1> QED
  BY <1>1, <1>2, EndAttemptKeeps, Unpack

LEMMA AppendLostKeeps ==
    ASSUME Inv, AppendBroken \/ \E r \in requests : AppendTimedOut(r) PROVE StepKeeps
<1>1. /\ worker # Idle /\ EndAttempt("retry") /\ log' = log /\ requests' \subseteq requests
  BY DEF AppendBroken, AppendTimedOut, Awaited, Idle, lane
<1> QED
  BY <1>1, EndAttemptKeeps

LEMMA ReclaimKeeps ==
    ASSUME Inv, NEW m \in Message, Reclaim(m) PROVE StepKeeps
<1> DEFINE row == [intake[m] EXCEPT !.state = "ready"]
<1>1. row \in Row /\ row.state = "ready"
  BY Unpack DEF Row
<1> QED
  BY <1>1, RowKeeps DEF Reclaim, lane

LEMMA RequeueKeeps ==
    ASSUME Inv, NEW m \in Message, RequeueMessage(m) PROVE StepKeeps
<1> DEFINE row == [intake[m] EXCEPT !.state = "ready"]
<1>1. row \in Row /\ row.state = "ready"
  BY Unpack DEF Row
<1> QED
  BY <1>1, RowKeeps DEF RequeueMessage, lane

LEMMA SkipKeeps ==
    ASSUME Inv, NEW m \in Message, SkipMessage(m) PROVE StepKeeps
<1> DEFINE row == [intake[m] EXCEPT !.state = "skipped"]
<1>1. row \in Row /\ row.state = "skipped"
  BY Unpack DEF Row
<1> QED
  BY <1>1, RowKeeps DEF SkipMessage, lane

(* The server goes on with a request: what its new stage says must be so.    *)
LEMMA ProceedKeeps ==
    ASSUME Inv, NEW r \in requests, NEW at \in {"missed", "stored"} \cup Response,
           Proceed(r, at), LogStep, intake' = intake, worker' = worker,
           asked \subseteq asked', asked' \subseteq Message,
           at \in {"stored", "accepted"} => Posted(r.message)',
           at = "accepted" => r.message \in asked'
    PROVE  StepKeeps
<1> DEFINE q == [r EXCEPT !.at = at]
<1>1. requests' \subseteq requests \cup {q}
  BY DEF Proceed
<1>2. r \in Request /\ First(r.message)
  BY Unpack
<1>3. q \in Request /\ q.message = r.message /\ q.at = at
  BY <1>2 DEF Request, Response
<1> HIDE DEF q
<1>4. \A m : Posted(m) => Posted(m)'
  BY LogGrows DEF Inv, IInv, Posted
<1> QED
  BY <1>1, <1>2, <1>3, <1>4, Unpack DEF StepKeeps

LEMMA LookupKeeps ==
    ASSUME Inv, NEW r \in requests, Lookup(r) PROVE StepKeeps
<1>1. /\ Proceed(r, AfterLookup(r)) /\ log' = log /\ intake' = intake
      /\ worker' = worker /\ asked' = asked
  BY DEF Lookup, lane
<1>2. /\ AfterLookup(r) \in {"missed", "stored", "absent"}
      /\ AfterLookup(r) = "stored" => Posted(r.message)
  BY DEF AfterLookup
<1>3. Posted(r.message)' = Posted(r.message)
  BY <1>1 DEF Posted
<1> QED
  BY <1>1, <1>2, <1>3, ProceedKeeps, Unpack DEF LogStep, Response

LEMMA StoreKeeps ==
    ASSUME Inv, NEW r \in requests, Store(r) PROVE StepKeeps
<1>1. intake' = intake /\ worker' = worker /\ asked' = asked
  BY DEF Store
<1>2. r.message \in Message /\ First(r.message) /\ log \in Seq(Event)
  BY Unpack DEF Inv, IInv, Types
<1>3. CASE Served
  <2>1. Proceed(r, "stored") /\ log' = NewLog(r.message)
    BY <1>3 DEF Store
  <2>2. LogStep
    BY <1>2, <2>1 DEF NewLog, LogStep
  <2>3. Posted(r.message)'
    <3>1. CASE Posted(r.message)
      BY <2>1, <3>1 DEF NewLog, Posted
    <3>2. CASE ~Posted(r.message)
      <4>1. log' = Append(log, UserEvent(r.message)) /\ UserEvent(r.message) \in Event
        BY <1>2, <2>1, <3>2, Messages DEF NewLog
      <4>2. Len(log) + 1 \in DOMAIN log' /\ log'[Len(log) + 1] = UserEvent(r.message)
        BY <1>2, <4>1
      <4> QED
        BY <4>2 DEF Posted
    <3> QED
      BY <3>1, <3>2
  <2> QED
    BY <1>1, <2>1, <2>2, <2>3, ProceedKeeps, Unpack
<1>4. CASE ~Served
  BY <1>1, <1>4, ProceedKeeps, Unpack DEF Store, LogStep, Response
<1> QED
  BY <1>3, <1>4

LEMMA AskRunKeeps ==
    ASSUME Inv, NEW r \in requests, AskRun(r) PROVE StepKeeps
<1>1. intake' = intake /\ worker' = worker /\ log' = log /\ r.at = "stored"
  BY DEF AskRun, lane
<1>2. Posted(r.message)' /\ r.message \in Message
  BY <1>1, Unpack DEF Posted
<1>3. CASE asked' = asked \cup {r.message} /\ Proceed(r, "accepted")
  BY <1>1, <1>2, <1>3, ProceedKeeps, Unpack DEF LogStep, Response
<1>4. ASSUME asked' = asked, NEW at \in {"refused", "broken"}, Proceed(r, at)
      PROVE  StepKeeps
  BY <1>1, <1>4, ProceedKeeps, Unpack DEF LogStep, Response
<1> QED
  BY <1>3, <1>4 DEF AskRun
-------------------------------------------------------------------------------
LEMMA IntakeKeeps ==
    ASSUME Inv, IntakeNext PROVE StepKeeps
BY AcceptKeeps, ClaimKeeps, CreateKeeps, MarkReadyKeeps, AppendAnsweredKeeps,
   AppendLostKeeps, ReclaimKeeps, RequeueKeeps, SkipKeeps, LookupKeeps, StoreKeeps,
   AskRunKeeps DEF IntakeNext, WorkerStep, ServerStep

LEMMA OutboxKeeps ==
    ASSUME Inv, OutboxNext, UNCHANGED intakeVars PROVE StepKeeps
<1>1. log' = log
  BY DEF OutboxNext, StartSync, SyncStep, SyncFails, SkipDelivery, Fetch, EndPage, ScanPlain,
     ScanFinal, SearchBack, SearchFails, InsertFinal, lane
<1> QED
  BY <1>1, QuietKeeps DEF LogStep, intakeVars

LEMMA OthersKeep ==
    ASSUME Inv, AgentSpeaks \/ Delete \/ ServerRestart \/ RelayCrash PROVE StepKeeps
<1>1. CASE AgentSpeaks
  <2>1. LogStep /\ UNCHANGED intakeVars
    BY <1>1 DEF AgentSpeaks, LogStep
  <2> QED
    BY <2>1, QuietKeeps DEF intakeVars
<1>2. CASE Delete \/ ServerRestart \/ RelayCrash
  <2>1. /\ log' = log /\ intake' = intake /\ asked' = asked
        /\ requests' \subseteq requests /\ worker' \in {worker, Idle}
    BY <1>2 DEF Delete, ServerRestart, RelayCrash, intakeVars
  <2> QED
    BY <2>1, QuietKeeps DEF LogStep
<1> QED
  BY <1>1, <1>2

LEMMA Initially == Init => Inv
<1> SUFFICES ASSUME Init PROVE Inv
  OBVIOUS
<1>1. log = <<>> /\ requests = {} /\ asked = {} /\ worker = Idle
  BY DEF Init, LaneInit, IntakeInit
<1>2. intake \in [Message -> Row] /\ \A m \in Message : intake[m].state = "none"
  BY DEF Init, IntakeInit, Row
<1> QED
  BY <1>1, <1>2 DEF Inv, IInv, Types, ClaimHeld, RequestsSound, PostedAreFirst, PostedOnce,
     PostedInOrder, DoneIsServed, Posted

LEMMA Stutter == ASSUME Inv, UNCHANGED vars PROVE Inv'
BY DEF vars, lane, intakeVars, Inv, IInv, Types, ClaimHeld, RequestsSound, PostedAreFirst,
   PostedOnce, PostedInOrder, DoneIsServed, Posted, First, Resolved

(* The inductive invariant holds in every reachable state (MessageRelay).    *)
THEOREM Invariance == Spec => []Inv
<1>1. Init => Inv
  BY Initially
<1>2. Inv /\ [Next]_vars => Inv'
  BY IntakeKeeps, OutboxKeeps, OthersKeep, StepPreserves, Stutter DEF Next
<1> QED
  BY <1>1, <1>2, PTL DEF Spec

(* A message is in the log at most once, however often its append is sent    *)
(* and however late a call arrives (sendMessage).                            *)
THEOREM OnceSafe == Spec => []PostedOnce
BY Invariance, PTL DEF Inv

(* Messages are in the log in the order of the platform, but for one that an *)
(* operator skipped (integrateNextIntake).                                   *)
THEOREM OrderSafe == Spec => []PostedInOrder
BY Invariance, PTL DEF Inv

(* A message settled as done is in the log and had a run requested for it    *)
(* (integrateNextIntake, sendMessage).                                       *)
THEOREM DoneSafe == Spec => []DoneIsServed
BY Invariance, PTL DEF Inv
-------------------------------------------------------------------------------
(* The rows move as the store lets them (module WorkQueue).                  *)

(* Messages are accepted in order, and only the first one that is not        *)
(* resolved was ever worked on and is not resolved.                          *)
RowsAre(n) == \A m \in Message : intake[m].state # "none" <=> m <= n

RowsSound ==
    /\ \E n \in 0..MaxMessages : RowsAre(n)
    /\ \A m \in Message : intake[m].state \in {"claimed", "failed"} => First(m)

Becomes(m) ==
    \/ intake'[m].state = intake[m].state
    \/ /\ intake[m].state = "none" /\ intake'[m].state = "ready"
       /\ \A k \in 1..(m - 1) : intake[k].state # "none"
    \/ intake[m].state = "ready" /\ intake'[m].state = "claimed" /\ First(m)
    \/ intake[m].state = "claimed" /\ intake'[m].state \in {"ready", "failed", "done"}
    \/ intake[m].state = "failed" /\ intake'[m].state \in {"ready", "skipped"}

RowsStep == \A m \in Message : Becomes(m)

LEMMA OneRowMoves ==
    ASSUME Inv, NEW m \in Message, NEW row, intake' = [intake EXCEPT ![m] = row],
           \/ /\ intake[m].state = "none" /\ row.state = "ready"
              /\ \A k \in 1..(m - 1) : intake[k].state # "none"
           \/ intake[m].state = "ready" /\ row.state = "claimed" /\ First(m)
           \/ intake[m].state = "claimed" /\ row.state \in {"ready", "failed", "done"}
           \/ intake[m].state = "failed" /\ row.state \in {"ready", "skipped"}
    PROVE  RowsStep
<1>1. \A k \in Message : intake'[k] = IF k = m THEN row ELSE intake[k]
  BY Unpack
<1> QED
  BY <1>1 DEF RowsStep, Becomes

LEMMA EndAttemptMoves ==
    ASSUME Inv, worker # Idle, NEW outcome \in {"done", "fail", "retry"}, EndAttempt(outcome)
    PROVE  RowsStep
<1> DEFINE m == worker.message
           row == [intake[m] EXCEPT !.state = StateAfter(intake[m], outcome)]
<1>1. m \in Message /\ intake[m].state = "claimed" /\ intake[m] \in Row
  BY Unpack
<1>2. row.state \in {"ready", "failed", "done"}
  BY <1>1 DEF Row, StateAfter
<1>3. intake' = [intake EXCEPT ![m] = row]
  BY DEF EndAttempt
<1> HIDE DEF m, row
<1> QED
  BY <1>1, <1>2, <1>3, OneRowMoves

LEMMA RowsMove ==
    ASSUME Inv, [Next]_vars
    PROVE  RowsStep
<1>1. CASE UNCHANGED intake
  BY <1>1 DEF RowsStep, Becomes
<1>2. ASSUME NEW m \in Message, Accept(m) \/ Reclaim(m) \/ SkipMessage(m) \/ RequeueMessage(m)
      PROVE  RowsStep
  <2>1. intake[m] \in Row
    BY Unpack
  <2> QED
    BY <1>2, <2>1, OneRowMoves DEF Accept, Reclaim, SkipMessage, RequeueMessage, Row
<1>3. ASSUME NEW m \in Message, Claim(m)
      PROVE  RowsStep
  BY <1>3, OneRowMoves DEF Claim
<1>4. CASE CreateRejected \/ CreateLost \/ AppendBroken
  BY <1>4, EndAttemptMoves DEF CreateRejected, CreateLost, AppendBroken, Idle
<1>5. ASSUME NEW r \in requests, AppendAnswered(r) \/ AppendTimedOut(r)
      PROVE  RowsStep
  BY <1>5, EndAttemptMoves DEF AppendAnswered, AppendTimedOut, Awaited, Idle
<1>6. CASE IntakeNext
  <2>1. CASE CreateAnswered \/ MarkReady \/ ServerStep
    BY <1>1, <2>1 DEF CreateAnswered, MarkReady, ServerStep, Lookup, Store, AskRun
  <2> QED
    BY <1>2, <1>3, <1>4, <1>5, <1>6, <2>1 DEF IntakeNext, WorkerStep
<1> QED
  BY <1>1, <1>6 DEF Next, vars, intakeVars, AgentSpeaks, Delete, ServerRestart, RelayCrash

LEMMA OneJoins ==
    ASSUME RowsStep, NEW n \in 0..MaxMessages, RowsAre(n)
    PROVE  \E p \in {n, n + 1} \cap (0..MaxMessages) : RowsAre(p)'
<1>1. \A m \in Message : intake[m].state # "none" => intake'[m].state # "none"
  BY DEF RowsStep, Becomes
<1>2. \A m \in Message : intake[m].state = "none" /\ intake'[m].state # "none" => m = n + 1
  <2> SUFFICES ASSUME NEW m \in Message, intake[m].state = "none", intake'[m].state # "none"
               PROVE  m = n + 1
    OBVIOUS
  <2>1. m > n /\ \A k \in 1..(m - 1) : intake[k].state # "none"
    BY DEF RowsAre, RowsStep, Becomes, Message
  <2>2. n \in Nat /\ m \in Nat /\ n + 1 \in Message
    BY <2>1, AgentEventsAssumption DEF Message
  <2>3. intake[n + 1].state = "none"
    BY <2>2 DEF RowsAre
  <2> QED
    BY <2>1, <2>2, <2>3
<1>3. CASE \E m \in Message : intake[m].state = "none" /\ intake'[m].state # "none"
  <2>1. RowsAre(n + 1)' /\ n + 1 \in 0..MaxMessages
    BY <1>1, <1>2, <1>3 DEF RowsAre, Message
  <2> QED
    BY <2>1
<1>4. CASE \A m \in Message : intake[m].state = "none" => intake'[m].state = "none"
  <2>1. RowsAre(n)'
    BY <1>1, <1>4 DEF RowsAre
  <2> QED
    BY <2>1
<1> QED
  BY <1>3, <1>4

LEMMA RowsPreserved ==
    ASSUME Inv, RowsSound, RowsStep
    PROVE  RowsSound'
<1>1. \A m \in Message : Resolved(m) => Resolved(m)'
  BY DEF RowsStep, Becomes, Resolved
<1>2. \A m \in Message : 1..(m - 1) \subseteq Message
  BY AgentEventsAssumption DEF Message
<1>3. \A m \in Message : First(m) => First(m)'
  BY <1>1, <1>2 DEF First
<1>4. \A m \in Message : intake'[m].state \in {"claimed", "failed"} => First(m)'
  BY <1>3 DEF RowsStep, Becomes, RowsSound
<1>5. \E n \in 0..MaxMessages : RowsAre(n)'
  BY OneJoins DEF RowsSound
<1> QED
  BY <1>4, <1>5 DEF RowsSound

LEMMA LastIs ==
    ASSUME NEW n \in 0..MaxMessages, RowsAre(n)
    PROVE  LastAccepted = n
<1>1. \A p \in 0..MaxMessages : RowsAre(p) => p = n
  <2> SUFFICES ASSUME NEW p \in 0..MaxMessages, RowsAre(p), p # n PROVE FALSE
    OBVIOUS
  <2>1. \A m \in Message : m <= n <=> m <= p
    BY DEF RowsAre
  <2>2. CASE p < n
    BY <2>1, <2>2 DEF Message
  <2>3. CASE n < p
    BY <2>1, <2>3 DEF Message
  <2> QED
    BY <2>2, <2>3
<1> QED
  BY <1>1 DEF LastAccepted, RowsAre

LEMMA LastIsNext ==
    ASSUME NEW n \in 0..MaxMessages, RowsAre(n)'
    PROVE  LastAccepted' = n
<1>1. \A p \in 0..MaxMessages : RowsAre(p)' => p = n
  <2> SUFFICES ASSUME NEW p \in 0..MaxMessages, RowsAre(p)', p # n PROVE FALSE
    OBVIOUS
  <2>1. \A m \in Message : m <= n <=> m <= p
    BY DEF RowsAre
  <2>2. CASE p < n
    BY <2>1, <2>2 DEF Message
  <2>3. CASE n < p
    BY <2>1, <2>3 DEF Message
  <2> QED
    BY <2>2, <2>3
<1> QED
  BY <1>1 DEF LastAccepted, RowsAre

LEMMA QueueSteps ==
    ASSUME Inv, Inv', RowsSound, RowsStep
    PROVE  RowQueue!Step(Standings, Standings')
<1>1. PICK n \in 0..MaxMessages : RowsAre(n)
  BY DEF RowsSound
<1>2. PICK p \in {n, n + 1} \cap (0..MaxMessages) : RowsAre(p)'
  BY <1>1, OneJoins
<1>3. Standings = [m \in 1..n |-> Standing(intake[m].state)]
  BY <1>1, LastIs DEF Standings
<1>4. Standings' = [m \in 1..p |-> Standing(intake'[m].state)]
  BY <1>2, LastIsNext DEF Standings
<1>5. n \in Nat /\ p \in Nat /\ 1..n \subseteq Message /\ 1..p \subseteq Message
  BY AgentEventsAssumption DEF Message
<1>6. Len(Standings) = n /\ DOMAIN Standings = 1..n
      /\ Len(Standings') = p /\ DOMAIN Standings' = 1..p
  BY <1>3, <1>4, <1>5
<1>7. ASSUME NEW m \in 1..n, Standings'[m] # Standings[m]
      PROVE  RowQueue!First(Standings, m)
             /\ Standings'[m] \in RowQueue!MayBecome(Standings[m])
  <2>1. /\ m \in Message /\ m \in 1..p /\ Becomes(m) /\ intake[m].state # "none"
        /\ Standings[m] = Standing(intake[m].state)
        /\ Standings'[m] = Standing(intake'[m].state)
    BY <1>1, <1>2, <1>3, <1>4, <1>5 DEF RowsStep, RowsAre
  <2>2. First(m) /\ intake[m].state # intake'[m].state
    BY <1>7, <2>1 DEF Becomes, RowsSound
  <2>3. RowQueue!First(Standings, m)
    <3> SUFFICES ASSUME NEW k \in 1..(m - 1) PROVE Standings[k] = "resolved"
      BY DEF RowQueue!First
    <3>1. k \in 1..n /\ intake[k].state \in {"done", "skipped"}
      BY <1>5, <2>2 DEF First, Resolved
    <3> QED
      BY <1>3, <3>1 DEF Standing
  <2>4. Standings'[m] \in RowQueue!MayBecome(Standings[m])
    BY <2>1, <2>2 DEF Becomes, Standing, RowQueue!MayBecome
  <2> QED
    BY <2>3, <2>4
<1>8. ASSUME NEW m \in 1..p, m \notin 1..n
      PROVE  Standings'[m] = "open"
  <2>1. m \in Message /\ Becomes(m) /\ intake[m].state = "none" /\ intake'[m].state # "none"
    BY <1>1, <1>2, <1>5, <1>8 DEF RowsStep, RowsAre
  <2>2. intake'[m].state = "ready"
    BY <2>1 DEF Becomes
  <2> QED
    BY <1>4, <2>2 DEF Standing
<1> QED
  BY <1>2, <1>5, <1>6, <1>7, <1>8 DEF RowQueue!Step

(* What a worker, lost claims and the operator do to the rows of the lane    *)
(* here is what the store lets them do (integrateNextIntake, claimReady).    *)
THEOREM ImplementsQueue == Spec => RowsAreQueued
<1> DEFINE queues == [k \in {"intake"} |-> Standings]
<1>1. Init => RowsSound /\ RowQueue!Init
  <2> SUFFICES ASSUME Init PROVE RowsSound /\ RowQueue!Init
    OBVIOUS
  <2>1. \A m \in Message : intake[m].state = "none"
    BY DEF Init, IntakeInit
  <2>2. 0 \in 0..MaxMessages /\ RowsAre(0)
    BY <2>1, AgentEventsAssumption DEF RowsAre, Message
  <2>3. Standings = <<>>
    BY <2>2, LastIs DEF Standings
  <2> QED
    BY <2>1, <2>2, <2>3 DEF RowsSound, RowQueue!Init
<1>2. Inv /\ RowsSound /\ [Next]_vars => RowsSound'
  BY RowsMove, RowsPreserved
<1>3. Inv /\ Inv' /\ RowsSound /\ [Next]_vars => [RowQueue!Next]_queues
  <2> SUFFICES ASSUME Inv, Inv', RowsSound, [Next]_vars PROVE [RowQueue!Next]_queues
    OBVIOUS
  <2>1. RowQueue!Step(Standings, Standings')
    BY RowsMove, QueueSteps
  <2> QED
    BY <2>1 DEF RowQueue!Next
<1> QED
  BY <1>1, <1>2, <1>3, Invariance, PTL DEF Spec, RowsAreQueued, RowQueue!Spec
-------------------------------------------------------------------------------
(* The outbox. *)

EchoOf(p, r) ==
    /\ r < p
    /\ log[r].kind = "send" /\ log[p].kind = "final"
    /\ log[r].text = log[p].text
    /\ \A q \in (r + 1)..(p - 1) : ~EndsTurn(q)

Settled(p) ==
    \/ ~Deliverable(log[p])
    \/ p \in Queued
    \/ \E r \in Queued : EchoOf(p, r)

AllSettled(n) == \A p \in 1..n : Settled(p)

QueueSound ==
    /\ log \in Seq(Event)
    /\ outbox \in Seq(Nat) /\ Queued \subseteq DOMAIN log
    /\ \A q \in Queued : AllSettled(q - 1)

CursorSound == cursor \in Nat /\ cursor <= Len(log) /\ AllSettled(cursor)

(* What an operator has not skipped of what the turn has said. *)
NoEcho(p) == \A r \in Queued \ skipped : ~EchoOf(p, r)

(* Nothing between n and p tells whether p is an echo. *)
Silent(n, p) == \A q \in (n + 1)..(p - 1) : ~EndsTurn(q) /\ ~SaysTheSame(q, p)

AtEvent ==
    /\ sync.low \in Nat /\ sync.high \in Nat /\ sync.next \in Nat
    /\ sync.low < sync.next /\ sync.next <= sync.high + 1 /\ sync.high <= Len(log)
    /\ AllSettled(sync.next - 1)

AtFinal == sync.next <= sync.high /\ log[sync.next].kind = "final"

AtSearch ==
    /\ AtFinal
    /\ sync.back \in Nat /\ sync.back < sync.next
    /\ Silent(sync.back, sync.next)

(* The sync is at an event up to which all are settled; a search has found   *)
(* nothing that tells so far.                                                *)
SyncSound ==
    /\ sync \in Sync
    /\ sync.at = "fetch" => sync.low <= Len(log) /\ AllSettled(sync.low)
    /\ sync.at \in {"scan", "search", "insert"} => AtEvent
    /\ sync.at = "search" => AtSearch
    /\ sync.at = "insert" => AtFinal /\ NoEcho(sync.next)

OutboxInv == QueueSound /\ CursorSound /\ SyncSound
-------------------------------------------------------------------------------
(* What the operators of Promise are. *)

LEMMA SameQueued == Promise!Queued = Queued
BY DEF Promise!Queued, Queued, Promise!Range, Range

LEMMA SameEcho == ASSUME NEW p, NEW r PROVE Promise!EchoOf(p, r) <=> EchoOf(p, r)
BY DEF EchoOf, Promise!EchoOf, EndsTurn

LEMMA SameSettled == ASSUME NEW p PROVE Promise!Settled(p) <=> Settled(p)
BY SameQueued, SameEcho DEF Settled, Promise!Settled, Promise!Deliverable, Deliverable

LEMMA SameEvent == Promise!Event = Event
BY DEF Promise!Event, Event, Promise!UserEvent, UserEvent, Promise!Message, Message,
   Promise!AgentEvent, AgentEvent
-------------------------------------------------------------------------------
(* Log and queue only grow, and what was settled stays so. *)

Grows ==
    /\ log' \in Seq(Event) /\ Len(log) <= Len(log')
    /\ \A p \in 1..Len(log) : log'[p] = log[p]
    /\ Queued \subseteq Queued'

LEMMA EchoStays ==
    ASSUME QueueSound, Grows, NEW p \in 1..Len(log), NEW r \in 1..Len(log)
    PROVE  EchoOf(p, r)' <=> EchoOf(p, r)
<1>1. \A q \in (r + 1)..(p - 1) : q \in 1..Len(log)
  BY DEF QueueSound
<1>2. log'[p] = log[p] /\ log'[r] = log[r]
  BY DEF Grows
<1>3. \A q \in (r + 1)..(p - 1) : log'[q] = log[q]
  BY <1>1 DEF Grows
<1> QED
  BY <1>2, <1>3 DEF EchoOf, EndsTurn

LEMMA SettledStays ==
    ASSUME QueueSound, Grows, NEW p \in 1..Len(log), Settled(p)
    PROVE  Settled(p)'
<1>1. CASE ~Deliverable(log[p])
  BY <1>1 DEF Settled, Grows, Deliverable
<1>2. CASE p \in Queued
  BY <1>2 DEF Settled, Grows
<1>3. CASE \E r \in Queued : EchoOf(p, r)
  <2>1. PICK r \in Queued : EchoOf(p, r)
    BY <1>3
  <2>2. r \in 1..Len(log)
    BY DEF QueueSound
  <2>3. EchoOf(p, r)' /\ r \in Queued'
    BY <2>1, <2>2, EchoStays DEF Grows
  <2> QED
    BY <2>3 DEF Settled
<1> QED
  BY <1>1, <1>2, <1>3 DEF Settled

LEMMA AllSettledStays ==
    ASSUME QueueSound, Grows, NEW n \in Int, n <= Len(log), AllSettled(n)
    PROVE  AllSettled(n)'
<1> SUFFICES ASSUME NEW p \in 1..n PROVE Settled(p)'
  BY DEF AllSettled
<1>1. p \in 1..Len(log) /\ Settled(p)
  BY DEF AllSettled, QueueSound
<1> QED
  BY <1>1, SettledStays
-------------------------------------------------------------------------------
(* The echo search (isQueuedFinalEcho). *)

LEMMA VerdictSound ==
    ASSUME QueueSound, NEW p \in 1..Len(log), log[p].kind = "final",
           NEW low \in Nat \ {0}, NEW high \in Nat, high < p, low <= p, Silent(high, p)
    PROVE  /\ Verdict(low, high, p) = "echo" => Settled(p)
           /\ Verdict(low, high, p) = "new" => NoEcho(p)
           /\ Verdict(low, high, p) = "unknown" => Silent(low - 1, p)
<1> DEFINE Told == \E q \in low..high :
                      SaysTheSame(q, p) /\ \A r \in (q + 1)..high : ~EndsTurn(r)
<1> DEFINE Ended == low = 1 \/ \E q \in low..high : EndsTurn(q)
<1>1. Verdict(low, high, p) = IF Told THEN "echo" ELSE IF Ended THEN "new" ELSE "unknown"
  BY DEF Verdict
<1>2. ASSUME Told PROVE Settled(p)
  <2>1. PICK q \in low..high : SaysTheSame(q, p) /\ \A r \in (q + 1)..high : ~EndsTurn(r)
    BY <1>2
  <2>2. \A r \in (q + 1)..(p - 1) : r \in (q + 1)..high \/ r \in (high + 1)..(p - 1)
    BY <2>1
  <2>3. EchoOf(p, q)
    BY <2>1, <2>2 DEF EchoOf, SaysTheSame, Silent
  <2> QED
    BY <2>1, <2>3 DEF Settled, SaysTheSame
<1>3. ASSUME ~Told, Ended PROVE NoEcho(p)
  <2> SUFFICES ASSUME NEW r \in Queued \ skipped, EchoOf(p, r) PROVE FALSE
    BY DEF NoEcho
  <2>1. r \in 1..Len(log) /\ r < p
    BY DEF QueueSound, EchoOf
  <2>2. SaysTheSame(r, p)
    BY DEF EchoOf, SaysTheSame
  <2>3. r <= high
    BY <2>1, <2>2 DEF Silent
  <2>4. \A q \in (r + 1)..high : q \in (r + 1)..(p - 1)
    BY <2>1
  <2>5. r < low
    BY <1>3, <2>1, <2>2, <2>3, <2>4 DEF EchoOf
  <2>6. PICK q \in low..high : EndsTurn(q)
    BY <1>3, <2>1, <2>5
  <2>7. q \in (r + 1)..(p - 1)
    BY <2>1, <2>5, <2>6
  <2> QED
    BY <2>6, <2>7 DEF EchoOf
<1>4. ASSUME ~Told, ~Ended PROVE Silent(low - 1, p)
  <2> SUFFICES ASSUME NEW q \in low..(p - 1) PROVE ~EndsTurn(q) /\ ~SaysTheSame(q, p)
    BY DEF Silent
  <2>1. CASE q \in low..high
    <3>1. \A r \in (q + 1)..high : r \in low..high
      BY <2>1
    <3> QED
      BY <1>4, <2>1, <3>1
  <2>2. CASE q \in (high + 1)..(p - 1)
    BY <2>2 DEF Silent
  <2> QED
    BY <2>1, <2>2
<1> QED
  BY <1>1, <1>2, <1>3, <1>4
-------------------------------------------------------------------------------
(* Every step of intake, agent and network leaves the outbox alone, and the  *)
(* log grows by at most one event.                                           *)

Recorded == log' = log \/ \E e \in Event : log' = Append(log, e)

Quiet == Recorded /\ UNCHANGED <<cursor, outbox>> /\ skipped \subseteq skipped'

LEMMA RecordedGrows ==
    ASSUME QueueSound, Recorded, outbox' = outbox PROVE Grows
<1>1. Queued' = Queued
  BY DEF Queued
<1>2. log \in Seq(Event) /\ Len(log) \in Nat
  BY DEF QueueSound
<1>3. CASE log' = log
  BY <1>1, <1>2, <1>3 DEF Grows
<1>4. ASSUME NEW e \in Event, log' = Append(log, e) PROVE Grows
  <2>1. /\ log' \in Seq(Event) /\ Len(log') = Len(log) + 1
        /\ \A p \in 1..Len(log) : log'[p] = log[p]
    BY <1>2, <1>4, AppendProperties
  <2> QED
    BY <1>1, <1>2, <2>1 DEF Grows
<1> QED
  BY <1>3, <1>4 DEF Recorded

LEMMA QuietKeepsQueue ==
    ASSUME QueueSound, CursorSound, Quiet PROVE QueueSound' /\ CursorSound'
<1>1. Grows /\ Queued' = Queued
  BY RecordedGrows DEF Quiet, Queued
<1>2. DOMAIN log = 1..Len(log) /\ DOMAIN log' = 1..Len(log')
  BY <1>1 DEF QueueSound, Grows
<1>3. ASSUME NEW q \in Queued PROVE AllSettled(q - 1)'
  <2>1. q \in 1..Len(log)
    BY <1>2 DEF QueueSound
  <2> QED
    BY <1>1, <2>1, AllSettledStays DEF QueueSound
<1>4. Len(log) \in Nat /\ Len(log') \in Nat
  BY <1>1 DEF QueueSound, Grows
<1>5. QueueSound'
  BY <1>1, <1>2, <1>3, <1>4 DEF QueueSound, Grows, Quiet
<1>6. CursorSound'
  BY <1>1, <1>4, AllSettledStays DEF CursorSound, Quiet, Grows
<1> QED
  BY <1>5, <1>6

LEMMA QuietKeepsSync ==
    ASSUME OutboxInv, Quiet, sync' = sync PROVE SyncSound'
<1>1. Grows /\ Queued' = Queued /\ QueueSound
  BY RecordedGrows DEF Quiet, Queued, OutboxInv
<1>2. DOMAIN log = 1..Len(log) /\ DOMAIN log' = 1..Len(log') /\ Len(log) \in Nat
      /\ Len(log') \in Nat
  BY <1>1 DEF QueueSound, Grows
<1>3. SyncSound /\ sync \in Sync
  BY DEF OutboxInv, SyncSound
<1>4. sync.low \in Nat /\ sync.high \in Nat /\ sync.next \in Nat /\ sync.back \in Nat
  BY <1>3 DEF Sync
<1>5. sync.at = "fetch" => sync.low <= Len(log') /\ AllSettled(sync.low)'
  BY <1>1, <1>2, <1>3, <1>4, AllSettledStays DEF SyncSound, Grows
<1>6. ASSUME AtEvent PROVE AtEvent'
  <2>1. AllSettled(sync.next - 1)'
    BY <1>1, <1>2, <1>4, <1>6, AllSettledStays DEF AtEvent
  <2> QED
    BY <1>1, <1>2, <1>4, <1>6, <2>1 DEF AtEvent, Grows
<1>7. ASSUME AtEvent, AtFinal PROVE AtFinal' /\ sync.next \in 1..Len(log)
  BY <1>1, <1>2, <1>4, <1>7 DEF AtEvent, AtFinal, Grows
<1>8. ASSUME AtEvent, AtSearch PROVE AtSearch'
  <2>1. sync.next \in 1..Len(log) /\ AtFinal'
    BY <1>7, <1>8 DEF AtSearch
  <2>2. Silent(sync.back, sync.next)'
    <3> SUFFICES ASSUME NEW q \in (sync.back + 1)..(sync.next - 1)
                 PROVE  ~EndsTurn(q)' /\ ~SaysTheSame(q, sync.next)'
      BY DEF Silent
    <3>1. q \in 1..Len(log) /\ ~EndsTurn(q) /\ ~SaysTheSame(q, sync.next)
      BY <1>2, <1>4, <1>8, <2>1 DEF AtSearch, Silent
    <3> QED
      BY <1>1, <2>1, <3>1 DEF EndsTurn, SaysTheSame, Grows, Quiet
  <2> QED
    BY <1>8, <2>1, <2>2 DEF AtSearch
<1>9. ASSUME AtEvent, AtFinal, NoEcho(sync.next) PROVE NoEcho(sync.next)'
  <2> SUFFICES ASSUME NEW r \in (Queued \ skipped)', EchoOf(sync.next, r)' PROVE FALSE
    BY DEF NoEcho
  <2>1. r \in Queued \ skipped /\ r \in 1..Len(log) /\ sync.next \in 1..Len(log)
    BY <1>1, <1>2, <1>7, <1>9 DEF Quiet, QueueSound
  <2>2. EchoOf(sync.next, r)
    BY <1>1, <2>1, EchoStays
  <2> QED
    BY <1>9, <2>1, <2>2 DEF NoEcho
<1> QED
  BY <1>3, <1>5, <1>6, <1>7, <1>8, <1>9 DEF SyncSound
-------------------------------------------------------------------------------
(* Pages. *)

LEMMA PageEndIs ==
    ASSUME NEW low \in Nat, Len(log) \in Nat, low <= Len(log)
    PROVE  PageEnd(low) \in Nat /\ low <= PageEnd(low) /\ PageEnd(low) <= Len(log)
<1> DEFINE S == {low + PageSize, Len(log)}
<1>1. PageSize \in Nat
  BY DeliveryOutboxAssumption
<1>2. \E x \in S : \A y \in S : x <= y
  <2>1. CASE low + PageSize <= Len(log)
    BY <1>1, <2>1
  <2>2. CASE Len(log) <= low + PageSize
    BY <1>1, <2>2
  <2> QED
    BY <1>1, <2>1, <2>2
<1>3. Min(S) \in S /\ \A y \in S : Min(S) <= y
  BY <1>2 DEF Min
<1> QED
  BY <1>1, <1>3 DEF PageEnd

LEMMA PageStartIs ==
    ASSUME NEW back \in Nat
    PROVE  Max({0, back - PageSize}) \in Nat /\ Max({0, back - PageSize}) <= back
<1> DEFINE S == {0, back - PageSize}
<1>1. PageSize \in Nat
  BY DeliveryOutboxAssumption
<1>2. \E x \in S : \A y \in S : x >= y
  <2>1. CASE back - PageSize <= 0
    BY <1>1, <2>1
  <2>2. CASE back - PageSize >= 0
    BY <1>1, <2>2
  <2> QED
    BY <1>1, <2>1, <2>2
<1>3. Max(S) \in S /\ \A y \in S : Max(S) >= y
  BY <1>2 DEF Max
<1> QED
  BY <1>1, <1>3

(* Where a sync starts, or starts again. *)
LEMMA RestingSound == ASSUME sync' = Resting PROVE SyncSound'
BY DEF Resting, SyncSound, Sync

LEMMA FetchingSound ==
    ASSUME NEW low \in Nat, low <= Len(log), AllSettled(low), QueueSound,
           log' = log, outbox' = outbox, sync' = Fetching(low)
    PROVE  SyncSound'
<1>1. sync' \in Sync /\ sync'.at = "fetch" /\ sync'.low = low
  BY DEF Fetching, Resting, Sync
<1>2. AllSettled(low)'
  BY RecordedGrows, AllSettledStays DEF Recorded, QueueSound
<1> QED
  BY <1>1, <1>2 DEF SyncSound
-------------------------------------------------------------------------------
(* The steps of a sync that leave the queue alone. *)

LEMMA StartKeeps == ASSUME OutboxInv, StartSync PROVE SyncSound'
BY FetchingSound DEF OutboxInv, StartSync, CursorSound, lane

LEMMA FetchKeeps == ASSUME OutboxInv, Fetch PROVE SyncSound'
<1>1. /\ sync \in Sync /\ sync.low \in Nat /\ sync.low <= Len(log)
      /\ AllSettled(sync.low) /\ Len(log) \in Nat
  BY DEF OutboxInv, SyncSound, Fetch, Sync, QueueSound
<1>2. log' = log /\ outbox' = outbox
  BY DEF Fetch, lane
<1>3. PICK low \in Nat : low = sync.low
  BY <1>1
<1>4. AllSettled(low)'
  BY <1>1, <1>2, <1>3, RecordedGrows, AllSettledStays DEF Recorded, OutboxInv
<1>5. CASE sync' = [Resting EXCEPT
                        !.at = "scan", !.low = sync.low,
                        !.high = PageEnd(sync.low), !.next = sync.low + 1,
                        !.more = sync.low + PageSize < Len(log)]
  <2> DEFINE Further == sync.low + PageSize < Len(log)
  <2>a. sync' = [at |-> "scan", low |-> low, high |-> PageEnd(low), more |-> Further,
                 next |-> low + 1, back |-> 0]
    BY <1>3, <1>5 DEF Resting
  <2>b. PageEnd(low) \in Nat /\ Further \in BOOLEAN
    BY <1>1, <1>3, PageEndIs
  <2> HIDE DEF Further
  <2>1. /\ sync' \in Sync /\ sync'.at = "scan" /\ sync'.low = low
        /\ sync'.high = PageEnd(low) /\ sync'.next = low + 1
    BY <2>a, <2>b DEF Sync
  <2>2. sync'.next - 1 = low
    BY <1>3, <2>1
  <2>3. AtEvent'
    BY <1>1, <1>2, <1>3, <1>4, <2>1, <2>2, PageEndIs DEF AtEvent
  <2> QED
    BY <2>1, <2>3 DEF SyncSound
<1> QED
  BY <1>5, RestingSound DEF Fetch

LEMMA EndPageKeeps == ASSUME OutboxInv, EndPage PROVE CursorSound' /\ SyncSound'
<1>1. sync \in Sync /\ AtEvent /\ sync.high \in Nat /\ sync.high <= Len(log)
  BY DEF OutboxInv, SyncSound, EndPage, Sync, AtEvent
<1>2. PICK high \in Nat : high = sync.high
  BY <1>1
<1>3. sync.next - 1 = high /\ AllSettled(high)
  BY <1>1, <1>2 DEF EndPage, AtEvent
<1>4. log' = log /\ outbox' = outbox /\ QueueSound
  BY DEF EndPage, lane, OutboxInv
<1>5. AllSettled(high)'
  BY <1>1, <1>2, <1>3, <1>4, RecordedGrows, AllSettledStays DEF Recorded
<1>6. CursorSound'
  BY <1>1, <1>2, <1>4, <1>5 DEF CursorSound, EndPage, NextCursor
<1>7. SyncSound'
  BY <1>1, <1>2, <1>3, <1>4, FetchingSound, RestingSound DEF EndPage, NextCursor
<1> QED
  BY <1>6, <1>7

LEMMA QuietSyncKeeps ==
    ASSUME OutboxInv, UNCHANGED <<lane, outbox, skipped>>, sync' \in Sync,
           sync'.low = sync.low, sync'.high = sync.high, AtEvent
    PROVE  /\ (/\ AllSettled(sync'.next - 1)
               /\ sync'.next > sync.low /\ sync'.next <= sync.high + 1) => AtEvent'
           /\ \A p : NoEcho(p)' <=> NoEcho(p)
           /\ \A n, p : Silent(n, p)' <=> Silent(n, p)
           /\ log' = log
<1>1. Queued' = Queued /\ log' = log
  BY DEF Queued, lane
<1>2. \A p, r : EchoOf(p, r)' <=> EchoOf(p, r)
  BY <1>1 DEF EchoOf, EndsTurn
<1>3. \A p : Settled(p)' <=> Settled(p)
  BY <1>1, <1>2 DEF Settled, Deliverable
<1>4. \A n : AllSettled(n)' <=> AllSettled(n)
  BY <1>3 DEF AllSettled
<1>5. sync'.low \in Nat /\ sync'.high \in Nat /\ sync'.next \in Nat
  BY DEF Sync
<1>7. ASSUME AllSettled(sync'.next - 1), sync'.next > sync.low, sync'.next <= sync.high + 1
      PROVE  AtEvent'
  <2>1. \A p \in 1..(sync'.next - 1) : Settled(p)'
    BY <1>3, <1>7 DEF AllSettled
  <2> QED
    BY <1>1, <1>5, <1>7, <2>1 DEF AtEvent, AllSettled
<1>8. \A p : NoEcho(p)' <=> NoEcho(p)
  BY <1>1, <1>2 DEF NoEcho
<1>9. \A n, p : Silent(n, p)' <=> Silent(n, p)
  BY <1>1 DEF Silent, EndsTurn, SaysTheSame
<1> QED
  BY <1>1, <1>7, <1>8, <1>9

LEMMA PassOnIs ==
    ASSUME sync \in Sync, PassOn
    PROVE  /\ sync' \in Sync /\ sync'.at = "scan" /\ sync'.next = sync.next + 1
           /\ sync'.low = sync.low /\ sync'.high = sync.high
<1>1. PICK n : n = sync.next + 1
  OBVIOUS
<1>2. n \in Nat
  BY <1>1 DEF Sync
<1>3. sync' = [sync EXCEPT !.at = "scan", !.next = n, !.back = 0]
  BY <1>1 DEF PassOn
<1> QED
  BY <1>1, <1>2, <1>3 DEF Sync

LEMMA PassKeeps ==
    ASSUME OutboxInv, AtEvent, sync.next <= sync.high, Settled(sync.next),
           UNCHANGED <<lane, outbox, skipped>>, PassOn
    PROVE  SyncSound'
<1>1. sync \in Sync /\ sync.next \in Nat /\ sync.high \in Nat /\ sync.low \in Nat
  BY DEF OutboxInv, SyncSound, AtEvent
<1>2. AllSettled(sync'.next - 1)
  <2>1. \A p \in 1..(sync'.next - 1) : p \in 1..(sync.next - 1) \/ p = sync.next
    BY <1>1, PassOnIs
  <2> QED
    BY <2>1 DEF AllSettled, AtEvent
<1>3. AtEvent'
  BY <1>1, <1>2, PassOnIs, QuietSyncKeeps DEF AtEvent
<1> QED
  BY <1>1, <1>3, PassOnIs DEF SyncSound

LEMMA ActKeeps ==
    ASSUME OutboxInv, AtEvent, AtFinal, UNCHANGED <<lane, outbox, skipped>>,
           NEW low \in Nat \ {0}, NEW high \in Nat, high < sync.next, low <= sync.next,
           Silent(high, sync.next), Act(Verdict(low, high, sync.next), low)
    PROVE  SyncSound'
<1>1. PICK p \in Nat : p = sync.next
  BY DEF AtEvent
<1>2. /\ sync \in Sync /\ sync.low \in Nat /\ sync.high \in Nat /\ p <= sync.high
      /\ sync.low < p /\ QueueSound /\ p \in 1..Len(log) /\ log[p].kind = "final"
  BY <1>1 DEF OutboxInv, SyncSound, AtEvent, AtFinal, QueueSound
<1>3. /\ Verdict(low, high, p) = "echo" => Settled(p)
      /\ Verdict(low, high, p) = "new" => NoEcho(p)
      /\ Verdict(low, high, p) = "unknown" => Silent(low - 1, p)
  BY <1>1, <1>2, VerdictSound
<1>4. CASE Verdict(low, high, p) = "echo" /\ PassOn
  BY <1>1, <1>2, <1>3, <1>4, PassKeeps
<1>5. CASE Verdict(low, high, p) = "new" /\ sync' = [sync EXCEPT !.at = "insert"]
  <2>1. /\ sync' \in Sync /\ sync'.at = "insert" /\ sync'.next = p
        /\ sync'.low = sync.low /\ sync'.high = sync.high
    BY <1>1, <1>2, <1>5 DEF Sync
  <2>2. AtEvent' /\ NoEcho(p)' /\ log' = log
    BY <1>1, <1>2, <1>3, <1>5, <2>1, QuietSyncKeeps DEF AtEvent
  <2> QED
    BY <1>2, <2>1, <2>2 DEF SyncSound, AtFinal
<1>6. CASE /\ Verdict(low, high, p) = "unknown"
           /\ sync' = [sync EXCEPT !.at = "search", !.back = low - 1]
  <2>1. /\ sync' \in Sync /\ sync'.at = "search" /\ sync'.next = p /\ sync'.back = low - 1
        /\ sync'.low = sync.low /\ sync'.high = sync.high
    <3>1. PICK n \in Nat : n = low - 1
      OBVIOUS
    <3>2. sync' = [sync EXCEPT !.at = "search", !.back = n]
      BY <1>6, <3>1
    <3> QED
      BY <1>1, <1>2, <3>1, <3>2 DEF Sync
  <2>2. AtEvent' /\ Silent(low - 1, p)' /\ log' = log
    BY <1>1, <1>2, <1>3, <1>6, <2>1, QuietSyncKeeps DEF AtEvent
  <2>3. AtSearch'
    BY <1>1, <1>2, <2>1, <2>2 DEF AtSearch, AtFinal
  <2> QED
    BY <2>1, <2>2, <2>3 DEF SyncSound
<1> QED
  BY <1>1, <1>4, <1>5, <1>6 DEF Act

LEMMA ScanFinalKeeps == ASSUME OutboxInv, ScanFinal PROVE SyncSound'
<1> DEFINE low == sync.low + 1
<1>1. AtEvent /\ AtFinal
  BY DEF OutboxInv, SyncSound, ScanFinal, AtFinal, Event0
<1>2. /\ low \in Nat \ {0} /\ sync.next - 1 \in Nat /\ sync.next - 1 < sync.next
      /\ low <= sync.next
  BY <1>1 DEF AtEvent
<1>3. Silent(sync.next - 1, sync.next)
  BY <1>2 DEF Silent
<1>4. Act(Verdict(low, sync.next - 1, sync.next), low)
  BY DEF ScanFinal
<1> QED
  BY <1>1, <1>2, <1>3, <1>4, ActKeeps DEF ScanFinal

LEMMA SearchBackKeeps == ASSUME OutboxInv, SearchBack PROVE SyncSound'
<1> DEFINE low == Max({0, sync.back - PageSize}) + 1
<1>1. AtEvent /\ AtSearch /\ AtFinal
  BY DEF OutboxInv, SyncSound, SearchBack, AtSearch
<1>2. low \in Nat \ {0} /\ low <= sync.next
  BY <1>1, PageStartIs DEF AtSearch, AtEvent
<1>3. Act(Verdict(low, sync.back, sync.next), low)
  BY DEF SearchBack
<1> QED
  BY <1>1, <1>2, <1>3, ActKeeps DEF SearchBack, AtSearch
-------------------------------------------------------------------------------
(* Inserting. *)

LEMMA InsertIs ==
    ASSUME QueueSound, Insert, sync.next \in Nat
    PROVE  outbox' \in Seq(Nat) /\ Queued' = Queued \cup {sync.next}
<1>1. CASE sync.next \in Queued
  BY <1>1 DEF Insert, QueueSound, Queued
<1>2. CASE sync.next \notin Queued
  <2>1. outbox' = Append(outbox, sync.next) /\ outbox \in Seq(Nat)
    BY <1>2 DEF Insert, QueueSound
  <2>2. /\ outbox' \in Seq(Nat) /\ Len(outbox') = Len(outbox) + 1
        /\ \A i \in 1..Len(outbox) : outbox'[i] = outbox[i]
        /\ outbox'[Len(outbox) + 1] = sync.next
    BY <2>1, AppendProperties
  <2>3. DOMAIN outbox = 1..Len(outbox) /\ DOMAIN outbox' = 1..(Len(outbox) + 1)
        /\ Len(outbox) \in Nat
    BY <2>1, <2>2
  <2> QED
    BY <2>2, <2>3 DEF Queued, Range
<1> QED
  BY <1>1, <1>2

LEMMA InsertKeeps ==
    ASSUME OutboxInv, AtEvent, sync.next <= sync.high, Insert, PassOn,
           UNCHANGED <<lane, cursor, parked, skipped>>
    PROVE  OutboxInv'
<1>1. PICK p \in Nat : p = sync.next
  BY DEF AtEvent
<1>2. /\ sync \in Sync /\ sync.low \in Nat /\ sync.high \in Nat /\ p <= sync.high
      /\ sync.low < p /\ QueueSound /\ CursorSound /\ p \in 1..Len(log)
      /\ Len(log) \in Nat /\ DOMAIN log = 1..Len(log) /\ AllSettled(p - 1)
  BY <1>1 DEF OutboxInv, SyncSound, AtEvent, QueueSound
<1>3. outbox' \in Seq(Nat) /\ Queued' = Queued \cup {p}
  BY <1>1, <1>2, InsertIs
<1>4. log' = log /\ cursor' = cursor
  BY DEF lane
<1>5. Grows
  BY <1>2, <1>3, <1>4 DEF Grows, QueueSound
<1>6. AllSettled(p - 1)'
  BY <1>2, <1>5, AllSettledStays
<1>7. QueueSound'
  <2>1. ASSUME NEW q \in Queued PROVE AllSettled(q - 1)'
    <3>1. q \in 1..Len(log) /\ AllSettled(q - 1)
      BY <1>2 DEF QueueSound
    <3> QED
      BY <1>2, <1>5, <3>1, AllSettledStays
  <2> QED
    BY <1>2, <1>3, <1>4, <1>6, <2>1 DEF QueueSound
<1>8. CursorSound'
  BY <1>2, <1>4, <1>5, AllSettledStays DEF CursorSound
<1>9. SyncSound'
  <2>1. Settled(p)'
    BY <1>3 DEF Settled
  <2>2. AllSettled(p)'
    <3>1. \A q \in 1..p : q \in 1..(p - 1) \/ q = p
      BY <1>2
    <3> QED
      BY <1>6, <2>1, <3>1 DEF AllSettled
  <2>3. /\ sync' \in Sync /\ sync'.at = "scan" /\ sync'.next = p + 1 /\ sync'.next - 1 = p
        /\ sync'.low = sync.low /\ sync'.high = sync.high
    BY <1>1, <1>2, PassOnIs
  <2>4. AtEvent'
    BY <1>2, <1>4, <2>2, <2>3 DEF AtEvent, OutboxInv, SyncSound
  <2> QED
    BY <2>3, <2>4 DEF SyncSound
<1> QED
  BY <1>7, <1>8, <1>9 DEF OutboxInv

LEMMA ScanPlainKeeps == ASSUME OutboxInv, ScanPlain PROVE OutboxInv'
<1>1. AtEvent /\ sync.next <= sync.high
  BY DEF OutboxInv, SyncSound, ScanPlain
<1>2. CASE Deliverable(Event0)
  BY <1>1, <1>2, InsertKeeps DEF ScanPlain
<1>3. CASE ~Deliverable(Event0)
  <2>1. UNCHANGED <<lane, cursor, outbox, skipped>> /\ PassOn
    BY <1>3 DEF ScanPlain
  <2>2. Settled(sync.next)
    BY <1>3 DEF Settled, Event0
  <2>3. SyncSound'
    BY <1>1, <2>1, <2>2, PassKeeps
  <2> QED
    BY <2>1, <2>3, QuietKeepsQueue DEF Quiet, Recorded, OutboxInv, lane
<1> QED
  BY <1>2, <1>3

LEMMA InsertFinalKeeps == ASSUME OutboxInv, InsertFinal PROVE OutboxInv'
<1>1. AtEvent /\ sync.next <= sync.high
  BY DEF OutboxInv, SyncSound, InsertFinal, AtFinal
<1> QED
  BY <1>1, InsertKeeps DEF InsertFinal

LEMMA StartFetchKeeps ==
    ASSUME OutboxInv, StartSync \/ Fetch \/ ScanFinal \/ SearchBack \/ SearchFails \/ SyncFails
    PROVE  OutboxInv'
<1>1. SyncSound'
  BY StartKeeps, FetchKeeps, ScanFinalKeeps, SearchBackKeeps, RestingSound
     DEF SearchFails, SyncFails
<1>2. Quiet
  BY DEF StartSync, Fetch, ScanFinal, SearchBack, SearchFails, SyncFails, Quiet, Recorded, lane
<1> QED
  BY <1>1, <1>2, QuietKeepsQueue DEF OutboxInv

LEMMA EndPageKeepsAll == ASSUME OutboxInv, EndPage PROVE OutboxInv'
<1>1. QueueSound'
  <2>1. Queued' = Queued /\ log' = log /\ outbox' = outbox
    BY DEF EndPage, Queued, lane
  <2>2. \A p, r : EchoOf(p, r)' <=> EchoOf(p, r)
    BY <2>1 DEF EchoOf, EndsTurn
  <2>3. \A n : AllSettled(n)' <=> AllSettled(n)
    BY <2>1, <2>2 DEF AllSettled, Settled, Deliverable
  <2> QED
    BY <2>1, <2>3 DEF OutboxInv, QueueSound
<1> QED
  BY <1>1, EndPageKeeps DEF OutboxInv

(* Everything but the sync itself: other workers, the agent, the operator.   *)
LEMMA QuietKeepsAll ==
    ASSUME OutboxInv, Quiet, sync' \in {sync, Resting} PROVE OutboxInv'
<1>1. SyncSound'
  BY QuietKeepsSync, RestingSound
<1> QED
  BY <1>1, QuietKeepsQueue DEF OutboxInv

LEMMA OutboxNextKeeps == ASSUME OutboxInv, OutboxNext PROVE OutboxInv'
<1>1. CASE \E p \in DOMAIN log : SkipDelivery(p)
  <2>1. Quiet /\ sync' = sync
    BY <1>1 DEF SkipDelivery, Quiet, Recorded, lane
  <2> QED
    BY <2>1, QuietKeepsAll
<1> QED
  BY <1>1, ScanPlainKeeps, InsertFinalKeeps, StartFetchKeeps, EndPageKeepsAll
     DEF OutboxNext, SyncStep

(* The log only takes events. *)
LEMMA NextRecords ==
    ASSUME Inv, IntakeNext \/ AgentSpeaks \/ Delete \/ ServerRestart \/ RelayCrash
    PROVE  Recorded
<1>1. LogStep
  BY IntakeKeeps, OthersKeep DEF StepKeeps
<1> QED
  BY <1>1, Messages, Users DEF LogStep, Recorded

LEMMA OthersQuiet ==
    ASSUME Inv, \/ IntakeNext /\ UNCHANGED outboxVars
                \/ AgentSpeaks \/ Delete \/ ServerRestart \/ RelayCrash
    PROVE  Quiet /\ skipped' = skipped /\ sync' \in {sync, Resting}
<1>1. Recorded
  BY NextRecords
<1>2. UNCHANGED <<cursor, outbox, skipped>> /\ sync' \in {sync, Resting}
  BY DEF outboxVars, AgentSpeaks, Delete, ServerRestart, RelayCrash
<1> QED
  BY <1>1, <1>2 DEF Quiet

LEMMA OutboxInitially == Init => OutboxInv
<1> SUFFICES ASSUME Init PROVE OutboxInv
  OBVIOUS
<1>1. log = <<>> /\ outbox = <<>> /\ cursor = 0 /\ sync = Resting
  BY DEF Init, LaneInit, OutboxInit
<1>2. Queued = {}
  BY <1>1 DEF Queued, Range
<1>3. QueueSound
  BY <1>1, <1>2 DEF QueueSound
<1>4. CursorSound
  BY <1>1 DEF CursorSound, AllSettled
<1>5. SyncSound
  BY <1>1 DEF SyncSound, Resting, Sync
<1> QED
  BY <1>3, <1>4, <1>5 DEF OutboxInv

LEMMA OutboxStep == ASSUME Inv, OutboxInv, [Next]_vars PROVE OutboxInv'
<1>1. CASE UNCHANGED vars
  <2>1. Quiet /\ sync' = sync
    BY <1>1 DEF vars, lane, outboxVars, Quiet, Recorded
  <2> QED
    BY <2>1, QuietKeepsAll
<1> QED
  BY <1>1, OutboxNextKeeps, OthersQuiet, QuietKeepsAll DEF Next

(* The inductive invariant of the outbox holds in every reachable state      *)
(* (syncDeliveryOutbox).                                                     *)
THEOREM OutboxInvariance == Spec => []OutboxInv
<1>1. Init => OutboxInv
  BY OutboxInitially
<1>2. Inv /\ OutboxInv /\ [Next]_vars => OutboxInv'
  BY OutboxStep
<1> QED
  BY <1>1, <1>2, Invariance, PTL DEF Spec

(* What a crash of the relay forgets, the next sync finds again: the cursor  *)
(* never moves past an event that is neither queued nor a known echo         *)
(* (setProjectionCursor).                                                    *)
THEOREM CursorSafe == Spec => []CursorIsSafe
<1>1. OutboxInv => CursorIsSafe
  BY SameSettled DEF OutboxInv, CursorSound, AllSettled, CursorIsSafe
<1> QED
  BY <1>1, OutboxInvariance, PTL
-------------------------------------------------------------------------------
(* The refinement. *)

PromiseStep == Promise!Next \/ UNCHANGED Promise!vars

LEMMA QuietPromises ==
    ASSUME Recorded, UNCHANGED <<outbox, skipped>> PROVE PromiseStep
BY SameEvent DEF Recorded, PromiseStep, Promise!Next, Promise!Grow, Promise!vars

LEMMA SkipPromises ==
    ASSUME NEW p \in DOMAIN log, SkipDelivery(p) PROVE PromiseStep
BY SameQueued DEF SkipDelivery, PromiseStep, Promise!Next, Promise!Skip, lane

(* An event enters behind all that are queued, or as an echo of a send that  *)
(* an operator skipped.                                                      *)
LEMMA InsertPromises ==
    ASSUME OutboxInv, AtEvent, sync.next <= sync.high, Insert, log' = log, skipped' = skipped,
           Deliverable(log[sync.next]), NoEcho(sync.next)
    PROVE  PromiseStep
<1>1. PICK p \in Nat : p = sync.next
  BY DEF AtEvent
<1>2. /\ QueueSound /\ DOMAIN log = 1..Len(log) /\ p \in DOMAIN log /\ AllSettled(p - 1)
  BY <1>1 DEF OutboxInv, QueueSound, AtEvent
<1>3. CASE p \in Queued
  BY <1>1, <1>3 DEF Insert, PromiseStep, Promise!vars
<1>4. CASE p \notin Queued
  <2>1. Deliverable(log[p]) /\ NoEcho(p) /\ outbox' = Append(outbox, p)
    BY <1>1, <1>4 DEF Insert
  <2>2. Promise!Deliverable(log[p]) /\ ~\E r \in Promise!Queued \ skipped : Promise!EchoOf(p, r)
    BY <2>1, SameQueued, SameEcho DEF Promise!Deliverable, Deliverable, NoEcho
  <2>3. CASE \A q \in Queued : q < p
    <3>1. Promise!InOrder(p)
      BY <1>2, <2>3, SameQueued, SameSettled DEF Promise!InOrder, AllSettled
    <3> QED
      BY <1>2, <1>4, <2>1, <2>2, <3>1, SameQueued DEF PromiseStep, Promise!Next, Promise!Enter
  <2>4. CASE \E q \in Queued : ~(q < p)
    <3>1. PICK q \in Queued : ~(q < p)
      BY <2>4
    <3>2. p \in 1..(q - 1) /\ AllSettled(q - 1)
      BY <1>2, <1>4, <3>1 DEF QueueSound
    <3>3. PICK r \in Queued : EchoOf(p, r)
      BY <1>4, <2>1, <3>2 DEF AllSettled, Settled
    <3>4. Promise!Reconsidered(p)
      BY <2>1, <3>3, SameEcho DEF Promise!Reconsidered, NoEcho
    <3> QED
      BY <1>2, <1>4, <2>1, <2>2, <3>4, SameQueued DEF PromiseStep, Promise!Next, Promise!Enter
  <2> QED
    BY <2>3, <2>4
<1> QED
  BY <1>3, <1>4

LEMMA ScanPlainPromises == ASSUME OutboxInv, ScanPlain PROVE PromiseStep
<1>1. AtEvent /\ sync.next <= sync.high /\ log' = log /\ skipped' = skipped
  BY DEF OutboxInv, SyncSound, ScanPlain, lane
<1>2. CASE Deliverable(Event0)
  <2>1. NoEcho(sync.next)
    BY DEF NoEcho, EchoOf, ScanPlain, Event0
  <2> QED
    BY <1>1, <1>2, <2>1, InsertPromises DEF ScanPlain, Event0
<1>3. CASE ~Deliverable(Event0)
  BY <1>1, <1>3 DEF ScanPlain, PromiseStep, Promise!vars
<1> QED
  BY <1>2, <1>3

LEMMA InsertFinalPromises == ASSUME OutboxInv, InsertFinal PROVE PromiseStep
<1>1. /\ AtEvent /\ AtFinal /\ NoEcho(sync.next) /\ Insert /\ log' = log /\ skipped' = skipped
  BY DEF OutboxInv, SyncSound, InsertFinal, lane
<1> QED
  BY <1>1, InsertPromises DEF AtFinal, Deliverable

LEMMA OutboxNextPromises == ASSUME OutboxInv, OutboxNext PROVE PromiseStep
<1>1. CASE StartSync \/ Fetch \/ EndPage \/ ScanFinal \/ SearchBack \/ SearchFails \/ SyncFails
  <2>1. UNCHANGED <<log, outbox, skipped>>
    BY <1>1 DEF StartSync, Fetch, EndPage, ScanFinal, SearchBack, SearchFails, SyncFails, lane
  <2> QED
    BY <2>1 DEF PromiseStep, Promise!vars
<1> QED
  BY <1>1, ScanPlainPromises, InsertFinalPromises, SkipPromises DEF OutboxNext, SyncStep

LEMMA StepPromises ==
    ASSUME Inv, OutboxInv, [Next]_vars PROVE [Promise!Next]_Promise!vars
<1>1. CASE OutboxNext
  BY <1>1, OutboxNextPromises DEF PromiseStep
<1>2. CASE UNCHANGED vars
  BY <1>2 DEF vars, lane, outboxVars, Promise!vars
<1>3. CASE \/ IntakeNext /\ UNCHANGED outboxVars
           \/ AgentSpeaks \/ Delete \/ ServerRestart \/ RelayCrash
  BY <1>3, OthersQuiet, QuietPromises DEF Quiet, PromiseStep
<1> QED
  BY <1>1, <1>2, <1>3 DEF Next

(* The synchronisation of the outbox implements module Outbox: each event    *)
(* enters once, in order, and none is passed over but an echo, through       *)
(* pages, failures, crashes and replays (syncDeliveryOutbox).                *)
THEOREM KeepsPromise == Spec => OutboxPromise
<1>1. Init => Promise!Init
  BY DEF Init, LaneInit, OutboxInit, Promise!Init
<1>2. Inv /\ OutboxInv /\ [Next]_vars => [Promise!Next]_Promise!vars
  BY StepPromises
<1> QED
  BY <1>1, <1>2, Invariance, OutboxInvariance, PTL DEF Spec, OutboxPromise, Promise!Spec
-------------------------------------------------------------------------------
(* Types. That no response is kept which nobody waits for takes calls that   *)
(* are told apart by message and attempt.                                    *)

SameCall(r, q) == r.message = q.message /\ r.attempt = q.attempt

(* Every call has an attempt of its own, and a worker is at the last attempt *)
(* of its message, which it has not called the server for before it appends. *)
CallsSound ==
    /\ worker \in Worker /\ (worker.at = "idle" => worker = Idle)
    /\ worker # Idle => worker.attempt = intake[worker.message].attempts
    /\ \A r \in requests :
          /\ r.attempt <= intake[r.message].attempts
          /\ r.at \in Response => Awaited(r)
          /\ SameCall(r, worker) => worker.at = "appending"
    /\ \A r, q \in requests : SameCall(r, q) => r = q

LaneSound ==
    /\ conversation \in {"absent", "foreign", "present", "deleted"}
    /\ loaded \in BOOLEAN /\ ready \in BOOLEAN /\ parked \in BOOLEAN
    /\ faults \in 0..MaxFaults /\ requeues \in 0..MaxRequeues
    /\ skipped \subseteq DOMAIN log

SameAttempts == \A m \in Message : intake'[m].attempts = intake[m].attempts

(* An attempt is over, and the response to its call with it.                 *)
LEMMA CallsEnd ==
    ASSUME Inv, Inv', CallsSound, SameAttempts, worker' = Idle, requests' \subseteq requests,
           \A r \in requests' : r.at \notin Response
    PROVE  CallsSound'
<1>1. \A r \in requests' : r \in requests /\ r.message \in Message
  BY Unpack
<1>2. \A r \in requests' : r.attempt <= intake'[r.message].attempts
  BY <1>1 DEF CallsSound, SameAttempts
<1>3. \A r \in requests' : ~SameCall(r, Idle)
  BY <1>1, AgentEventsAssumption DEF SameCall, Idle, Message
<1>4. Idle \in Worker
  BY AgentEventsAssumption DEF Idle, Worker
<1> QED
  BY <1>1, <1>2, <1>3, <1>4 DEF CallsSound, SameCall

(* The worker waits on, or there is none.                                    *)
LEMMA CallsStay ==
    ASSUME Inv, CallsSound, SameAttempts, worker' = worker, requests' \subseteq requests
    PROVE  CallsSound'
<1>1. \A r \in requests' : r \in requests /\ r.message \in Message
  BY Unpack
<1>2. \A r \in requests' : r.attempt <= intake'[r.message].attempts
  BY <1>1 DEF CallsSound, SameAttempts
<1>3. worker # Idle => worker.attempt = intake'[worker.message].attempts
  BY Unpack DEF CallsSound, SameAttempts
<1> QED
  BY <1>1, <1>2, <1>3 DEF CallsSound, SameCall, Awaited

(* The server goes on with a call.                                           *)
LEMMA CallProceeds ==
    ASSUME Inv, CallsSound, NEW r \in requests, NEW at, Proceed(r, at),
           r.at \notin Response, worker' = worker, intake' = intake
    PROVE  CallsSound'
<1> DEFINE q == [r EXCEPT !.at = at]
<1>1. r \in Request
  BY Unpack
<1>2. q.message = r.message /\ q.attempt = r.attempt /\ q.at = at
  BY <1>1 DEF Request
<1>3. Awaited(q) <=> Awaited(r)
  BY <1>2 DEF Awaited
<1>4. \A s \in requests' : 
          s \in requests \ {r} \/ (s = q /\ (at \in Response => Awaited(r)))
  BY <1>3 DEF Proceed
<1> HIDE DEF q
<1>5. \A s \in requests : Awaited(s)' <=> Awaited(s)
  BY DEF Awaited
<1>6. \A s \in requests' :
          /\ s.attempt <= intake[s.message].attempts
          /\ s.at \in Response => Awaited(s)
          /\ SameCall(s, worker) => worker.at = "appending"
  BY <1>2, <1>3, <1>4 DEF CallsSound, SameCall
<1>7. \A s, t \in requests' : SameCall(s, t) => s = t
  BY <1>2, <1>4 DEF CallsSound, SameCall
<1> QED
  BY <1>6, <1>7 DEF CallsSound, Awaited

LEMMA EndAttemptIs ==
    ASSUME Inv, worker # Idle, NEW outcome, EndAttempt(outcome)
    PROVE  SameAttempts /\ worker' = Idle
BY Unpack DEF EndAttempt, SameAttempts, Row

LEMMA ClaimCalls == ASSUME Inv, CallsSound, NEW m \in Message, Claim(m) PROVE CallsSound'
<1> DEFINE n == intake[m].attempts + 1
           call == AppendCall(m, n)
<1>1. /\ n \in Nat /\ intake' = [intake EXCEPT ![m] = [state |-> "claimed", attempts |-> n]]
      /\ worker' = [at |-> IF ready THEN "appending" ELSE "creating", message |-> m,
                    attempt |-> n]
      /\ requests' = IF ready THEN requests \cup {call} ELSE requests
  BY Unpack DEF Claim, Row
<1>2. call.message = m /\ call.attempt = n /\ call.at = "sent"
  BY DEF AppendCall
<1>3. intake[m].attempts \in Nat /\ n = intake[m].attempts + 1
  BY Unpack DEF Row
<1>4. \A k \in Message : intake'[k].attempts = IF k = m THEN n ELSE intake[k].attempts
  BY <1>1, Unpack
<1> HIDE DEF call, n
<1>5. \A r \in requests : /\ r \in Request /\ r.message \in Message /\ r.attempt \in Nat
                          /\ r.attempt <= intake[r.message].attempts
                          /\ intake[r.message].attempts \in Nat
  BY Unpack DEF CallsSound, Row
<1>6. \A r \in requests : r.message = m => r.attempt < n
  BY <1>3, <1>5
<1>7. \A r \in requests : r.at \notin Response
  BY DEF CallsSound, Awaited, Claim, Idle
<1>8. \A r \in requests' : r.attempt <= intake'[r.message].attempts
  BY <1>1, <1>2, <1>3, <1>4, <1>5, <1>6
<1>9. \A r \in requests' :
          /\ r.at \notin Response
          /\ SameCall(r, worker') => worker'.at = "appending"
  BY <1>1, <1>2, <1>6, <1>7 DEF SameCall, Response
<1>10. \A r, q \in requests' : SameCall(r, q) => r = q
  BY <1>1, <1>2, <1>6 DEF CallsSound, SameCall
<1>11. worker' \in Worker /\ worker'.at # "idle" /\ worker'.attempt = intake'[worker'.message].attempts
  BY <1>1, <1>4 DEF Worker, Message
<1> QED
  BY <1>8, <1>9, <1>10, <1>11 DEF CallsSound, SameCall

LEMMA MarkReadyCalls == ASSUME Inv, CallsSound, MarkReady PROVE CallsSound'
<1> DEFINE call == AppendCall(worker.message, worker.attempt)
<1>1. /\ worker.at = "created" /\ worker \in Worker /\ worker # Idle
      /\ worker' = [worker EXCEPT !.at = "appending"]
      /\ requests' = requests \cup {call} /\ intake' = intake
  BY DEF MarkReady, CallsSound, Idle
<1>2. call.message = worker.message /\ call.attempt = worker.attempt /\ call.at = "sent"
  BY DEF AppendCall
<1>3. /\ worker' \in Worker /\ worker'.at = "appending"
      /\ worker'.message = worker.message /\ worker'.attempt = worker.attempt
  BY <1>1 DEF Worker
<1> HIDE DEF call
<1>4. worker.attempt \in Nat /\ worker.attempt = intake[worker.message].attempts
  BY <1>1 DEF CallsSound, Worker
<1>5. \A r \in requests : r.at \notin Response /\ ~SameCall(r, worker)
  BY <1>1 DEF CallsSound, Awaited
<1>6. \A r \in requests' : r.attempt <= intake'[r.message].attempts
  BY <1>1, <1>2, <1>4 DEF CallsSound
<1>7. \A r \in requests' : r.at \notin Response
  BY <1>1, <1>2, <1>5 DEF Response
<1>8. \A r, q \in requests' : SameCall(r, q) => r = q
  BY <1>1, <1>2, <1>5 DEF CallsSound, SameCall
<1> QED
  BY <1>1, <1>3, <1>4, <1>6, <1>7, <1>8 DEF CallsSound

LEMMA WorkerCalls ==
    ASSUME Inv, Inv', CallsSound, WorkerStep \/ CreateLost \/ \E r \in requests : AppendTimedOut(r)
    PROVE  CallsSound'
<1>1. CASE CreateAnswered
  <2>1. /\ worker \in Worker /\ worker.at = "creating" /\ intake' = intake
        /\ requests' = requests /\ worker' = [worker EXCEPT !.at = "created"]
    BY <1>1 DEF CreateAnswered, CallsSound
  <2>2. /\ worker' \in Worker /\ worker'.at = "created"
        /\ worker'.message = worker.message /\ worker'.attempt = worker.attempt
    BY <2>1 DEF Worker
  <2>3. worker # Idle
    BY <2>1 DEF Idle
  <2>4. \A r \in requests : r.at \notin Response /\ ~SameCall(r, worker)
    BY <2>1 DEF CallsSound, Awaited
  <2> QED
    BY <2>1, <2>2, <2>3, <2>4 DEF CallsSound, SameCall
<1>2. CASE CreateRejected \/ CreateLost \/ AppendBroken
  <2>1. /\ worker # Idle /\ requests' = requests
        /\ \E outcome : EndAttempt(outcome)
    BY <1>2 DEF CreateRejected, CreateLost, AppendBroken, Idle
  <2>2. \A r \in requests : r.at \notin Response
    BY <1>2 DEF CreateRejected, CreateLost, AppendBroken, CallsSound, Awaited
  <2> QED
    BY <2>1, <2>2, EndAttemptIs, CallsEnd
<1>3. ASSUME NEW r \in requests, AppendAnswered(r) \/ AppendTimedOut(r)
      PROVE  CallsSound'
  <2>1. /\ Awaited(r) /\ requests' \subseteq requests
        /\ r.at \in Response => requests' = requests \ {r}
        /\ \E outcome : EndAttempt(outcome)
    BY <1>3 DEF AppendAnswered, AppendTimedOut
  <2>2. \A q \in requests : q.at \in Response => q = r
    BY <2>1 DEF CallsSound, SameCall, Awaited
  <2>3. \A q \in requests' : q.at \notin Response
    BY <2>1, <2>2
  <2>4. worker # Idle
    BY <2>1 DEF Awaited, Idle
  <2> QED
    BY <2>1, <2>3, <2>4, EndAttemptIs, CallsEnd
<1> QED
  BY <1>1, <1>2, <1>3, MarkReadyCalls DEF WorkerStep

LEMMA IntakeCalls == ASSUME Inv, Inv', CallsSound, IntakeNext PROVE CallsSound'
<1>1. ASSUME NEW m \in Message, Accept(m) \/ Reclaim(m) \/ SkipMessage(m) \/ RequeueMessage(m)
      PROVE  CallsSound'
  <2>1. SameAttempts /\ worker' = worker /\ requests' = requests
    BY <1>1, Unpack DEF Accept, Reclaim, SkipMessage, RequeueMessage, SameAttempts, Row
  <2> QED
    BY <2>1, CallsStay
<1>2. ASSUME NEW r \in requests, Lookup(r) \/ Store(r) \/ AskRun(r)
      PROVE  CallsSound'
  <2>1. /\ r.at \notin Response /\ worker' = worker /\ intake' = intake
        /\ \E at : Proceed(r, at)
    BY <1>2 DEF Lookup, Store, AskRun, Response
  <2> QED
    BY <2>1, CallProceeds
<1> QED
  BY <1>1, <1>2, ClaimCalls, WorkerCalls DEF IntakeNext, ServerStep

LEMMA CallsPreserved == ASSUME Inv, Inv', CallsSound, [Next]_vars PROVE CallsSound'
<1>1. CASE UNCHANGED <<intake, worker>> /\ requests' \subseteq requests
  BY <1>1, CallsStay DEF SameAttempts
<1>2. CASE RelayCrash
  BY <1>2, CallsEnd DEF RelayCrash, SameAttempts
<1> QED
  BY <1>1, <1>2, IntakeCalls
     DEF Next, vars, intakeVars, AgentSpeaks, Delete, ServerRestart

LEMMA LogKept == ASSUME Inv, OutboxInv, [Next]_vars PROVE DOMAIN log \subseteq DOMAIN log'
<1>1. CASE OutboxNext \/ UNCHANGED vars
  BY <1>1 DEF OutboxNext, StartSync, SyncStep, SyncFails, SkipDelivery, Fetch, EndPage,
     ScanPlain, ScanFinal, SearchBack, SearchFails, InsertFinal, vars, lane
<1>2. CASE IntakeNext \/ AgentSpeaks \/ Delete \/ ServerRestart \/ RelayCrash
  <2>1. Recorded /\ log \in Seq(Event)
    BY <1>2, NextRecords DEF OutboxInv, QueueSound
  <2>2. ASSUME NEW e \in Event, log' = Append(log, e) PROVE DOMAIN log \subseteq DOMAIN log'
    BY <2>1, <2>2, AppendProperties
  <2> QED
    BY <2>1, <2>2 DEF Recorded
<1> QED
  BY <1>1, <1>2 DEF Next

LEMMA LanePreserved == ASSUME Inv, OutboxInv, LaneSound, [Next]_vars PROVE LaneSound'
<1> USE DEF LaneSound
<1>1. MaxFaults \in Nat /\ MaxRequeues \in Nat
  BY RelayLaneAssumption, RelayIntakeAssumption
<1>2. Fault => faults' \in 0..MaxFaults
  BY <1>1 DEF Fault
<1>3. DOMAIN log \subseteq DOMAIN log'
  BY LogKept
<1>4. CASE UNCHANGED vars
  BY <1>4 DEF vars, lane, intakeVars, outboxVars
<1>5. CASE IntakeNext /\ UNCHANGED outboxVars
  <2>1. skipped' = skipped /\ parked' = parked
    BY <1>5 DEF outboxVars
  <2>2. ASSUME NEW m \in Message,
               Accept(m) \/ Claim(m) \/ Reclaim(m) \/ SkipMessage(m) \/ RequeueMessage(m)
        PROVE  LaneSound'
    BY <1>1, <1>3, <2>1, <2>2 DEF Accept, Claim, Reclaim, SkipMessage, RequeueMessage, lane
  <2>3. CASE CreateAnswered \/ CreateRejected \/ CreateLost \/ MarkReady \/ AppendBroken
    BY <1>2, <1>3, <2>1, <2>3 DEF CreateAnswered, CreateRejected, CreateLost, MarkReady,
       AppendBroken, EndAttempt, Created, lane
  <2>4. ASSUME NEW r \in requests, \/ AppendAnswered(r) \/ AppendTimedOut(r)
                                   \/ Lookup(r) \/ Store(r) \/ AskRun(r)
        PROVE  LaneSound'
    BY <1>2, <1>3, <2>1, <2>4
       DEF AppendAnswered, AppendTimedOut, EndAttempt, Lookup, Store, AskRun, lane
  <2> QED
    BY <1>5, <2>2, <2>3, <2>4 DEF IntakeNext, WorkerStep, ServerStep
<1>6. CASE OutboxNext /\ UNCHANGED intakeVars
  <2>1. requeues' = requeues
    BY <1>6 DEF intakeVars
  <2>2. CASE StartSync \/ SyncStep
    BY <1>3, <2>1, <2>2 DEF StartSync, SyncStep, Fetch, EndPage, ScanPlain, ScanFinal,
       SearchBack, SearchFails, InsertFinal, lane
  <2>3. CASE SyncFails \/ \E p \in DOMAIN log : SkipDelivery(p)
    BY <1>2, <1>3, <2>1, <2>3 DEF SyncFails, SkipDelivery, lane
  <2> QED
    BY <1>6, <2>2, <2>3 DEF OutboxNext
<1>7. CASE AgentSpeaks \/ Delete \/ ServerRestart \/ RelayCrash
  BY <1>2, <1>3, <1>7 DEF AgentSpeaks, Delete, ServerRestart, RelayCrash, intakeVars, outboxVars
<1> QED
  BY <1>4, <1>5, <1>6, <1>7 DEF Next

LEMMA AllTypes == Inv /\ OutboxInv /\ CallsSound /\ LaneSound => TypeOK
<1> SUFFICES ASSUME Inv, OutboxInv, CallsSound, LaneSound PROVE TypeOK
  OBVIOUS
<1>1. LaneTypeOK
  BY DEF LaneTypeOK, LaneSound, OutboxInv, QueueSound
<1>2. IntakeTypeOK
  BY Unpack DEF IntakeTypeOK, CallsSound, LaneSound
<1>3. outbox \in Seq(DOMAIN log)
  <2>1. /\ Len(outbox) \in Nat /\ outbox = [i \in 1..Len(outbox) |-> outbox[i]]
        /\ \A i \in 1..Len(outbox) : outbox[i] \in DOMAIN log
    BY DEF OutboxInv, QueueSound, Queued, Range
  <2> QED
    BY <2>1
<1>4. OutboxTypeOK
  BY <1>3 DEF OutboxTypeOK, LaneSound, OutboxInv, CursorSound, SyncSound
<1> QED
  BY <1>1, <1>2, <1>4 DEF TypeOK

(* Lane, rows, calls and outbox stay well formed, and the server keeps no    *)
(* response that nobody waits for: a call that was given up on, whatever     *)
(* became of its worker, is not taken for a later one of the same message    *)
(* (integrateNextIntake, sendMessage).                                       *)
THEOREM TypeCorrect == Spec => []TypeOK
<1>1. Init => CallsSound /\ LaneSound
  <2> SUFFICES ASSUME Init PROVE CallsSound /\ LaneSound
    OBVIOUS
  <2>1. requests = {} /\ worker = Idle /\ Idle \in Worker
    BY AgentEventsAssumption DEF Init, IntakeInit, Worker, Idle
  <2>2. CallsSound
    BY <2>1 DEF CallsSound
  <2>3. faults \in 0..MaxFaults /\ requeues \in 0..MaxRequeues /\ skipped \subseteq DOMAIN log
    BY RelayLaneAssumption, RelayIntakeAssumption DEF Init, LaneInit, IntakeInit, OutboxInit
  <2>4. /\ conversation \in {"absent", "foreign", "present", "deleted"}
        /\ loaded \in BOOLEAN /\ ready \in BOOLEAN /\ parked \in BOOLEAN
    BY Zenon DEF Init, LaneInit, OutboxInit
  <2>5. LaneSound
    BY <2>3, <2>4 DEF LaneSound
  <2> QED
    BY <2>2, <2>5
<1>2. Inv /\ Inv' /\ CallsSound /\ [Next]_vars => CallsSound'
  BY CallsPreserved
<1>3. Inv /\ OutboxInv /\ LaneSound /\ [Next]_vars => LaneSound'
  BY LanePreserved
<1> QED
  BY <1>1, <1>2, <1>3, AllTypes, Invariance, OutboxInvariance, PTL DEF Spec
================================================================================
