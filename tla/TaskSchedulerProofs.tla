-------------------------- MODULE TaskSchedulerProofs --------------------------
(***************************************************************************)
(* The scheduler's safety for any tasks, times and commands: one open run  *)
(* per task and conversation, no active recurring task without a time, no  *)
(* ended run reopened.                                                     *)
(***************************************************************************)
EXTENDS TaskScheduler, FiniteSetTheorems, TLAPS

(* A run is reserved when its time has come. *)
RunsWereDue == \A o \in Occurrence : run[o] # "none" => o.at <= now

(* The next time of a recurring task has had no run yet, so that `INSERT OR  *)
(* IGNORE' does insert when it comes.                                        *)
NextIsFresh ==
    \A t \in Task :
        task[t].kind = "recurring" /\ task[t].next # Never => run[Slot(t)] = "none"

(* Only scheduled tasks have runs. *)
RunsAreScheduled == \A o \in Occurrence : run[o] # "none" => task[o.task].status # "none"

Inv ==
    /\ TypeOK /\ RunsWereDue /\ NextIsFresh /\ RunsAreScheduled
    /\ OneRunAtATime /\ NextOnlyBetweenRuns /\ NeverStranded
-------------------------------------------------------------------------------
(* Times. *)

LEMMA Times ==
    ASSUME now \in 0..MaxTime
    PROVE  /\ now \in Nat /\ now + 1 \in Time /\ Never \notin Time
           /\ OnceAt \subseteq Time /\ Time # {} /\ 1 \in Time
BY TaskSchedulerAssumption DEF Time, Never

(* A run belongs to the conversation of the group, or has one of its own. *)
LEMMA Conversations ==
    ASSUME NEW o \in Occurrence, NEW q \in Occurrence, Conv(o) = Conv(q), o # q
    PROVE  /\ o.task \notin Isolated /\ q.task \notin Isolated /\ Conv(o) = Home
BY HomeAssumption DEF Conv

LEMMA SlotIsOccurrence ==
    ASSUME TypeOK, NEW t \in Task, task[t].next # Never
    PROVE  Slot(t) \in Occurrence /\ Slot(t).task = t /\ Slot(t).at = task[t].next
BY DEF TypeOK, TaskRow, Slot, Occurrence

LEMMA Initially == Init => Inv
<1> SUFFICES ASSUME Init PROVE Inv
  OBVIOUS
<1>1. TypeOK
  BY Times, TaskSchedulerAssumption DEF Init, TypeOK, TaskRow, RunStatus
<1>2. \A o \in Occurrence : run[o] = "none"
  BY DEF Init
<1> QED
  BY <1>1, <1>2 DEF Init, Inv, RunsWereDue, NextIsFresh, RunsAreScheduled,
     OneRunAtATime, NextOnlyBetweenRuns, NeverStranded, Open, Busy
-------------------------------------------------------------------------------
(* Steps that leave the runs alone: the row of one task changes, and if it   *)
(* gets a time, this is a fresh one and the task has no open run.            *)
LEMMA RowChange ==
    ASSUME Inv, NEW t \in Task, NEW row \in TaskRow, row.status # "none",
           task' = [task EXCEPT ![t] = row], now' = now, run' = run,
           commands' \in 0..MaxCommands,
           Busy(t) => row.next = Never,
           row.kind = "recurring" =>
               \/ row.next \in {Never, now + 1}
               \/ row.next = task[t].next /\ task[t].kind = "recurring",
           row.status = "active" /\ row.kind = "recurring" =>
               row.next # Never \/ Busy(t)
    PROVE  Inv'
<1>1. TypeOK'
  BY DEF Inv, TypeOK
<1>2. \A u \in Task : task'[u] = IF u = t THEN row ELSE task[u]
  BY DEF Inv, TypeOK
<1>3. \A u \in Task : Busy(u)' <=> Busy(u)
  BY DEF Busy, Open
<1>4. NextIsFresh'
  <2> SUFFICES ASSUME NEW u \in Task, task'[u].kind = "recurring", task'[u].next # Never
               PROVE  run[Slot(u)'] = "none"
    BY DEF NextIsFresh
  <2>1. Slot(u)' = [task |-> u, at |-> task'[u].next]
    BY DEF Slot
  <2>2. CASE task[u].kind = "recurring" /\ task'[u].next = task[u].next
    BY <1>2, <2>1, <2>2 DEF Inv, NextIsFresh, Slot
  <2>3. CASE u = t /\ task'[u].next = now + 1
    <3>1. Slot(u)' \in Occurrence /\ Slot(u)'.at = now + 1
      BY <1>1, <2>1, <2>3 DEF TypeOK, TaskRow, Occurrence
    <3> QED
      BY <3>1 DEF Inv, RunsWereDue, TypeOK
  <2>4. u # t => task'[u] = task[u]
    BY <1>2
  <2> QED
    BY <1>2, <2>2, <2>3, <2>4
<1> QED
  BY <1>1, <1>2, <1>3, <1>4 DEF Inv, RunsWereDue, RunsAreScheduled, OneRunAtATime,
     NextOnlyBetweenRuns, NeverStranded, Open, Occurrence

(* What a command makes of the time. *)
LEMMA Timing ==
    ASSUME Inv, NEW t \in Task, NEW kind \in {"recurring", "once"}, NEW value \in Time
    PROVE  /\ NextTime(kind, value) \in Time
           /\ kind = "recurring" => NextTime(kind, value) = now + 1
           /\ UnlessBusy(t, NextTime(kind, value)) \in
                  IF Busy(t) THEN {Never} ELSE {NextTime(kind, value)}
           /\ Never \notin Time
<1>1. now \in 0..MaxTime
  BY DEF Inv, TypeOK
<1> QED
  BY <1>1, Times DEF NextTime, UnlessBusy

LEMMA CommandCounted ==
    ASSUME Inv, NEW t \in Task, Command(t)
    PROVE  commands' \in 0..MaxCommands
BY TaskSchedulerAssumption DEF Inv, TypeOK, Command

LEMMA SchedulePreserves ==
    ASSUME Inv, NEW t \in Task, NEW s \in Setting, Schedule(t, s[1], s[2])
    PROVE  Inv'
<1> DEFINE row == [status |-> "active", kind |-> s[1], value |-> s[2],
                   next |-> NextTime(s[1], s[2])]
<1>1. s[1] \in {"recurring", "once"} /\ s[2] \in Time
  BY Times DEF Setting, Inv, TypeOK
<1>2. row \in TaskRow
  BY <1>1, Timing DEF TaskRow
<1>3. ~Busy(t)
  BY DEF Schedule, Inv, RunsAreScheduled, Busy, Open
<1>4. /\ task' = [task EXCEPT ![t] = row] /\ now' = now /\ run' = run
      /\ commands' \in 0..MaxCommands
  BY DEF Schedule, Inv, TypeOK
<1>5. /\ row.kind = "recurring" => row.next = now + 1
      /\ row.next # Never /\ row.status # "none"
  BY <1>1, Timing
<1> HIDE DEF row
<1> QED
  BY <1>2, <1>3, <1>4, <1>5, RowChange

LEMMA PausePreserves ==
    ASSUME Inv, NEW t \in Task, Pause(t)
    PROVE  Inv'
<1> DEFINE row == [task[t] EXCEPT !.status = "paused"]
<1>1. /\ row \in TaskRow /\ row.status = "paused"
      /\ row.next = task[t].next /\ row.kind = task[t].kind
  BY DEF Inv, TypeOK, TaskRow
<1>2. Busy(t) => row.next = Never
  BY <1>1 DEF Inv, NextOnlyBetweenRuns
<1>3. task' = [task EXCEPT ![t] = row] /\ now' = now /\ run' = run
  BY DEF Pause
<1>4. commands' \in 0..MaxCommands
  BY CommandCounted DEF Pause
<1> HIDE DEF row
<1> QED
  BY <1>1, <1>2, <1>3, <1>4, RowChange

LEMMA ResumePreserves ==
    ASSUME Inv, NEW t \in Task, Resume(t)
    PROVE  Inv'
<1> DEFINE time == UnlessBusy(t, NextTime(task[t].kind, task[t].value))
           row == [task[t] EXCEPT !.status = "active", !.next = time]
<1>1. task[t] \in TaskRow
  BY DEF Inv, TypeOK
<1>2. /\ task[t].kind \in {"recurring", "once"} /\ task[t].value \in Time
  BY <1>1 DEF TaskRow
<1>3. /\ time \in Time \cup {Never} /\ (Busy(t) => time = Never)
      /\ ~Busy(t) => time # Never
      /\ task[t].kind = "recurring" => time \in {Never, now + 1}
  BY <1>2, Timing
<1>4. task' = [task EXCEPT ![t] = row] /\ now' = now /\ run' = run
  BY DEF Resume
<1>5. commands' \in 0..MaxCommands
  BY CommandCounted DEF Resume
<1> HIDE DEF time
<1>6. row \in TaskRow /\ row.status = "active" /\ row.next = time /\ row.kind = task[t].kind
  BY <1>1, <1>3 DEF TaskRow
<1> HIDE DEF row
<1> QED
  BY <1>3, <1>4, <1>5, <1>6, RowChange

LEMMA UpdatePreserves ==
    ASSUME Inv, NEW t \in Task, NEW s \in Setting, Update(t, s[1], s[2])
    PROVE  Inv'
<1> DEFINE time == UnlessBusy(t, NextTime(s[1], s[2]))
           row == [task[t] EXCEPT !.kind = s[1], !.value = s[2], !.next = time]
<1>1. s[1] \in {"recurring", "once"} /\ s[2] \in Time
  BY Times DEF Setting, Inv, TypeOK
<1>2. task[t] \in TaskRow
  BY DEF Inv, TypeOK
<1>3. /\ time \in Time \cup {Never} /\ (Busy(t) => time = Never)
      /\ ~Busy(t) => time # Never
      /\ s[1] = "recurring" => time \in {Never, now + 1}
  BY <1>1, Timing
<1>4. task' = [task EXCEPT ![t] = row] /\ now' = now /\ run' = run
  BY DEF Update
<1>5. commands' \in 0..MaxCommands /\ task[t].status # "none"
  BY CommandCounted DEF Update, Command
<1> HIDE DEF time
<1>6. /\ row \in TaskRow /\ row.status = task[t].status
      /\ row.next = time /\ row.kind = s[1]
  BY <1>1, <1>2, <1>3 DEF TaskRow
<1> HIDE DEF row
<1> QED
  BY <1>3, <1>4, <1>5, <1>6, RowChange
-------------------------------------------------------------------------------
(* Steps that change runs. *)

LEMMA CancelPreserves ==
    ASSUME Inv, NEW t \in Task, Cancel(t)
    PROVE  Inv'
<1> DEFINE row == [task[t] EXCEPT !.status = "cancelled", !.next = Never]
<1>1. /\ task' = [task EXCEPT ![t] = row] /\ now' = now
      /\ row \in TaskRow /\ row.status = "cancelled" /\ row.next = Never
  BY DEF Cancel, Inv, TypeOK, TaskRow
<1> HIDE DEF row
<1>2. \A u \in Task : task'[u] = IF u = t THEN row ELSE task[u]
  BY <1>1 DEF Inv, TypeOK
<1>3. /\ run' \in [Occurrence -> RunStatus]
      /\ \A o \in Occurrence :
            run'[o] = IF o.task = t /\ run[o] = "ready" THEN "cancelled" ELSE run[o]
  BY DEF Cancel, Inv, TypeOK, RunStatus
<1>4. commands' \in 0..MaxCommands
  BY CommandCounted DEF Cancel
<1>5. TypeOK'
  BY <1>1, <1>3, <1>4 DEF Inv, TypeOK
<1>6. \A o \in Occurrence : Open(o)' => Open(o)
  BY <1>3 DEF Open
<1>7. \A u \in Task : u # t => Busy(u)' = Busy(u)
  BY <1>3 DEF Busy, Open
<1>8. NextIsFresh'
  <2> SUFFICES ASSUME NEW u \in Task, task'[u].kind = "recurring", task'[u].next # Never
               PROVE  run'[Slot(u)'] = "none"
    BY DEF NextIsFresh
  <2>1. u # t /\ task'[u] = task[u]
    BY <1>1, <1>2
  <2>2. Slot(u)' = Slot(u) /\ Slot(u) \in Occurrence
    BY <2>1, SlotIsOccurrence DEF Slot, Inv
  <2> QED
    BY <1>3, <2>1, <2>2 DEF Inv, NextIsFresh
<1>9. NextOnlyBetweenRuns'
  BY <1>1, <1>2, <1>6 DEF Inv, NextOnlyBetweenRuns, Busy
<1>10. NeverStranded'
  BY <1>1, <1>2, <1>7 DEF Inv, NeverStranded
<1>11. OneRunAtATime'
  BY <1>6 DEF Inv, OneRunAtATime, Conv
<1>12. RunsWereDue' /\ RunsAreScheduled'
  BY <1>1, <1>2, <1>3 DEF Inv, RunsWereDue, RunsAreScheduled, Occurrence
<1> QED
  BY <1>5, <1>8, <1>9, <1>10, <1>11, <1>12 DEF Inv

LEMMA ClockPreserves ==
    ASSUME Inv, Clock
    PROVE  Inv'
<1>1. /\ task' = task /\ run' = run /\ commands' = commands
      /\ now' = now + 1 /\ now' \in 0..MaxTime
  BY TaskSchedulerAssumption DEF Inv, TypeOK, Clock
<1>2. RunsWereDue'
  BY <1>1 DEF Inv, TypeOK, RunsWereDue, Occurrence, Time
<1> QED
  BY <1>1, <1>2 DEF Inv, TypeOK, NextIsFresh, RunsAreScheduled, OneRunAtATime,
     NextOnlyBetweenRuns, NeverStranded, Busy, Open, Slot

(* Of the group's tasks that are due, at most one gets a run, and none while *)
(* the conversation of the group has one.                                    *)
LEMMA OneOfTheGroup ==
    ASSUME Inv, NEW S, Reserve(S), NEW t \in S, NEW u \in S,
           t \notin Isolated, u \notin Isolated,
           run[Slot(t)] = "none", run[Slot(u)] = "none"
    PROVE  t = u /\ ~Blocked(Home)
<1> DEFINE group == {v \in Task \ Isolated : Due(v)}
           fresh == {v \in group : run[Slot(v)] = "none"}
<1>1. t \in fresh /\ u \in fresh /\ t \in S \cap group
  BY DEF Reserve
<1>2. ~Blocked(Home)
  BY <1>1 DEF Reserve, MayReserve
<1>3. Cardinality(S \cap fresh) = 1
  BY <1>1, <1>2 DEF Reserve, MayReserve
<1>4. IsFiniteSet(S \cap fresh)
  BY FS_Subset, TaskSchedulerAssumption
<1>5. PICK x : S \cap fresh = {x}
  BY <1>3, <1>4, FS_Singleton
<1> QED
  BY <1>1, <1>2, <1>5

LEMMA ReservePreserves ==
    ASSUME Inv, NEW S, Reserve(S)
    PROVE  Inv'
<1> DEFINE New(o) == o.task \in S /\ o = Slot(o.task) /\ run[o] = "none"
<1>1. /\ S \subseteq Task /\ now' = now /\ commands' = commands
      /\ \A t \in S : task[t].status = "active" /\ task[t].next # Never
                      /\ task[t].next <= now
  BY DEF Reserve, Due
<1>2. \A t \in Task :
          task'[t] = IF t \in S THEN [task[t] EXCEPT !.next = Never] ELSE task[t]
  BY DEF Reserve
<1>3. \A t \in Task :
          /\ task'[t] \in TaskRow
          /\ task'[t].kind = task[t].kind /\ task'[t].status = task[t].status
          /\ task'[t].next = IF t \in S THEN Never ELSE task[t].next
  BY <1>2 DEF Inv, TypeOK, TaskRow
<1>4. \A o \in Occurrence : run'[o] = IF New(o) THEN "ready" ELSE run[o]
  BY DEF Reserve
<1>5. TypeOK'
  BY <1>1, <1>3 DEF Reserve, Inv, TypeOK, RunStatus
<1>6. \A o \in Occurrence : Open(o)' <=> Open(o) \/ New(o)
  BY <1>4 DEF Open
<1>7. \A t \in S : ~Busy(t)
  BY <1>1 DEF Inv, NextOnlyBetweenRuns
<1>8. \A t \in S : Slot(t) \in Occurrence /\ Slot(t).task = t /\ Slot(t).at = task[t].next
  BY <1>1, SlotIsOccurrence DEF Inv
<1> HIDE DEF New
<1>9. RunsWereDue' /\ RunsAreScheduled'
  <2> SUFFICES ASSUME NEW o \in Occurrence, run'[o] # "none"
               PROVE  o.at <= now /\ task'[o.task].status # "none"
    BY <1>1 DEF RunsWereDue, RunsAreScheduled
  <2>1. o.task \in Task
    BY DEF Occurrence
  <2>2. CASE New(o)
    BY <1>1, <1>3, <1>8, <2>1, <2>2 DEF New
  <2>3. CASE ~New(o)
    BY <1>3, <1>4, <2>1, <2>3 DEF Inv, RunsWereDue, RunsAreScheduled
  <2> QED
    BY <2>2, <2>3
<1>10. NextIsFresh'
  <2> SUFFICES ASSUME NEW t \in Task, task'[t].kind = "recurring", task'[t].next # Never
               PROVE  run'[Slot(t)'] = "none"
    BY DEF NextIsFresh
  <2>1. t \notin S /\ task[t].next # Never /\ task[t].kind = "recurring"
    BY <1>3
  <2>2. Slot(t)' = Slot(t) /\ Slot(t) \in Occurrence /\ Slot(t).task = t
    BY <1>3, <2>1, SlotIsOccurrence DEF Slot, Inv
  <2> QED
    BY <1>4, <2>1, <2>2 DEF Inv, NextIsFresh, New
<1>11. NextOnlyBetweenRuns'
  <2> SUFFICES ASSUME NEW t \in Task, NEW o \in Occurrence, o.task = t, Open(o)'
               PROVE  task'[t].next = Never
    BY DEF NextOnlyBetweenRuns, Busy
  <2> QED
    BY <1>3, <1>6 DEF Inv, NextOnlyBetweenRuns, Busy, New
<1>12. NeverStranded'
  <2> SUFFICES ASSUME NEW t \in Task, task'[t].status = "active",
                      task'[t].kind = "recurring", task'[t].next = Never
               PROVE  Busy(t)'
    BY DEF NeverStranded
  <2>1. CASE t \in S
    <3>1. New(Slot(t))
      BY <1>1, <1>3, <1>8, <2>1 DEF Inv, NextIsFresh, New
    <3> QED
      BY <1>6, <1>8, <2>1, <3>1 DEF Busy
  <2>2. CASE t \notin S
    <3>1. Busy(t)
      BY <1>3, <2>2 DEF Inv, NeverStranded
    <3> QED
      BY <1>6, <3>1 DEF Busy
  <2> QED
    BY <2>1, <2>2
<1>13. OneRunAtATime'
  <2> SUFFICES ASSUME NEW o \in Occurrence, NEW q \in Occurrence, o # q,
                      Open(o)', Open(q)'
               PROVE  o.task # q.task /\ Conv(o) # Conv(q)
    BY DEF OneRunAtATime
  <2>1. CASE ~New(o) /\ ~New(q)
    BY <1>6, <2>1 DEF Inv, OneRunAtATime
  <2>2. CASE New(o) /\ New(q)
    <3>1. o.task # q.task
      BY <2>2 DEF New
    <3>2. ASSUME Conv(o) = Conv(q) PROVE FALSE
      BY <2>2, <3>1, <3>2, Conversations, OneOfTheGroup DEF New
    <3> QED
      BY <3>1, <3>2
  <2>3. ASSUME NEW x \in Occurrence, NEW y \in Occurrence, x # y, New(x), Open(y)
        PROVE  x.task # y.task /\ Conv(x) # Conv(y)
    <3>1. x.task \in S /\ x.task # y.task
      BY <1>7, <2>3 DEF New, Busy
    <3>2. ASSUME Conv(x) = Conv(y) PROVE FALSE
      <4>1. x.task \notin Isolated /\ Conv(y) = Home
        BY <2>3, <3>2, Conversations
      <4>2. Blocked(Home)
        BY <2>3, <4>1 DEF Blocked
      <4> QED
        BY <2>3, <4>1, <4>2, OneOfTheGroup DEF New
    <3> QED
      BY <3>1, <3>2
  <2> QED
    BY <1>6, <2>1, <2>2, <2>3
<1> QED
  BY <1>5, <1>9, <1>10, <1>11, <1>12, <1>13 DEF Inv

LEMMA EnqueuedPreserves ==
    ASSUME Inv, NEW o \in Occurrence, Enqueued(o)
    PROVE  Inv'
<1>1. /\ now' = now /\ task' = task /\ commands' = commands
      /\ \A q \in Occurrence :
            run'[q] = IF q = o /\ run[q] = "ready" THEN "enqueued" ELSE run[q]
      /\ run' \in [Occurrence -> RunStatus]
  BY DEF Enqueued, Inv, TypeOK, RunStatus
<1>2. \A q \in Occurrence : Open(q)' <=> Open(q)
  BY <1>1 DEF Open
<1>3. \A t \in Task : Busy(t)' <=> Busy(t)
  BY <1>2 DEF Busy
<1>4. NextIsFresh'
  <2> SUFFICES ASSUME NEW t \in Task, task[t].kind = "recurring", task[t].next # Never
               PROVE  run'[Slot(t)] = "none"
    BY <1>1 DEF NextIsFresh, Slot
  <2>1. Slot(t) \in Occurrence
    BY SlotIsOccurrence DEF Inv
  <2> QED
    BY <1>1, <2>1 DEF Inv, NextIsFresh
<1> QED
  BY <1>1, <1>2, <1>3, <1>4 DEF Inv, TypeOK, RunsWereDue, RunsAreScheduled,
     OneRunAtATime, NextOnlyBetweenRuns, NeverStranded

LEMMA RowAfterProperties ==
    ASSUME Inv, NEW t \in Task, NEW reconcile \in BOOLEAN, task[t].status # "none"
    PROVE  LET row == RowAfter(task[t], reconcile)
           IN  /\ row \in TaskRow /\ row.kind = task[t].kind /\ row.status # "none"
               /\ row.next \in {Never, now + 1}
               /\ row.status = "active" /\ row.kind = "recurring" => row.next # Never
<1>1. task[t] \in TaskRow /\ now \in 0..MaxTime
  BY DEF Inv, TypeOK
<1>2. now + 1 \in Time /\ Never \notin Time
  BY <1>1, Times
<1> QED
  BY <1>1, <1>2 DEF RowAfter, TaskRow

LEMMA ObservePreserves ==
    ASSUME Inv, NEW c, NEW what, NEW o, NEW reconcile \in BOOLEAN,
           Observe(c, what, o, reconcile)
    PROVE  Inv'
<1> DEFINE Ends(q) == Settles(q, c, what)
           Over(t) == \E q \in Occurrence : Ends(q) /\ q.task = t
           row(t) == RowAfter(task[t], reconcile)
<1>1. now' = now /\ commands' = commands
  BY DEF Observe
<1>2. /\ run' \in [Occurrence -> RunStatus]
      /\ \A q \in Occurrence :
            \/ Ends(q) /\ run[q] = "started" /\ run'[q] \in {"done", "failed"}
            \/ ~Ends(q) /\ Open(q) /\ run'[q] = "started"
            \/ ~Ends(q) /\ run'[q] = run[q]
  <2>1. \A q \in Occurrence :
            run'[q] = CASE Ends(q) -> IF what = "reply" THEN "done" ELSE "failed"
                        [] what = "message" /\ q = o /\ Open(q) -> "started"
                        [] OTHER -> run[q]
    BY DEF Observe, Settles, Ending
  <2>2. \A q \in Occurrence : Ends(q) => run[q] = "started" /\ what # "message"
    BY DEF Settles, Ending
  <2> HIDE DEF Ends
  <2>3. ASSUME NEW q \in Occurrence
        PROVE  \/ Ends(q) /\ run[q] = "started" /\ run'[q] \in {"done", "failed"}
               \/ ~Ends(q) /\ Open(q) /\ run'[q] = "started"
               \/ ~Ends(q) /\ run'[q] = run[q]
    <3>1. CASE Ends(q)
      BY <2>1, <2>2, <3>1
    <3>2. CASE ~Ends(q)
      BY <2>1, <3>2
    <3> QED
      BY <3>1, <3>2
  <2>4. run' = [q \in Occurrence |-> run'[q]]
    BY DEF Observe
  <2>5. \A q \in Occurrence : run'[q] \in RunStatus
    BY <2>3 DEF Inv, TypeOK, RunStatus
  <2> QED
    BY <2>3, <2>4, <2>5
<1>3. \A t \in Task : task'[t] = IF Over(t) THEN row(t) ELSE task[t]
  BY DEF Observe
<1>4. \A q \in Occurrence : Ends(q) => Open(q)
  BY <1>2 DEF Open
<1>5. \A q \in Occurrence : Open(q)' <=> Open(q) /\ ~Ends(q)
  BY <1>2 DEF Open
<1>6. \A t \in Task : Over(t) => task[t].status # "none"
  BY <1>4 DEF Inv, RunsAreScheduled, Open
<1>7. \A t \in Task : Over(t) =>
          /\ row(t) \in TaskRow /\ row(t).kind = task[t].kind /\ row(t).status # "none"
          /\ row(t).next \in {Never, now + 1}
          /\ row(t).status = "active" /\ row(t).kind = "recurring" => row(t).next # Never
  BY <1>6, RowAfterProperties
<1> HIDE DEF row
<1>8. TypeOK'
  <2>1. task' \in [Task -> TaskRow]
    BY <1>3, <1>7 DEF Observe, Inv, TypeOK
  <2> QED
    BY <1>1, <1>2, <2>1 DEF Inv, TypeOK
<1>9. \A t \in Task : Over(t) => ~Busy(t)'
  BY <1>4, <1>5 DEF Inv, OneRunAtATime, Busy
<1>10. \A t \in Task : ~Over(t) => (Busy(t)' <=> Busy(t))
  BY <1>5 DEF Busy
<1> HIDE DEF Over
<1>11. RunsWereDue' /\ RunsAreScheduled'
  <2> SUFFICES ASSUME NEW q \in Occurrence, run'[q] # "none"
               PROVE  q.at <= now /\ task'[q.task].status # "none"
    BY <1>1 DEF RunsWereDue, RunsAreScheduled
  <2>1. q.task \in Task /\ run[q] # "none"
    BY <1>2 DEF Occurrence, Open
  <2> QED
    BY <1>3, <1>7, <2>1 DEF Inv, RunsWereDue, RunsAreScheduled
<1>12. NextIsFresh'
  <2> SUFFICES ASSUME NEW t \in Task, task'[t].kind = "recurring", task'[t].next # Never
               PROVE  run'[Slot(t)'] = "none"
    BY DEF NextIsFresh
  <2>1. Slot(t)' \in Occurrence /\ Slot(t)'.at = task'[t].next
    BY <1>8 DEF Slot, TypeOK, TaskRow, Occurrence
  <2>2. run[Slot(t)'] = "none"
    <3>1. CASE Over(t)
      BY <1>3, <1>7, <2>1, <3>1 DEF Inv, RunsWereDue, TypeOK
    <3>2. CASE ~Over(t)
      BY <1>3, <3>2 DEF Inv, NextIsFresh, Slot
    <3> QED
      BY <3>1, <3>2
  <2> QED
    BY <1>2, <2>1, <2>2 DEF Open
<1>13. NextOnlyBetweenRuns'
  BY <1>3, <1>9, <1>10 DEF Inv, NextOnlyBetweenRuns
<1>14. NeverStranded'
  BY <1>3, <1>7, <1>10 DEF Inv, NeverStranded
<1>15. OneRunAtATime'
  BY <1>5 DEF Inv, OneRunAtATime
<1> QED
  BY <1>8, <1>11, <1>12, <1>13, <1>14, <1>15 DEF Inv
-------------------------------------------------------------------------------
LEMMA NextPreserves ==
    ASSUME Inv, [Next]_vars
    PROVE  Inv'
<1>1. CASE Edit
  BY <1>1, SchedulePreserves, PausePreserves, ResumePreserves, UpdatePreserves,
     CancelPreserves DEF Edit
<1>2. CASE Clock
  BY <1>2, ClockPreserves
<1>3. ASSUME NEW S \in SUBSET Task, Reserve(S) PROVE Inv'
  BY <1>3, ReservePreserves
<1>4. ASSUME NEW o \in Known, Enqueued(o) PROVE Inv'
  BY <1>4, EnqueuedPreserves DEF Known
<1>5. ASSUME NEW o \in Known, Observe(Conv(o), "message", o, FALSE) PROVE Inv'
  BY <1>5, ObservePreserves
<1>6. ASSUME NEW o \in Known, NEW what \in Ending, NEW reconcile \in BOOLEAN,
             Observe(Conv(o), what, o, reconcile)
      PROVE  Inv'
  BY <1>6, ObservePreserves
<1>7. CASE UNCHANGED vars
  BY <1>7 DEF vars, Inv, TypeOK, RunsWereDue, NextIsFresh, RunsAreScheduled,
     OneRunAtATime, NextOnlyBetweenRuns, NeverStranded, Busy, Open, Slot
<1> QED
  BY <1>1, <1>2, <1>3, <1>4, <1>5, <1>6, <1>7 DEF Next

(* The inductive invariant holds in every reachable state (TaskScheduler).   *)
THEOREM Invariance == Spec => []Inv
<1>1. Init => Inv
  BY Initially
<1>2. Inv /\ [Next]_vars => Inv'
  BY NextPreserves
<1> QED
  BY <1>1, <1>2, PTL DEF Spec

(* Tasks and runs stay well formed (scheduler_tasks, scheduler_runs).        *)
THEOREM TypesSafe == Spec => []TypeOK
BY Invariance, PTL DEF Inv

(* A task and a conversation have one open run at a time (due, resume_task,  *)
(* update_task).                                                             *)
THEOREM RunsSafe == Spec => []OneRunAtATime
BY Invariance, PTL DEF Inv

(* An active recurring task has a time or an open run, after any sequence of *)
(* commands and observations (observe, resume_task).                         *)
THEOREM TasksSafe == Spec => []NeverStranded
BY Invariance, PTL DEF Inv

LEMMA EndedIsFinal ==
    ASSUME Inv, [Next]_vars, NEW o \in Occurrence,
           run[o] \in {"done", "failed", "cancelled"}
    PROVE  run'[o] = run[o]
<1>1. run \in [Occurrence -> RunStatus]
  BY DEF Inv, TypeOK
<1>2. ASSUME NEW t \in Task, Cancel(t) PROVE run'[o] = run[o]
  BY <1>2 DEF Cancel
<1>3. ASSUME NEW t \in Task, NEW s,
             Pause(t) \/ Resume(t) \/ Schedule(t, s[1], s[2]) \/ Update(t, s[1], s[2])
      PROVE  run'[o] = run[o]
  BY <1>3 DEF Pause, Resume, Schedule, Update
<1>4. CASE Edit
  BY <1>2, <1>3, <1>4 DEF Edit
<1>5. ASSUME NEW S, Reserve(S) PROVE run'[o] = run[o]
  BY <1>5 DEF Reserve
<1>6. ASSUME NEW q, Enqueued(q) PROVE run'[o] = run[o]
  BY <1>1, <1>6 DEF Enqueued
<1>7. ASSUME NEW c, NEW what, NEW q, NEW reconcile, Observe(c, what, q, reconcile)
      PROVE  run'[o] = run[o]
  BY <1>7 DEF Observe, Settles, Open
<1> QED
  BY <1>4, <1>5, <1>6, <1>7 DEF Next, Clock, vars

(* A run that has ended is never reopened or ended otherwise, whatever pages *)
(* are replayed (enqueued, observe).                                         *)
THEOREM EndsSafe == Spec => EndedStaysEnded
<1>1. Inv /\ [Next]_vars =>
        [\A o \in Occurrence :
            run[o] \in {"done", "failed", "cancelled"} => run'[o] = run[o]]_run
  BY EndedIsFinal
<1> QED
  BY <1>1, Invariance, PTL DEF Spec, EndedStaysEnded
================================================================================
