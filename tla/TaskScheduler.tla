----------------------------- MODULE TaskScheduler -----------------------------
(***************************************************************************)
(* The product scheduler (taskScheduler.ts): tasks, their occurrences and  *)
(* the runs reserved for them, in one SQLite store that tools and bridge   *)
(* workers share.  Each action is one transaction of the store.            *)
(*                                                                         *)
(* A run goes from "ready" (reserved) over "enqueued" (accepted as a       *)
(* message) and "started" (its message was seen in the conversation) to    *)
(* "done" or "failed".  Time is counted in units of the interval of a      *)
(* recurring task.                                                         *)
(***************************************************************************)
EXTENDS Naturals, FiniteSets

CONSTANTS
    Task,
    Home,          \* the conversation of the tasks' group
    Isolated,      \* tasks whose runs get a conversation of their own
    OnceAt,        \* the times that `once' tasks are set to
    MaxTime,       \* bound on the clock
    MaxCommands    \* bound on the commands to existing tasks

ASSUME TaskSchedulerAssumption ==
    /\ IsFiniteSet(Task) /\ Isolated \subseteq Task
    /\ MaxTime \in Nat /\ MaxCommands \in Nat
    /\ OnceAt \subseteq 1..(MaxTime + 1) /\ OnceAt # {}

VARIABLES
    now,        \* the clock
    task,       \* scheduler_tasks
    run,        \* scheduler_runs: the status of the run of each occurrence
    commands    \* commands so far

vars == <<now, task, run, commands>>

Time == 1..(MaxTime + 1)

Never == 0       \* next_run IS NULL

(* The id of a run names its task and the time it was due at. *)
Occurrence == [task : Task, at : Time]

Conv(o) == IF o.task \in Isolated THEN o ELSE Home

ASSUME HomeAssumption == Home \notin Occurrence

Conversation == {Home} \cup {o \in Occurrence : o.task \in Isolated}

TaskRow == [status : {"none", "active", "paused", "completed", "cancelled"},
            kind : {"recurring", "once"},
            value : Time,               \* of a `once' task
            next : Time \cup {Never}]

RunStatus == {"none", "ready", "enqueued", "started", "done", "failed", "cancelled"}

TypeOK ==
    /\ now \in 0..MaxTime
    /\ task \in [Task -> TaskRow]
    /\ run \in [Occurrence -> RunStatus]
    /\ commands \in 0..MaxCommands

Open(o) == run[o] \in {"ready", "enqueued", "started"}

Busy(t) == \E o \in Occurrence : o.task = t /\ Open(o)

Blocked(c) == \E o \in Occurrence : Conv(o) = c /\ Open(o)

NextTime(kind, value) == IF kind = "once" THEN value ELSE now + 1
-------------------------------------------------------------------------------
(* Commands (apply).  The journal of commands makes each of them happen once. *)

Schedule(t, kind, value) ==
    /\ task[t].status = "none"
    /\ task' = [task EXCEPT ![t] = [status |-> "active", kind |-> kind,
                                    value |-> value,
                                    next |-> NextTime(kind, value)]]
    /\ UNCHANGED <<now, run, commands>>

Command(t) ==
    /\ task[t].status \notin {"none", "cancelled"}
    /\ commands < MaxCommands
    /\ commands' = commands + 1

Pause(t) ==
    /\ Command(t)
    /\ task' = [task EXCEPT ![t].status = "paused"]
    /\ UNCHANGED <<now, run>>

Cancel(t) ==
    /\ Command(t)
    /\ task' = [task EXCEPT ![t].status = "cancelled", ![t].next = Never]
    /\ run' = [o \in Occurrence |->
                  IF o.task = t /\ run[o] = "ready" THEN "cancelled" ELSE run[o]]
    /\ UNCHANGED now

(* No next time while a run of the task is open: its end sets it. *)
UnlessBusy(t, time) == IF Busy(t) THEN Never ELSE time

Resume(t) ==
    /\ Command(t)
    /\ task' = [task EXCEPT
                  ![t].status = "active",
                  ![t].next = UnlessBusy(t, NextTime(task[t].kind, task[t].value))]
    /\ UNCHANGED <<now, run>>

Update(t, kind, value) ==
    /\ Command(t)
    /\ task' = [task EXCEPT
                  ![t].kind = kind, ![t].value = value,
                  ![t].next = UnlessBusy(t, NextTime(kind, value))]
    /\ UNCHANGED <<now, run>>
-------------------------------------------------------------------------------
(* Occurrences. *)

Clock == now < MaxTime /\ now' = now + 1 /\ UNCHANGED <<task, run, commands>>

Due(t) ==
    /\ task[t].status = "active"
    /\ task[t].next # Never /\ task[t].next <= now

Slot(t) == [task |-> t, at |-> task[t].next]

MayReserveBlocked(S) ==          \* wrong: every due group task gets its run
    {t \in Task \ Isolated : Due(t)} \subseteq S

(* due looks at one task after the other, in whatever order the query finds  *)
(* them: a reserved run keeps the later group tasks of its conversation      *)
(* waiting.  An occurrence that has had its run is passed over silently.     *)
MayReserve(S) ==
    LET group == {t \in Task \ Isolated : Due(t)}
        fresh == {t \in group : run[Slot(t)] = "none"}
    IN  IF Blocked(Home) THEN S \cap group = {}
        ELSE /\ Cardinality(S \cap fresh) = (IF fresh = {} THEN 0 ELSE 1)
             /\ fresh = {} => group \subseteq S

Reserve(S) ==
    /\ S \subseteq {t \in Task : Due(t)}
    /\ {t \in Isolated : Due(t)} \subseteq S
    /\ MayReserve(S)
    /\ run' = [o \in Occurrence |->
                  IF o.task \in S /\ o = Slot(o.task) /\ run[o] = "none"
                  THEN "ready" ELSE run[o]]
    /\ task' = [t \in Task |->
                  IF t \in S THEN [task[t] EXCEPT !.next = Never] ELSE task[t]]
    /\ UNCHANGED <<now, commands>>

(* What due returns: reserved runs that were not submitted yet. *)
Submittable == {o \in Occurrence : run[o] = "ready" /\ task[o.task].status = "active"}

EnqueuedAlways(o) ==             \* wrong: whatever became of the run meanwhile
    /\ run' = [run EXCEPT ![o] = "enqueued"]
    /\ UNCHANGED <<now, task, commands>>

Enqueued(o) ==
    /\ run' = [run EXCEPT ![o] = IF @ = "ready" THEN "enqueued" ELSE @]
    /\ UNCHANGED <<now, task, commands>>
-------------------------------------------------------------------------------
(* observe: events of a conversation.  "message": the message of run o;      *)
(* "reply": finish or plain assistant text; "failure": an error of a tool,   *)
(* of the run, or found by the recovery.                                     *)

Ending == {"reply", "failure"}

SettlesAnyOpen(o, c, what) ==    \* wrong: a run that has not started yet, too
    Conv(o) = c /\ Open(o) /\ what \in Ending

Settles(o, c, what) == Conv(o) = c /\ run[o] = "started" /\ what \in Ending

RowAfterForgetful(row, reconcile) ==   \* wrong: next_run is left to the next resume
    [row EXCEPT !.status = IF reconcile THEN "paused" ELSE @]

RowAfter(row, reconcile) ==
    LET status == IF reconcile THEN "paused" ELSE row.status
    IN  [row EXCEPT
            !.next = IF row.kind = "recurring" /\ status = "active"
                     THEN now + 1 ELSE Never,
            !.status = IF row.kind = "once" /\ status = "active"
                       THEN "completed" ELSE status]

Observe(c, what, o, reconcile) ==
    LET settled == {q \in Occurrence : Settles(q, c, what)}
    IN  /\ run' = [q \in Occurrence |->
                      CASE q \in settled -> IF what = "reply" THEN "done" ELSE "failed"
                        [] what = "message" /\ q = o /\ Open(q) -> "started"
                        [] OTHER -> run[q]]
        /\ task' = [t \in Task |->
                      IF \E q \in settled : q.task = t
                      THEN RowAfter(task[t], reconcile) ELSE task[t]]
        /\ UNCHANGED <<now, commands>>
-------------------------------------------------------------------------------
Init ==
    /\ now = 0
    /\ task = [t \in Task |-> [status |-> "none", kind |-> "once",
                               value |-> 1, next |-> Never]]
    /\ run = [o \in Occurrence |-> "none"]
    /\ commands = 0

Setting == {"recurring", "once"} \X OnceAt

Edit ==
    \E t \in Task :
        \/ Pause(t) \/ Resume(t) \/ Cancel(t)
        \/ \E s \in Setting : Schedule(t, s[1], s[2]) \/ Update(t, s[1], s[2])

(* Without a row in scheduler_runs there is nothing to mark or to observe.   *)
Known == {o \in Occurrence : run[o] # "none"}

Next ==
    \/ Edit \/ Clock
    \/ \E S \in SUBSET Task : Reserve(S)
    \/ \E o \in Known :
          \/ Enqueued(o)
          \/ Observe(Conv(o), "message", o, FALSE)
          \/ \E what \in Ending, reconcile \in BOOLEAN :
                Observe(Conv(o), what, o, reconcile)

Spec == Init /\ [][Next]_vars
-------------------------------------------------------------------------------
(* A task has one open run at a time, though nothing but next_run keeps an   *)
(* isolated task from a second one; a conversation has one of its group      *)
(* tasks' runs at a time (due, resume_task, update_task).                    *)
OneRunAtATime ==
    \A o, q \in Occurrence :
        o # q /\ Open(o) /\ Open(q) =>
            o.task # q.task /\ (Conv(o) # Conv(q))

(* No time is set while a run is open, or the task would get a second one.   *)
NextOnlyBetweenRuns == \A t \in Task : Busy(t) => task[t].next = Never

(* An active recurring task waits for a time or for the end of a run: no     *)
(* sequence of commands leaves it without either (observe, resume_task).     *)
NeverStranded ==
    \A t \in Task :
        task[t].status = "active" /\ task[t].kind = "recurring" =>
            task[t].next # Never \/ Busy(t)

(* A run that has ended stays so, whatever is replayed (enqueued, observe).  *)
EndedStaysEnded ==
    [][\A o \in Occurrence :
          run[o] \in {"done", "failed", "cancelled"} => run'[o] = run[o]]_run
================================================================================
