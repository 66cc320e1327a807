------------------------------ MODULE RelayRuntime ------------------------------
(***************************************************************************)
(* The life of a RelayRuntime: ticks that coalesce, the timer and the      *)
(* accepted messages that wake it, commands that run beside the ticks, and *)
(* the orderly stop that closes the database when nothing uses it any      *)
(* more (relayRuntime.ts, MessageRelay.whenCommandsIdle).                  *)
(*                                                                         *)
(* What a tick does with a message is the matter of modules MessageWork    *)
(* and RelayIntake: here an attempt fails or succeeds in one step.         *)
(***************************************************************************)
EXTENDS Naturals, Sequences

CONSTANT MaxFaults   \* bound on crashes and failures

ASSUME RelayRuntimeAssumption == MaxFaults \in Nat

VARIABLES
    phase,      \* of the runtime: "none" if there is none, or its databases are closed
    tick,       \* what the active tick awaits
    accepted,   \* the intake rows
    queue,      \* those of them that wait for their integration
    commands,   \* MessageRelay.commands
    faults      \* crashes and failures so far

runtimeVars == <<phase, tick, accepted, queue, commands>>

(* source: the platform's message, by the order of arrival.  batch: the      *)
(* messages that the prompt shows.                                           *)
Intake == [source : Nat, command : BOOLEAN, batch : SUBSET Nat]

(* "starting": start awaits its first tick.  "running": the timer is set.    *)
(* "draining tick", "draining commands": what stop awaits.                   *)
RuntimeTypeOK ==
    /\ phase \in {"none", "starting", "running", "draining tick", "draining commands"}
    /\ tick \in {"none", "intake", "outbound"}
    /\ accepted \subseteq Intake
    /\ queue \in Seq(accepted)
    /\ commands \subseteq accepted
    /\ faults \in 0..MaxFaults

Fault == faults < MaxFaults /\ faults' = faults + 1

Closed == phase \notin {"starting", "running"}

Start ==
    /\ phase = "none"
    /\ phase' = "starting" /\ tick' = "intake"
    /\ UNCHANGED <<accepted, queue, commands, faults>>

StopAtOnce == phase' = "draining commands"      \* wrong: the tick goes on

Drain == phase' = IF tick = "none" THEN "draining commands" ELSE "draining tick"

Stop ==
    /\ ~Closed
    /\ Drain
    /\ UNCHANGED <<tick, accepted, queue, commands, faults>>

CloseDatabases ==
    /\ phase = "draining commands" /\ commands = {}
    /\ phase' = "none"
    /\ UNCHANGED <<tick, accepted, queue, commands, faults>>

(* runOnce: a tick that is under way serves every caller. *)
Wake == tick' = IF tick = "none" THEN "intake" ELSE tick

Accept(i) ==
    /\ ~Closed
    /\ IF \E j \in accepted : j.source = i.source
       THEN UNCHANGED <<accepted, queue>>
       ELSE accepted' = accepted \cup {i} /\ queue' = Append(queue, i)
    /\ Wake
    /\ UNCHANGED <<phase, commands, faults>>

TimerFires ==
    /\ phase = "running" /\ tick = "none"
    /\ Wake
    /\ UNCHANGED <<phase, accepted, queue, commands, faults>>
-------------------------------------------------------------------------------
(* A tick.  A running command keeps its lane, which is the only one here. *)

Claimable == queue # <<>> /\ commands = {}

Integrate ==
    /\ tick = "intake" /\ Claimable
    /\ queue' = Tail(queue)
    /\ commands' = {i \in {Head(queue)} : i.command}
    /\ UNCHANGED <<phase, tick, accepted, faults>>

EndIntake ==
    /\ tick = "intake"
    /\ \/ ~Claimable /\ UNCHANGED faults
       \/ Claimable /\ Fault
    /\ tick' = "outbound"
    /\ UNCHANGED <<phase, accepted, queue, commands>>

PhaseAfter(failed) ==
    CASE phase = "starting" -> IF failed THEN "draining commands" ELSE "running"
      [] phase = "draining tick" -> "draining commands"
      [] OTHER -> phase

EndTick ==
    /\ tick = "outbound"
    /\ tick' = "none" /\ phase' = PhaseAfter(FALSE)
    /\ UNCHANGED <<accepted, queue, commands, faults>>

(* The store throws.  A runtime whose first tick fails is stopped (startRuntime). *)
FailTick ==
    /\ tick # "none"
    /\ Fault
    /\ tick' = "none" /\ phase' = PhaseAfter(TRUE)
    /\ UNCHANGED <<accepted, queue, commands>>

(* A command has a timeout of its own. *)
EndCommand(i) ==
    /\ i \in commands
    /\ commands' = commands \ {i}
    /\ UNCHANGED <<phase, tick, accepted, queue, faults>>

RuntimeInit ==
    /\ phase = "none" /\ tick = "none"
    /\ accepted = {} /\ queue = <<>> /\ commands = {}
    /\ faults = 0

RuntimeStep ==
    \/ CloseDatabases \/ TimerFires \/ Integrate \/ EndIntake \/ EndTick
    \/ \E i \in commands : EndCommand(i)
================================================================================
