----------------------------- MODULE SessionSocket -----------------------------
(***************************************************************************)
(* How the events of a conversation reach a client (sessionSocket.ts and   *)
(* the older endpoint of sockets.ts): history from the event log, then     *)
(* what EventService publishes.  An event is in the log before it is       *)
(* published: a message once the metadata is saved, the events of a run    *)
(* when the run is over.  A client that comes back asks for what follows   *)
(* the highest sequence number it has seen.                                *)
(*                                                                         *)
(* The writer task takes every frame of one synchronous section off the    *)
(* queue before the next section begins, so its bound is that of a         *)
(* section.  What the handler of a closed socket still does reaches nobody.*)
(***************************************************************************)
EXTENDS Naturals, FiniteSetsExt

CONSTANTS
    MaxPending,       \* MAX_PENDING_BYTES, in events
    MaxEvents,        \* bound on the event log
    MaxConnections,   \* bound on the connections of the client
    MaxFaults         \* bound on failed saves and restarts of the server

ASSUME SessionAssumption ==
    MaxPending \in Nat /\ MaxEvents \in Nat /\ MaxConnections \in Nat /\ MaxFaults \in Nat

VARIABLES
    stored,       \* length of the event log
    saving,       \* messages in the log whose metadata is being saved
    run,          \* the run chain: its phase, and where its events begin
    published,    \* publishedEventIds
    overtaken,    \* history: events in the log when a later one was published
    conn,         \* the connection
    got,          \* history: what this connection has brought
    twice,        \* history: what it has brought again
    seen,         \* what the client has seen
    connections, faults

eventVars == <<stored, saving, run, published, overtaken>>
clientVars == <<conn, got, twice, seen>>
vars == <<eventVars, clientVars, connections, faults>>

Event == 1..MaxEvents

(* at: "replay": event `next' is sent next, up to `through', and what is     *)
(* published meanwhile is buffered, each event once; its order is that in    *)
(* which goLive sends all of it.  "silent": the writer has given up, but the *)
(* socket is still open.                                                     *)
Connection == [at : {"off", "replay", "live", "silent"},
               after : Nat, through : Nat, next : Nat,
               buffer : SUBSET Event]

Off == [at |-> "off", after |-> 0, through |-> 0, next |-> 0, buffer |-> {}]

TypeOK ==
    /\ stored \in 0..MaxEvents
    /\ saving \subseteq 1..stored
    /\ run \in [at : {"none", "running", "saving"}, start : 0..stored]
    /\ published \subseteq 1..stored /\ overtaken \subseteq 1..stored
    /\ conn \in Connection
    /\ twice \subseteq got /\ got \subseteq seen /\ seen \subseteq 1..stored
    /\ connections \in 0..MaxConnections /\ faults \in 0..MaxFaults

Fault == faults < MaxFaults /\ faults' = faults + 1

Highest == Max(seen \cup {0})
-------------------------------------------------------------------------------
(* The connection. *)

(* The client receives what is sent. *)
Receive(S) ==
    /\ got' = got \cup S /\ seen' = seen \cup S
    /\ twice' = twice \cup (S \cap got)

(* onEvent, for each event of S. *)
Deliver(S) ==
    \/ /\ conn.at = "replay"
       /\ conn' = [conn EXCEPT !.buffer = @ \cup S]
       /\ UNCHANGED <<got, twice, seen>>
    \/ conn.at = "live" /\ Receive(S) /\ UNCHANGED conn
    \/ conn.at \in {"off", "silent"} /\ UNCHANGED clientVars

StartAtNext(after) == after + 2     \* wrong: the first event missed is left out

StartAt(after) == after + 1

Connect ==
    /\ conn = Off /\ connections < MaxConnections
    /\ connections' = connections + 1
    /\ conn' = [at |-> "replay", after |-> Highest, through |-> stored,
                next |-> StartAt(Highest), buffer |-> {}]
    /\ UNCHANGED <<eventVars, got, twice, seen, faults>>

(* The older endpoint, resend_mode=all: everything at once, then live. *)
ConnectAndResend ==
    /\ conn = Off /\ connections < MaxConnections
    /\ connections' = connections + 1
    /\ conn' = [Off EXCEPT !.at = "live", !.through = stored]
    /\ Receive(1..stored)
    /\ UNCHANGED <<eventVars, faults>>

Replay ==
    /\ conn.at = "replay" /\ conn.next <= conn.through
    /\ Receive({conn.next})
    /\ conn' = [conn EXCEPT !.next = @ + 1]
    /\ UNCHANGED <<eventVars, connections, faults>>

FreshAll == conn.buffer             \* wrong: what was replayed is sent again

FreshPast == {p \in conn.buffer : p > conn.through + 1}
                                    \* wrong: one too many is held for replayed

Fresh == {p \in conn.buffer : p > conn.through}

(* goLive.  What does not fit shuts the writer before it has sent any of it. *)
GoLive ==
    /\ conn.at = "replay" /\ conn.next > conn.through
    /\ IF Cardinality(Fresh) <= MaxPending
       THEN /\ Receive(Fresh)
            /\ conn' = [conn EXCEPT !.at = "live", !.buffer = {}]
       ELSE /\ conn' = [conn EXCEPT !.at = "silent", !.buffer = {}]
            /\ UNCHANGED <<got, twice, seen>>
    /\ UNCHANGED <<eventVars, connections, faults>>

Disconnect ==
    /\ conn # Off
    /\ conn' = Off /\ got' = {} /\ twice' = {}
    /\ UNCHANGED <<eventVars, seen, connections, faults>>
-------------------------------------------------------------------------------
(* EventService: the log and what is published of it. *)

(* publishEventOnce, for each event of S in order. *)
Publish(S) ==
    LET news == S \ published
    IN  /\ published' = published \cup S
        /\ overtaken' = overtaken \cup
              {p \in 1..stored : p \notin published' /\ \E q \in news : p < q}
        /\ Deliver(news)

Store ==
    /\ stored < MaxEvents
    /\ stored' = stored + 1

MessageStored ==
    /\ Store
    /\ saving' = saving \cup {stored'}
    /\ UNCHANGED <<run, published, overtaken, clientVars, connections, faults>>

MessageSaved(p) ==
    /\ p \in saving
    /\ saving' = saving \ {p}
    /\ Publish({p})
    /\ UNCHANGED <<stored, run, connections, faults>>

MessageNotSaved(p) ==
    /\ p \in saving /\ Fault
    /\ saving' = saving \ {p}
    /\ UNCHANGED <<stored, run, published, overtaken, clientVars, connections>>

RunStarts ==
    /\ run.at = "none"
    /\ run' = [at |-> "running", start |-> stored]
    /\ UNCHANGED <<stored, saving, published, overtaken, clientVars, connections, faults>>

AgentActs ==
    /\ run.at = "running"
    /\ Store
    /\ UNCHANGED <<saving, run, published, overtaken, clientVars, connections, faults>>

RunEnds ==
    /\ run.at = "running"
    /\ run' = [run EXCEPT !.at = "saving"]
    /\ UNCHANGED <<stored, saving, published, overtaken, clientVars, connections, faults>>

NoRun == [at |-> "none", start |-> 0]

RunEvents == (run.start + 1)..stored

RunSaved ==
    /\ run.at = "saving"
    /\ run' = NoRun
    /\ Publish(RunEvents)
    /\ UNCHANGED <<stored, saving, connections, faults>>

(* Only a run that failed itself is published nevertheless (handleRunError), *)
(* and that is RunSaved.                                                     *)
RunNotSaved ==
    /\ run.at = "saving" /\ Fault
    /\ run' = NoRun
    /\ UNCHANGED <<stored, saving, published, overtaken, clientVars, connections>>

ServerRestart ==
    /\ Fault
    /\ run' = NoRun /\ saving' = {}
    /\ conn' = Off /\ got' = {} /\ twice' = {}
    /\ UNCHANGED <<stored, published, overtaken, seen, connections>>
-------------------------------------------------------------------------------
Init ==
    /\ stored = 0 /\ saving = {} /\ run = NoRun
    /\ published = {} /\ overtaken = {}
    /\ conn = Off /\ got = {} /\ twice = {} /\ seen = {}
    /\ connections = 0 /\ faults = 0

Next ==
    \/ Connect \/ ConnectAndResend \/ Replay \/ GoLive \/ Disconnect
    \/ MessageStored \/ RunStarts \/ AgentActs \/ RunEnds \/ RunSaved \/ RunNotSaved
    \/ \E p \in saving : MessageSaved(p) \/ MessageNotSaved(p)
    \/ ServerRestart

Spec == Init /\ [][Next]_vars
-------------------------------------------------------------------------------
(* A live connection has brought everything that follows the number it was   *)
(* asked for and is history or was published since: nothing falls between    *)
(* the replay and the live events (SessionSubscriber.goLive).                *)
NothingBetween ==
    conn.at = "live" =>
        \A p \in (conn.after + 1)..stored :
            p <= conn.through \/ p \in published => p \in got

(* A connection brings an event again only when it is published for the      *)
(* first time after the replay has taken it from the log: what was published *)
(* before or during the replay comes once (goLive, publishEventOnce).        *)
TwiceOnlyIfLate == [][\A p \in twice' \ twice : p \notin published]_vars

(* Whatever the restarts, the dropped frames and the connections that ended, *)
(* a client that asks for what follows its highest number has missed below   *)
(* it only events that were published out of order.                          *)
MissedOnlyOvertaken == \A p \in 1..Highest : p \in seen \cup overtaken

(* "`Durable` survives a reconnect via `after_seq`" (sessionProtocol.ts): a  *)
(* client that is connected again has what was published.                    *)
DurableSurvives ==
    conn.at = "live" /\ conn.next # 0 => published \subseteq seen
================================================================================
