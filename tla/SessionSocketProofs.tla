-------------------------- MODULE SessionSocketProofs --------------------------
(***************************************************************************)
(* What a client gets of a conversation's events, for any number of events *)
(* and connections, any bound of the writer, failed saves and restarts:    *)
(* nothing falls between replay and live events, nothing comes twice that  *)
(* was published before, and nothing is missed that was not overtaken.     *)
(***************************************************************************)
EXTENDS SessionSocket, WellFoundedInduction, TLAPS

(* A connection is asked for what follows an event that the client has seen, *)
(* and replays no further than the log went when it was opened.              *)
AskedSound ==
    /\ conn.at = "off" => conn = Off /\ got = {} /\ twice = {}
    /\ conn.at # "off" =>
           /\ conn.after <= conn.through /\ conn.through <= stored
           /\ conn.after = 0 \/ conn.after \in seen

(* During the replay the connection has brought exactly the events up to the *)
(* next one, and what was published beyond the replay is in the buffer.      *)
ReplaySound ==
    conn.at = "replay" =>
        /\ conn.after < conn.next /\ conn.next <= conn.through + 1
        /\ got = (conn.after + 1)..(conn.next - 1)
        /\ conn.buffer \subseteq published
        /\ \A p \in published : p > conn.through => p \in conn.buffer

(* What lies below a published event is published, or was overtaken by it.   *)
OvertakenSound ==
    \A q \in published : \A p \in 1..q : p \in published \cup overtaken

(* What lies below an event that was seen was seen, or overtaken.            *)
SeenSound == \A q \in seen : \A p \in 1..q : p \in seen \cup overtaken

IInv ==
    /\ TypeOK /\ AskedSound /\ ReplaySound
    /\ NothingBetween /\ OvertakenSound /\ SeenSound
-------------------------------------------------------------------------------
LEMMA HighestIs ==
    ASSUME TypeOK
    PROVE  /\ Highest \in seen \cup {0} /\ Highest \in 0..stored
           /\ \A p \in seen : p <= Highest
<1> DEFINE S == seen \cup {0}
           Bounds == {n \in Nat : \A p \in S : p <= n}
           R == OpToRel(<, Nat)
<1>1. stored \in Nat /\ S \subseteq 0..stored /\ 0 \in S
  BY DEF TypeOK
<1>2. stored \in Bounds
  BY <1>1
<1>3. PICK m \in Bounds : \A n \in Bounds : ~(<<n, m>> \in R)
  <2>1. IsWellFoundedOn(R, Nat)
    BY NatLessThanWellFounded
  <2>2. Bounds \subseteq Nat /\ Bounds # {}
    BY <1>2
  <2> HIDE DEF R, Bounds
  <2> QED
    BY <2>1, <2>2, WFMin
<1>4. m \in Nat /\ \A p \in S : p <= m
  OBVIOUS
<1>5. m \in S
  <2> SUFFICES ASSUME m \notin S PROVE FALSE
    OBVIOUS
  <2>1. m # 0 /\ m - 1 \in Nat
    BY <1>1, <1>4
  <2>2. \A p \in S : p <= m - 1
    BY <1>1, <1>4
  <2>3. m - 1 \in Bounds /\ <<m - 1, m>> \in R
    BY <1>4, <2>1, <2>2 DEF OpToRel
  <2> QED
    BY <1>3, <2>3
<1> HIDE DEF Bounds, R
<1>6. \E x \in S : \A y \in S : x >= y
  BY <1>1, <1>4, <1>5
<1>7. Highest \in S /\ \A y \in S : Highest >= y
  <2> HIDE DEF S
  <2>1. Highest = Max(S)
    BY DEF Highest, S
  <2> QED
    BY <1>6, <2>1 DEF Max
<1> QED
  BY <1>1, <1>7

LEMMA Initially == Init => IInv
<1> SUFFICES ASSUME Init PROVE IInv
  OBVIOUS
<1>1. TypeOK
  BY SessionAssumption DEF Init, TypeOK, Off, Connection, NoRun, Event
<1> QED
  BY <1>1 DEF Init, IInv, AskedSound, ReplaySound, NothingBetween, OvertakenSound,
     SeenSound, Off
-------------------------------------------------------------------------------
(* The connection. *)

LEMMA ConnectPreserves ==
    ASSUME IInv, Connect
    PROVE  IInv'
<1> USE DEF IInv, Connect, eventVars
<1>1. Highest \in seen \cup {0} /\ Highest \in 0..stored /\ stored \in Nat
  BY HighestIs DEF TypeOK
<1>2. conn' = [at |-> "replay", after |-> Highest, through |-> stored,
               next |-> Highest + 1, buffer |-> {}]
  BY DEF StartAt
<1>3. TypeOK'
  BY <1>1, <1>2, SessionAssumption DEF TypeOK, Connection, Off
<1>4. got = {} /\ published \subseteq 1..stored
  BY DEF AskedSound, Off, TypeOK
<1>5. AskedSound'
  BY <1>1, <1>2 DEF AskedSound
<1>6. ReplaySound'
  BY <1>1, <1>2, <1>4 DEF ReplaySound
<1> QED
  BY <1>2, <1>3, <1>5, <1>6 DEF NothingBetween, OvertakenSound, SeenSound

LEMMA ConnectAndResendPreserves ==
    ASSUME IInv, ConnectAndResend
    PROVE  IInv'
<1>1. conn' = [at |-> "live", after |-> 0, through |-> stored, next |-> 0, buffer |-> {}]
  BY DEF ConnectAndResend, Off
<1>2. stored \in Nat /\ seen' = 1..stored /\ twice' = {} /\ got' = 1..stored
  BY DEF ConnectAndResend, Receive, IInv, AskedSound, Off, TypeOK
<1>3. UNCHANGED <<stored, saving, run, published, overtaken, faults>>
  BY DEF ConnectAndResend, eventVars
<1>4. connections' \in 0..MaxConnections
  BY SessionAssumption DEF ConnectAndResend, IInv, TypeOK
<1>5. TypeOK'
  BY <1>1, <1>2, <1>3, <1>4 DEF IInv, TypeOK, Connection
<1>6. AskedSound' /\ ReplaySound'
  BY <1>1, <1>2, <1>3 DEF AskedSound, ReplaySound
<1>7. NothingBetween' /\ SeenSound'
  BY <1>1, <1>2, <1>3 DEF NothingBetween, SeenSound
<1> QED
  BY <1>3, <1>5, <1>6, <1>7 DEF IInv, OvertakenSound

LEMMA ReplayPreserves ==
    ASSUME IInv, Replay
    PROVE  IInv'
<1> USE DEF IInv, Replay, eventVars, Receive
<1>1. /\ conn.at = "replay" /\ conn.next \in Nat /\ conn.through \in Nat
      /\ conn.after \in Nat /\ stored \in Nat
      /\ conn.after < conn.next /\ conn.next <= stored
      /\ got = (conn.after + 1)..(conn.next - 1)
  BY DEF TypeOK, Connection, ReplaySound, AskedSound
<1>2. conn' = [conn EXCEPT !.next = conn.next + 1]
  OBVIOUS
<1>3. got' = (conn.after + 1)..conn.next /\ seen' = seen \cup {conn.next}
  BY <1>1
<1>4. TypeOK'
  <2>1. twice' \subseteq got' /\ got' \subseteq seen'
    BY DEF TypeOK
  <2>2. conn.next \in 1..stored /\ seen' \subseteq 1..stored
    BY <1>1, <1>3 DEF TypeOK
  <2>3. conn' \in Connection
    BY <1>1, <1>2 DEF TypeOK, Connection
  <2> QED
    BY <2>1, <2>2, <2>3 DEF TypeOK
<1>5. AskedSound'
  BY <1>1, <1>2 DEF AskedSound, TypeOK, Connection
<1>6. ReplaySound'
  BY <1>1, <1>2, <1>3 DEF ReplaySound, TypeOK, Connection
<1>7. SeenSound'
  <2> SUFFICES ASSUME NEW p \in 1..conn.next PROVE p \in seen' \cup overtaken
    BY <1>3 DEF SeenSound
  <2>1. CASE p > conn.after
    BY <1>1, <1>3, <2>1 DEF TypeOK
  <2>2. CASE p <= conn.after
    BY <1>1, <1>3, <2>2 DEF AskedSound, SeenSound
  <2> QED
    BY <1>1, <2>1, <2>2
<1> QED
  BY <1>1, <1>2, <1>4, <1>5, <1>6, <1>7 DEF NothingBetween, OvertakenSound, TypeOK, Connection

LEMMA GoLivePreserves ==
    ASSUME IInv, GoLive
    PROVE  IInv'
<1> USE DEF IInv, GoLive, eventVars
<1>1. /\ conn.at = "replay" /\ conn.next = conn.through + 1 /\ conn.through \in Nat
      /\ conn.after \in Nat /\ stored \in Nat /\ conn.through <= stored
      /\ got = (conn.after + 1)..conn.through
  BY DEF TypeOK, Connection, ReplaySound, AskedSound
<1>2. /\ Fresh \subseteq published
      /\ \A p \in published : p > conn.through => p \in Fresh
  BY DEF ReplaySound, Fresh
<1>3. CASE Cardinality(Fresh) <= MaxPending
  <2>1. /\ conn' = [conn EXCEPT !.at = "live", !.buffer = {}]
        /\ got' = got \cup Fresh /\ seen' = seen \cup Fresh
        /\ twice' = twice \cup (Fresh \cap got)
    BY <1>3 DEF Receive
  <2>2. /\ conn'.at = "live" /\ conn'.after = conn.after /\ conn'.through = conn.through
        /\ conn' \in Connection
    BY <2>1 DEF TypeOK, Connection
  <2>3. TypeOK'
    <3>1. twice' \subseteq got' /\ got' \subseteq seen' /\ seen' \subseteq 1..stored
      BY <1>2, <2>1 DEF TypeOK
    <3> QED
      BY <2>2, <3>1 DEF TypeOK
  <2>4. AskedSound'
    BY <1>1, <2>1, <2>2 DEF AskedSound
  <2>5. NothingBetween'
    BY <1>1, <1>2, <2>1, <2>2 DEF NothingBetween
  <2>6. SeenSound'
    <3> SUFFICES ASSUME NEW q \in Fresh, NEW p \in 1..q PROVE p \in seen' \cup overtaken
      BY <2>1 DEF SeenSound
    <3>0. p \in Nat /\ p >= 1
      BY <1>2 DEF TypeOK
    <3>1. CASE p <= conn.after
      BY <1>1, <2>1, <3>0, <3>1 DEF AskedSound, SeenSound
    <3>2. CASE conn.after < p /\ p <= conn.through
      BY <1>1, <2>1, <3>0, <3>2 DEF TypeOK
    <3>3. CASE p > conn.through
      BY <1>2, <2>1, <3>3 DEF OvertakenSound
    <3> QED
      BY <1>1, <3>0, <3>1, <3>2, <3>3
  <2> QED
    BY <2>2, <2>3, <2>4, <2>5, <2>6 DEF ReplaySound, OvertakenSound
<1>4. CASE ~(Cardinality(Fresh) <= MaxPending)
  <2>1. conn' = [conn EXCEPT !.at = "silent", !.buffer = {}] /\ UNCHANGED <<got, twice, seen>>
    BY <1>4
  <2>2. /\ conn'.at = "silent" /\ conn'.after = conn.after /\ conn'.through = conn.through
        /\ conn' \in Connection
    BY <2>1 DEF TypeOK, Connection
  <2> QED
    BY <1>1, <2>1, <2>2 DEF TypeOK, AskedSound, ReplaySound, NothingBetween,
       OvertakenSound, SeenSound
<1> QED
  BY <1>3, <1>4

LEMMA ClosePreserves ==
    ASSUME IInv, conn' = Off, got' = {}, twice' = {}, UNCHANGED <<seen, connections>>,
           UNCHANGED <<stored, published, overtaken>>, faults' \in 0..MaxFaults,
           saving' \subseteq saving, run' \in {run, NoRun}
    PROVE  IInv'
<1>1. TypeOK'
  BY DEF IInv, TypeOK, Off, Connection, NoRun
<1> QED
  BY <1>1 DEF IInv, AskedSound, ReplaySound, NothingBetween, OvertakenSound, SeenSound, Off
-------------------------------------------------------------------------------
(* The log and what is published of it. *)

(* The log may grow by one event that is not published yet. *)
LEMMA LogPreserves ==
    ASSUME IInv, UNCHANGED <<published, overtaken, clientVars, connections>>,
           stored' = stored \/ Store,
           saving' \subseteq 1..stored', faults' \in 0..MaxFaults,
           run' \in [at : {"none", "running", "saving"}, start : 0..stored']
    PROVE  IInv'
<1>1. stored \in 0..MaxEvents /\ stored' \in 0..MaxEvents /\ stored <= stored'
  BY SessionAssumption DEF IInv, TypeOK, Store
<1>2. TypeOK'
  BY <1>1 DEF IInv, TypeOK, clientVars
<1>3. AskedSound'
  BY <1>1 DEF IInv, AskedSound, TypeOK, Connection, clientVars
<1>4. NothingBetween'
  <2> SUFFICES ASSUME conn.at = "live", NEW p \in (conn.after + 1)..stored',
                      p <= conn.through \/ p \in published
               PROVE  p \in got
    BY DEF NothingBetween, clientVars
  <2>1. conn.through <= stored /\ conn.through \in Nat /\ conn.after \in Nat
    BY DEF IInv, AskedSound, TypeOK, Connection
  <2>2. p \in (conn.after + 1)..stored
    BY <1>1, <2>1 DEF IInv, TypeOK
  <2> QED
    BY <2>2 DEF IInv, NothingBetween
<1> QED
  BY <1>2, <1>3, <1>4 DEF IInv, ReplaySound, OvertakenSound, SeenSound, clientVars

LEMMA PublishPreserves ==
    ASSUME IInv, NEW S, S \subseteq 1..stored, Publish(S),
           UNCHANGED <<stored, connections, faults>>,
           saving' \subseteq saving, run' \in {run, NoRun}
    PROVE  IInv'
<1> DEFINE news == S \ published
<1>1. /\ published' = published \cup S
      /\ overtaken' = overtaken \cup
            {p \in 1..stored : p \notin published' /\ \E q \in news : p < q}
      /\ Deliver(news)
      /\ news \subseteq 1..stored /\ published' = published \cup news
  BY DEF Publish
<1>2. /\ stored \in Nat /\ published' \subseteq 1..stored
      /\ overtaken' \subseteq 1..stored /\ overtaken \subseteq overtaken'
      /\ saving' \subseteq 1..stored
      /\ run' \in [at : {"none", "running", "saving"}, start : 0..stored]
  <2>1. stored \in Nat
    BY DEF IInv, TypeOK
  <2>2. run' \in [at : {"none", "running", "saving"}, start : 0..stored]
    BY <2>1 DEF IInv, TypeOK, NoRun
  <2> QED
    BY <1>1, <2>1, <2>2 DEF IInv, TypeOK
<1>3. OvertakenSound'
  <2> SUFFICES ASSUME NEW q \in published', NEW p \in 1..q, p \notin published'
               PROVE  p \in overtaken'
    BY DEF OvertakenSound
  <2>1. CASE q \in published
    BY <1>1, <1>2, <2>1 DEF IInv, OvertakenSound
  <2>2. CASE q \in news
    BY <1>1, <1>2, <2>2
  <2> QED
    BY <1>1, <2>1, <2>2
<1> HIDE DEF news
<1>4. CASE /\ conn.at = "replay" /\ conn' = [conn EXCEPT !.buffer = @ \cup news]
           /\ UNCHANGED <<got, twice, seen>>
  <2>1. /\ conn'.at = "replay" /\ conn'.after = conn.after /\ conn'.through = conn.through
        /\ conn'.next = conn.next /\ conn'.buffer = conn.buffer \cup news
        /\ conn' \in Connection
    <3>1. news \subseteq Event
      BY <1>1, <1>2, SessionAssumption DEF IInv, TypeOK, Event
    <3> QED
      BY <1>4, <3>1 DEF IInv, TypeOK, Connection
  <2>2. TypeOK'
    BY <1>2, <1>4, <2>1 DEF IInv, TypeOK
  <2>3. AskedSound' /\ NothingBetween'
    BY <1>4, <2>1 DEF IInv, AskedSound, NothingBetween
  <2>4. ReplaySound'
    BY <1>1, <1>4, <2>1 DEF IInv, ReplaySound
  <2>5. SeenSound'
    BY <1>2, <1>4 DEF IInv, SeenSound
  <2> QED
    BY <1>3, <2>2, <2>3, <2>4, <2>5 DEF IInv
<1>5. CASE conn.at = "live" /\ Receive(news) /\ UNCHANGED conn
  <2>1. /\ got' = got \cup news /\ seen' = seen \cup news
        /\ twice' = twice \cup (news \cap got)
    BY <1>5 DEF Receive
  <2>2. TypeOK'
    <3>1. twice' \subseteq got' /\ got' \subseteq seen' /\ seen' \subseteq 1..stored
      BY <1>1, <2>1 DEF IInv, TypeOK
    <3> QED
      BY <1>2, <1>5, <3>1 DEF IInv, TypeOK
  <2>3. AskedSound' /\ ReplaySound'
    BY <1>5, <2>1 DEF IInv, AskedSound, ReplaySound
  <2>4. NothingBetween'
    BY <1>1, <1>5, <2>1 DEF IInv, NothingBetween
  <2>5. SeenSound'
    <3> SUFFICES ASSUME NEW q \in news, NEW p \in 1..q PROVE p \in seen' \cup overtaken'
      BY <1>2, <2>1 DEF IInv, SeenSound
    <3>1. q \in 1..stored /\ p \in 1..stored /\ conn.after \in Nat
      BY <1>1, <1>2 DEF IInv, TypeOK, Connection
    <3>2. CASE p <= conn.after
      BY <1>2, <1>5, <2>1, <3>1, <3>2 DEF IInv, AskedSound, SeenSound
    <3>3. CASE p > conn.after
      <4>1. p \in published' \/ p \in overtaken'
        BY <1>1, <1>3 DEF OvertakenSound
      <4>2. p \in published => p \in got
        BY <1>5, <3>1, <3>3 DEF IInv, NothingBetween
      <4> QED
        BY <1>1, <2>1, <4>1, <4>2 DEF IInv, TypeOK
    <3> QED
      BY <3>1, <3>2, <3>3
  <2> QED
    BY <1>3, <2>2, <2>3, <2>4, <2>5 DEF IInv
<1>6. CASE conn.at \in {"off", "silent"} /\ UNCHANGED clientVars
  <2>1. TypeOK'
    BY <1>2, <1>6 DEF IInv, TypeOK, clientVars
  <2> QED
    BY <1>2, <1>3, <1>6, <2>1 DEF IInv, AskedSound, ReplaySound, NothingBetween,
       SeenSound, clientVars
<1> QED
  BY <1>1, <1>4, <1>5, <1>6 DEF Deliver
-------------------------------------------------------------------------------
LEMMA NextPreserves ==
    ASSUME IInv, [Next]_vars
    PROVE  IInv'
<1> USE DEF IInv
<1>1. faults \in 0..MaxFaults /\ (Fault => faults' \in 0..MaxFaults) /\ stored \in Nat
  BY SessionAssumption DEF TypeOK, Fault
<1>2. CASE MessageStored
  <2>1. stored' = stored + 1 /\ saving' = saving \cup {stored + 1} /\ run' = run
    BY <1>2 DEF MessageStored, Store
  <2>2. saving' \subseteq 1..stored' /\ run' \in [at : {"none", "running", "saving"},
                                                start : 0..stored']
    BY <1>1, <2>1 DEF TypeOK
  <2> QED
    BY <1>1, <1>2, <2>2, LogPreserves DEF MessageStored
<1>3. CASE RunStarts
  BY <1>1, <1>3, LogPreserves DEF RunStarts, TypeOK
<1>4. CASE AgentActs
  BY <1>1, <1>4, LogPreserves DEF AgentActs, Store, TypeOK
<1>5. CASE RunEnds
  BY <1>1, <1>5, LogPreserves DEF RunEnds, TypeOK
<1>6. CASE RunNotSaved
  BY <1>1, <1>6, LogPreserves DEF RunNotSaved, NoRun, TypeOK
<1>7. CASE RunSaved
  <2>1. RunEvents \subseteq 1..stored
    BY <1>1 DEF RunEvents, TypeOK
  <2> QED
    BY <1>7, <2>1, PublishPreserves DEF RunSaved
<1>8. ASSUME NEW p \in saving, MessageSaved(p) PROVE IInv'
  <2>1. {p} \subseteq 1..stored
    BY DEF TypeOK
  <2> QED
    BY <1>8, <2>1, PublishPreserves DEF MessageSaved
<1>9. ASSUME NEW p \in saving, MessageNotSaved(p) PROVE IInv'
  BY <1>1, <1>9, LogPreserves DEF MessageNotSaved, TypeOK
<1>10. CASE ServerRestart
  BY <1>1, <1>10, ClosePreserves DEF ServerRestart
<1>11. CASE Disconnect
  BY <1>1, <1>11, ClosePreserves DEF Disconnect, eventVars
<1>12. CASE UNCHANGED vars
  BY <1>12, <1>1, LogPreserves DEF vars, eventVars, TypeOK
<1> QED
  BY <1>2, <1>3, <1>4, <1>5, <1>6, <1>7, <1>8, <1>9, <1>10, <1>11, <1>12,
     ConnectPreserves, ConnectAndResendPreserves, ReplayPreserves, GoLivePreserves DEF Next

(* The inductive invariant holds in every reachable state (SessionSocket).   *)
THEOREM Invariance == Spec => []IInv
<1>1. Init => IInv
  BY Initially
<1>2. IInv /\ [Next]_vars => IInv'
  BY NextPreserves
<1> QED
  BY <1>1, <1>2, PTL DEF Spec

(* Nothing falls between the replay and the live events, however the saves   *)
(* of messages and runs and the replay interleave (SessionSubscriber).       *)
THEOREM ReplaySafe == Spec => []NothingBetween
BY Invariance, PTL DEF IInv

(* A client that comes back for what follows its highest number has missed   *)
(* below it only what was published out of order (readAfterSeq).             *)
THEOREM MissedSafe == Spec => []MissedOnlyOvertaken
<1>1. IInv => MissedOnlyOvertaken
  <2> SUFFICES ASSUME IInv, NEW p \in 1..Highest PROVE p \in seen \cup overtaken
    BY DEF MissedOnlyOvertaken
  <2>1. Highest \in seen \cup {0}
    BY HighestIs DEF IInv
  <2> QED
    BY <2>1 DEF IInv, SeenSound
<1> QED
  BY <1>1, Invariance, PTL

LEMMA TwiceIsLate ==
    ASSUME IInv, [Next]_vars, NEW p \in twice' \ twice
    PROVE  p \notin published
<1>1. ASSUME NEW S, Publish(S) PROVE p \notin published
  BY <1>1 DEF Publish, Deliver, Receive, clientVars
<1>2. CASE Replay
  <2>1. p = conn.next /\ conn.next \in got
    BY <1>2 DEF Replay, Receive
  <2> QED
    BY <1>2, <2>1 DEF Replay, IInv, ReplaySound, TypeOK, Connection
<1>3. CASE GoLive
  <2>1. p \in Fresh /\ p \in got
    BY <1>3 DEF GoLive, Receive
  <2>2. conn.next = conn.through + 1 /\ conn.through \in Nat /\ conn.after \in Nat
    BY <1>3 DEF GoLive, IInv, ReplaySound, TypeOK, Connection
  <2>3. got = (conn.after + 1)..conn.through
    BY <1>3, <2>2 DEF GoLive, IInv, ReplaySound
  <2> QED
    BY <2>1, <2>2, <2>3 DEF Fresh
<1>4. CASE ConnectAndResend
  BY <1>4 DEF ConnectAndResend, Receive, IInv, AskedSound, Off
<1>5. CASE UNCHANGED twice \/ twice' = {}
  BY <1>5
<1> QED
  BY <1>1, <1>2, <1>3, <1>4, <1>5 DEF Next, vars, clientVars, Connect, Disconnect,
     MessageStored, RunStarts, AgentActs, RunEnds, RunSaved, RunNotSaved,
     MessageSaved, MessageNotSaved, ServerRestart

(* What was published before or during a replay comes once (goLive,          *)
(* publishEventOnce).                                                        *)
THEOREM TwiceSafe == Spec => TwiceOnlyIfLate
<1>1. IInv /\ [Next]_vars => [\A p \in twice' \ twice : p \notin published]_vars
  BY TwiceIsLate
<1> QED
  BY <1>1, Invariance, PTL DEF Spec, TwiceOnlyIfLate
================================================================================
