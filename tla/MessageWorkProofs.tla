--------------------------- MODULE MessageWorkProofs ---------------------------
(* Proofs of the safety properties of MessageWork, for every number of       *)
(* lanes, messages, workers, faults and repairs.                             *)
EXTENDS MessageWork, Sequences, TLAPS

(* The three families of row identities are told apart by their tag, and a   *)
(* receipt names its command (the source keys of completeCommand).           *)
LEMMA Identities ==
    /\ \A w \in WorkId : /\ Kind(w) \in {"intake", "delivery"}
                         /\ Kind(w) = "intake" <=> w \in IntakeId
    /\ \A i \in IntakeId : /\ i \in WorkId
                           /\ Receipt(i) \in ReceiptId
                           /\ Receipt(i) \in WorkId
                           /\ Receipt(i) \notin IntakeId
                           /\ Receipt(i) \notin EventId
                           /\ Kind(Receipt(i)) = "delivery"
                           /\ <<"intake", Receipt(i)[2]>> = i
    /\ \A i, j \in IntakeId : Receipt(i) = Receipt(j) => i = j
    /\ \A r \in ReceiptId : \E i \in IntakeId : r = Receipt(i)
  <1>1. \A i \in IntakeId : i = <<"intake", i[2]>> /\ i[2] \in IntakeKey
    BY DEF IntakeId
  <1>2. \A d \in EventId : d = <<"event", d[2]>> /\ d[2] \in EventKey
    BY DEF EventId
  <1>3. \A r \in ReceiptId : r = <<"receipt", r[2]>> /\ r[2] \in IntakeKey
    BY DEF ReceiptId
  <1>4. \A k \in IntakeKey : <<"intake", k>> \in IntakeId
                            /\ <<"receipt", k>> \in ReceiptId
    BY DEF IntakeId, ReceiptId
  <1>5. \A w \in WorkId : /\ Kind(w) \in {"intake", "delivery"}
                          /\ Kind(w) = "intake" <=> w \in IntakeId
    BY <1>1, <1>2, <1>3 DEF WorkId, Kind
  <1>6. ASSUME NEW i \in IntakeId
        PROVE  /\ i \in WorkId
               /\ Receipt(i) \in ReceiptId
               /\ Receipt(i) \in WorkId
               /\ Receipt(i) \notin IntakeId
               /\ Receipt(i) \notin EventId
               /\ Kind(Receipt(i)) = "delivery"
               /\ <<"intake", Receipt(i)[2]>> = i
    BY <1>1, <1>2, <1>4 DEF WorkId, Kind, Receipt
  <1>7. \A i, j \in IntakeId : Receipt(i) = Receipt(j) => i = j
    BY <1>1 DEF Receipt
  <1>8. \A r \in ReceiptId : \E i \in IntakeId : r = Receipt(i)
    BY <1>3, <1>4 DEF Receipt
  <1> QED
    BY <1>5, <1>6, <1>7, <1>8

(* An agent event is neither an inbound message nor a receipt.               *)
LEMMA EventTags ==
    \A d \in EventId : /\ Kind(d) = "delivery"
                       /\ \A i \in IntakeId : d # i /\ d # Receipt(i)
  BY DEF EventId, IntakeId, Kind, Receipt

(* While the rows of a queue are numbered without a gap, the next number is  *)
(* above all of them (the SELECT MAX(sequence) + 1 of insertWork).           *)
LEMMA MaxOfInterval ==
    ASSUME NEW n \in Nat
    PROVE  Max({0} \cup 1..n) = n
  <1> DEFINE S == {0} \cup 1..n
  <1>1. n \in S /\ \A y \in S : n >= y
    OBVIOUS
  <1>2. \A x \in S : (\A y \in S : x >= y) => x = n
    BY <1>1
  <1> QED
    BY <1>1, <1>2 DEF Max

LEMMA NextAbove ==
    ASSUME NEW kind, NEW l, NEW n \in Nat, Sequences(kind, l) = 1..n
    PROVE  NextSequence(kind, l) = n + 1
  BY MaxOfInterval DEF NextSequence

(* A step that keeps the lane and the number of every row keeps the queues.  *)
LEMMA QueuesKept ==
    ASSUME TypeOK,
           DOMAIN work' = DOMAIN work,
           \A w \in DOMAIN work : /\ work'[w].lane = work[w].lane
                                  /\ work'[w].sequence = work[w].sequence
    PROVE  /\ \A v, w \in DOMAIN work : SameQueue(v, w)' = SameQueue(v, w)
           /\ \A v, w \in DOMAIN work : Ahead(v, w)' = Ahead(v, w)
           /\ Numbered => Numbered'
  <1>1. \A v, w \in DOMAIN work : SameQueue(v, w)' = SameQueue(v, w)
    BY DEF SameQueue
  <1>2. \A v, w \in DOMAIN work : Ahead(v, w)' = Ahead(v, w)
    BY <1>1 DEF Ahead
  <1>3. ASSUME NEW kind \in {"intake", "delivery"}, NEW l \in Lane
        PROVE  Sequences(kind, l)' = Sequences(kind, l)
    BY DEF Sequences, Queue
  <1>4. ASSUME NEW kind \in {"intake", "delivery"}, NEW l \in Lane
        PROVE  NextSequence(kind, l)' = NextSequence(kind, l)
    BY <1>3 DEF NextSequence
  <1> QED
    BY <1>1, <1>2, <1>3, <1>4 DEF Numbered

(* A step on the rows of the table keeps the order of every lane when it     *)
(* keeps resolved rows resolved and claims heads only.                       *)
LEMMA OrderKept ==
    ASSUME Inv,
           DOMAIN work' = DOMAIN work,
           \A w \in DOMAIN work :
              /\ work'[w].lane = work[w].lane
              /\ work'[w].sequence = work[w].sequence
              /\ work[w].state \in Resolved => work'[w].state \in Resolved
              /\ work'[w].generation > 0 => work[w].generation > 0 \/ IsHead(w)
    PROVE  Numbered' /\ HeadOfLine'
  <1>1. TypeOK /\ Numbered /\ HeadOfLine
    BY DEF Inv
  <1>2. Numbered'
    BY <1>1, QueuesKept
  <1>3. \A v, w \in DOMAIN work : Ahead(v, w)' = Ahead(v, w)
    BY <1>1, QueuesKept
  <1>4. ASSUME NEW v \in DOMAIN work, NEW w \in DOMAIN work,
               Ahead(v, w)', work'[w].generation > 0
        PROVE  work'[v].state \in Resolved
    <2>1. Ahead(v, w)
      BY <1>3, <1>4
    <2>2. CASE work[w].generation > 0
      BY <2>1, <2>2, <1>1 DEF HeadOfLine
    <2>3. CASE IsHead(w)
      BY <2>1, <2>3 DEF IsHead
    <2> QED
      BY <1>4, <2>2, <2>3
  <1> QED
    BY <1>2, <1>4 DEF HeadOfLine

(* Initially both tables are empty.                                          *)
LEMMA InitInv == Init => Inv
  <1> SUFFICES ASSUME Init PROVE Inv
    OBVIOUS
  <1>1. DOMAIN work = {} /\ DOMAIN command = {}
    BY DEF Init
  <1>2. TypeOK
    BY <1>1 DEF Init, TypeOK
  <1>3. Numbered
    <2>1. ASSUME NEW kind \in {"intake", "delivery"}, NEW l \in Lane
          PROVE  /\ Sequences(kind, l) = 1..0
                 /\ NextSequence(kind, l) = 0 + 1
      <3>1. Sequences(kind, l) = {}
        BY <1>1 DEF Sequences, Queue
      <3>2. Sequences(kind, l) = 1..0
        BY <3>1
      <3>3. 0 \in Nat
        OBVIOUS
      <3>4. NextSequence(kind, l) = 0 + 1
        BY <3>2, <3>3, NextAbove
      <3> QED
        BY <3>2, <3>4
    <2>2. ASSUME NEW kind \in {"intake", "delivery"}, NEW l \in Lane
          PROVE  /\ NextSequence(kind, l) \in Nat \ {0}
                 /\ Sequences(kind, l) = 1..(NextSequence(kind, l) - 1)
      BY <2>1
    <2> QED
      BY <1>1, <2>2 DEF Numbered
  <1>4. EffectsSound
    BY <1>1 DEF Init, EffectsSound, Status
  <1>5. ClaimsSound
    BY DEF Init, ClaimsSound
  <1> QED
    BY <1>1, <1>2, <1>3, <1>4, <1>5
       DEF Inv, HeadOfLine, RowsSound, CommandJournal, ReceiptsSound

-------------------------------------------------------------------------------
(* Claims (claimReady).                                                      *)
LEMMA ClaimReadyInv ==
    ASSUME Inv, NEW kind, ClaimReady(kind)
    PROVE  Inv'
  <1> USE DEF Inv
  <1>1. PICK w \in DOMAIN work :
           /\ Kind(w) = kind
           /\ Claimable(w)
           /\ work' = [work EXCEPT ![w] = Claimed(@)]
           /\ claims' = claims \cup {[id |-> w, phase |-> "held",
                                      generation |-> work[w].generation + 1]}
           /\ UNCHANGED <<command, effects, requeues, faults>>
    BY DEF ClaimReady
  <1> DEFINE new == [id |-> w, phase |-> "held",
                     generation |-> work[w].generation + 1]
  <1>2. /\ w \in WorkId
        /\ work[w] \in Row
        /\ work[w].state = "ready"
        /\ IsHead(w)
    BY <1>1 DEF TypeOK, Claimable
  <1>3. /\ DOMAIN work' = DOMAIN work
        /\ \A v \in DOMAIN work : v # w => work'[v] = work[v]
        /\ work'[w] = [state |-> "claimed", lane |-> work[w].lane,
                       sequence |-> work[w].sequence,
                       generation |-> work[w].generation + 1,
                       attempts |-> work[w].attempts + 1,
                       sendAttempted |-> work[w].sendAttempted,
                       wait |-> work[w].wait, lease |-> ClaimTtl]
    BY <1>1, <1>2 DEF Claimed, Row
  <1>4. TypeOK'
    <2>1. work'[w] \in Row
      BY <1>2, <1>3, MessageWorkAssumption DEF Row, WorkState
    <2>2. new \in Claim
      BY <1>2 DEF Row, Claim
    <2> QED
      BY <1>1, <1>3, <2>1, <2>2 DEF TypeOK
  <1>5. Numbered' /\ HeadOfLine'
    BY <1>2, <1>3, OrderKept DEF Resolved
  <1>6. RowsSound'
    BY <1>2, <1>3 DEF RowsSound, Row
  <1>7. ~work'[w].sendAttempted /\ Status(w)' # "attempted"
    BY <1>1, <1>2, <1>3 DEF RowsSound, CommandJournal, Status
  <1>8. ClaimsSound'
    <2>1. ASSUME NEW c \in claims
          PROVE  /\ c.id \in DOMAIN work
                 /\ c.generation <= work'[c.id].generation
                 /\ c.id = w => c.generation < work[w].generation + 1
                 /\ Live(c)' <=> c.id # w /\ Live(c)
      BY <1>2, <1>3 DEF ClaimsSound, TypeOK, Row, Claim, Live
    <2>2. ASSUME NEW c \in claims
          PROVE  /\ c.phase = "sending" => Kind(c.id) = "delivery"
                 /\ c.phase = "performing" => c.id \in DOMAIN command
                 /\ Live(c)' => /\ work'[c.id].sendAttempted <=> c.phase = "sending"
                                /\ Status(c.id)' = "attempted" <=> c.phase = "performing"
      BY <1>1, <1>3, <2>1 DEF ClaimsSound, Status
    <2>3. /\ new.id \in DOMAIN work
          /\ new.generation <= work'[new.id].generation
          /\ new.phase = "held"
      BY <1>2, <1>3 DEF Row
    <2>4. \A c, d \in claims' : c.id = d.id /\ c.generation = d.generation => c = d
      BY <1>1, <2>1 DEF ClaimsSound, TypeOK, Claim, Row
    <2> QED
      BY <1>1, <1>3, <1>7, <2>1, <2>2, <2>3, <2>4 DEF ClaimsSound
  <1>9. EffectsSound'
    BY <1>1, <1>3 DEF EffectsSound, Status
  <1>10. CommandJournal'
    BY <1>1, <1>2, <1>3, Identities DEF CommandJournal, Status, TypeOK
  <1>11. ReceiptsSound'
    BY <1>1, <1>3 DEF ReceiptsSound
  <1> QED
    BY <1>4, <1>5, <1>6, <1>8, <1>9, <1>10, <1>11

-------------------------------------------------------------------------------
(* A new row is a row, whichever number it gets.                             *)
LEMMA NewRowType ==
    ASSUME NEW kind, NEW l \in Lane, NextSequence(kind, l) \in Nat \ {0}
    PROVE  NewRow(kind, l) \in Row
  BY DEF NewRow, Row, WorkState

(* Insertion (insertWork): new rows go to the end of their queues, at most   *)
(* one into each queue.                                                      *)
LEMMA RowsAdded ==
    ASSUME Inv,
           NEW New, NEW lane \in [New -> Lane],
           New \subseteq WorkId \ DOMAIN work,
           \A x, y \in New : Kind(x) = Kind(y) /\ lane[x] = lane[y] => x = y,
           DOMAIN work' = DOMAIN work \cup New,
           \A w \in DOMAIN work :
              /\ work'[w].lane = work[w].lane
              /\ work'[w].sequence = work[w].sequence
              /\ work[w].state \in Resolved => work'[w].state \in Resolved
              /\ work'[w].generation > 0 => work[w].generation > 0,
           \A x \in New : work'[x] = NewRow(Kind(x), lane[x])
    PROVE  /\ Numbered'
           /\ HeadOfLine'
           /\ \A x \in New : work'[x] \in Row
  <1> DEFINE K == {"intake", "delivery"}
  <1>1. TypeOK /\ Numbered
    BY DEF Inv
  <1>2. \A x \in New : Kind(x) \in K
    BY Identities
  <1>3. \A x \in New : /\ work'[x].lane = lane[x]
                      /\ work'[x].sequence = NextSequence(Kind(x), lane[x])
                      /\ NextSequence(Kind(x), lane[x]) \in Nat \ {0}
                      /\ work'[x] \in Row
    <2>1. ASSUME NEW x \in New
          PROVE  NextSequence(Kind(x), lane[x]) \in Nat \ {0}
      BY <1>1, <1>2 DEF Numbered
    <2>2. ASSUME NEW x \in New
          PROVE  /\ work'[x].lane = lane[x]
                 /\ work'[x].sequence = NextSequence(Kind(x), lane[x])
      BY DEF NewRow
    <2>3. ASSUME NEW x \in New
          PROVE  work'[x] \in Row
      <3>1. NewRow(Kind(x), lane[x]) \in Row
        BY <2>1, NewRowType
      <3> QED
        BY <3>1
    <2> QED
      BY <2>1, <2>2, <2>3
  <1>4. ASSUME NEW v \in DOMAIN work
        PROVE  /\ v \in WorkId
               /\ Kind(v) \in K
               /\ work[v].lane \in Lane
               /\ work[v].sequence \in 1..(NextSequence(Kind(v), work[v].lane) - 1)
    <2>1. v \in WorkId /\ Kind(v) \in K /\ work[v].lane \in Lane
      BY <1>1, Identities DEF TypeOK, Row
    <2>2. work[v].sequence \in Sequences(Kind(v), work[v].lane)
      BY DEF Sequences, Queue
    <2> QED
      BY <1>1, <2>1, <2>2 DEF Numbered
  <1>5. \A v, w \in DOMAIN work : SameQueue(v, w)' = SameQueue(v, w)
    BY DEF SameQueue
  <1>6. \A v, w \in DOMAIN work : Ahead(v, w)' = Ahead(v, w)
    BY <1>5 DEF Ahead
  <1>7. ASSUME NEW x \in New, NEW w \in DOMAIN work, SameQueue(x, w)'
        PROVE  work'[w].sequence < work'[x].sequence
    <2>1. Kind(x) = Kind(w) /\ lane[x] = work[w].lane
      BY <1>3, <1>7 DEF SameQueue
    <2> QED
      BY <1>3, <1>4, <2>1
  <1>8. \A x \in New, w \in DOMAIN work : ~Ahead(x, w)'
    BY <1>3, <1>4, <1>7 DEF Ahead
  <1>9. ASSUME NEW k \in K, NEW l \in Lane
        PROVE  /\ NextSequence(k, l)' \in Nat \ {0}
               /\ Sequences(k, l)' = 1..(NextSequence(k, l)' - 1)
    <2>1. PICK n \in Nat : /\ Sequences(k, l) = 1..n
                           /\ NextSequence(k, l) = n + 1
      <3>1. NextSequence(k, l) - 1 \in Nat
        BY <1>1 DEF Numbered
      <3> QED
        BY <1>1, <3>1 DEF Numbered
    <2>2. CASE \A x \in New : ~(Kind(x) = k /\ lane[x] = l)
      <3>1. Sequences(k, l)' = Sequences(k, l)
        BY <1>3, <2>2 DEF Sequences, Queue
      <3>2. NextSequence(k, l)' = NextSequence(k, l)
        BY <3>1 DEF NextSequence
      <3> QED
        BY <2>1, <3>1, <3>2
    <2>3. CASE \E x \in New : Kind(x) = k /\ lane[x] = l
      <3>1. PICK x \in New : Kind(x) = k /\ lane[x] = l
        BY <2>3
      <3>2. Queue(k, l)' = Queue(k, l) \cup {x}
        BY <1>3, <3>1 DEF Queue
      <3>3. Sequences(k, l)' = Sequences(k, l) \cup {n + 1}
        <4>1. work'[x].sequence = n + 1
          BY <1>3, <2>1, <3>1
        <4>2. \A v \in Queue(k, l) : work'[v].sequence = work[v].sequence
          BY DEF Queue
        <4> QED
          BY <3>2, <4>1, <4>2 DEF Sequences
      <3>4. Sequences(k, l)' = 1..(n + 1)
        BY <2>1, <3>3
      <3>5. NextSequence(k, l)' = 1 + (n + 1)
        BY <3>4, MaxOfInterval, n + 1 \in Nat DEF NextSequence
      <3> QED
        BY <2>1, <3>4, <3>5
    <2> QED
      BY <2>2, <2>3
  <1>10. ASSUME NEW v \in DOMAIN work', NEW w \in DOMAIN work',
                SameQueue(v, w)', work'[v].sequence = work'[w].sequence
         PROVE  v = w
    <2>1. CASE v \in DOMAIN work /\ w \in DOMAIN work
      BY <1>1, <1>5, <1>10, <2>1 DEF Numbered
    <2>2. CASE v \in New /\ w \in New
      BY <1>3, <1>10, <2>2 DEF SameQueue
    <2>3. CASE v \in New /\ w \in DOMAIN work
      BY <1>3, <1>4, <1>7, <1>10, <2>3
    <2>4. CASE v \in DOMAIN work /\ w \in New
      <3>1. SameQueue(w, v)'
        BY <1>10 DEF SameQueue
      <3> QED
        BY <1>3, <1>4, <1>7, <1>10, <2>4, <3>1
    <2> QED
      BY <2>1, <2>2, <2>3, <2>4
  <1>11. Numbered'
    BY <1>9, <1>10 DEF Numbered
  <1>12. ASSUME NEW v \in DOMAIN work', NEW w \in DOMAIN work',
                Ahead(v, w)', work'[w].generation > 0
         PROVE  work'[v].state \in Resolved
    <2>1. w \in DOMAIN work
      BY <1>12 DEF NewRow
    <2>2. v \in DOMAIN work
      BY <1>8, <1>12, <2>1
    <2>3. Ahead(v, w) /\ work[w].generation > 0
      BY <1>6, <1>12, <2>1, <2>2
    <2> QED
      BY <2>1, <2>2, <2>3 DEF Inv, HeadOfLine
  <1> QED
    BY <1>3, <1>11, <1>12 DEF HeadOfLine

(* acceptIntake.                                                             *)
LEMMA AcceptIntakeInv ==
    ASSUME Inv, NEW i \in IntakeId, NEW l \in Lane, NEW b \in BOOLEAN,
           AcceptIntake(i, l, b)
    PROVE  Inv'
  <1> USE DEF Inv
  <1>1. /\ i \notin DOMAIN work
        /\ DOMAIN work' = DOMAIN work \cup {i}
        /\ \A w \in DOMAIN work : work'[w] = work[w]
        /\ work'[i] = NewRow(Kind(i), l)
        /\ UNCHANGED <<claims, effects, requeues, faults>>
    BY DEF AcceptIntake, InsertWork
  <1>2. i \notin DOMAIN command /\ Receipt(i) \notin DOMAIN work
    BY <1>1 DEF CommandJournal, ReceiptsSound
  <1>3. /\ DOMAIN command' = IF b THEN DOMAIN command \cup {i} ELSE DOMAIN command
        /\ \A j \in DOMAIN command : command'[j] = command[j]
        /\ b => command'[i] = [status |-> "pending", deadline |-> 0]
    BY <1>2 DEF AcceptIntake
  <1>4. Numbered' /\ HeadOfLine' /\ work'[i] \in Row
    <2> DEFINE New  == {i}
               lane == [x \in New |-> l]
    <2>1. /\ lane \in [New -> Lane]
          /\ New \subseteq WorkId \ DOMAIN work
          /\ \A x, y \in New : Kind(x) = Kind(y) /\ lane[x] = lane[y] => x = y
          /\ \A x \in New : work'[x] = NewRow(Kind(x), lane[x])
      BY <1>1, Identities
    <2> HIDE DEF New, lane
    <2>2. DOMAIN work' = DOMAIN work \cup New
      BY <1>1 DEF New
    <2>3. Numbered' /\ HeadOfLine' /\ \A x \in New : work'[x] \in Row
      BY <1>1, <2>1, <2>2, RowsAdded
    <2> QED
      BY <2>3 DEF New
  <1>5. /\ work'[i].state = "ready"
        /\ work'[i].generation = 0
        /\ work'[i].sendAttempted = FALSE
    BY <1>1 DEF NewRow
  <1>6. TypeOK'
    <2>1. i \in WorkId
      BY Identities
    <2>2. \A j \in DOMAIN command' : command'[j] \in JournalEntry
      BY <1>3 DEF TypeOK, JournalEntry
    <2>3. command' = [j \in DOMAIN command' |-> command'[j]]
      BY DEF AcceptIntake, TypeOK
    <2>4. work' = [w \in DOMAIN work' |-> work'[w]]
      BY DEF AcceptIntake, InsertWork
    <2> QED
      BY <1>1, <1>3, <1>4, <2>1, <2>2, <2>3, <2>4 DEF TypeOK
  <1>7. RowsSound'
    BY <1>1, <1>5 DEF RowsSound
  <1>8. \A w \in WorkId : Status(w)' = IF b /\ w = i THEN "pending" ELSE Status(w)
    BY <1>2, <1>3 DEF Status
  <1>9. ClaimsSound'
    BY <1>1, <1>3, <1>5, <1>8 DEF ClaimsSound, Live, TypeOK, Claim
  <1>10. EffectsSound'
    <2>1. ASSUME NEW w \in WorkId, Kind(w) = "intake"
          PROVE  effects'[w] <= IF Status(w)' \in {"none", "pending"} THEN 0 ELSE 1
      BY <1>1, <1>2, <1>8, <2>1 DEF EffectsSound, Status
    <2>2. ASSUME NEW w \in WorkId, Kind(w) # "intake"
          PROVE  effects'[w] <= IF w \in DOMAIN work' /\ work'[w].sendAttempted
                                THEN 1 + requeues'[w] ELSE requeues'[w]
      BY <1>1, <1>5, <2>2 DEF EffectsSound
    <2> QED
      BY <2>1, <2>2 DEF EffectsSound
  <1>11. CommandJournal'
    <2>1. ASSUME NEW j \in DOMAIN command PROVE Receipt(j) # i
      BY Identities DEF TypeOK
    <2>2. \A j \in DOMAIN command : j # i /\ j \in DOMAIN work
      BY <1>2 DEF CommandJournal
    <2>3. \A j \in DOMAIN command : Status(j)' = Status(j)
      BY <1>3 DEF Status
    <2>4. b => Status(i)' = "pending"
      BY <1>3 DEF Status
    <2>5. Receipt(i) # i
      BY Identities
    <2> QED
      BY <1>1, <1>2, <1>3, <1>5, <2>1, <2>2, <2>3, <2>4, <2>5 DEF CommandJournal
  <1>12. ReceiptsSound'
    BY <1>1, <1>3, Identities DEF ReceiptsSound
  <1> QED
    BY <1>4, <1>6, <1>7, <1>9, <1>10, <1>11, <1>12

(* insertDelivery, called by the projector.                                  *)
LEMMA InsertDeliveryInv ==
    ASSUME Inv, NEW d \in EventId, NEW l \in Lane, InsertDelivery(d, l)
    PROVE  Inv'
  <1> USE DEF Inv
  <1>1. /\ d \notin DOMAIN work
        /\ DOMAIN work' = DOMAIN work \cup {d}
        /\ \A w \in DOMAIN work : work'[w] = work[w]
        /\ work'[d] = NewRow(Kind(d), l)
        /\ UNCHANGED <<command, claims, effects, requeues, faults>>
    BY DEF InsertDelivery, InsertWork
  <1>2. /\ d \in WorkId
        /\ Kind(d) = "delivery"
        /\ \A i \in IntakeId : d # i /\ d # Receipt(i)
    BY Identities, EventTags DEF WorkId
  <1>3. Numbered' /\ HeadOfLine' /\ work'[d] \in Row
    <2> DEFINE New  == {d}
               lane == [x \in New |-> l]
    <2>1. /\ lane \in [New -> Lane]
          /\ New \subseteq WorkId \ DOMAIN work
          /\ \A x, y \in New : Kind(x) = Kind(y) /\ lane[x] = lane[y] => x = y
          /\ \A x \in New : work'[x] = NewRow(Kind(x), lane[x])
      BY <1>1, <1>2
    <2> HIDE DEF New, lane
    <2>2. DOMAIN work' = DOMAIN work \cup New
      BY <1>1 DEF New
    <2>3. Numbered' /\ HeadOfLine' /\ \A x \in New : work'[x] \in Row
      BY <1>1, <2>1, <2>2, RowsAdded
    <2> QED
      BY <2>3 DEF New
  <1>4. /\ work'[d].state = "ready"
        /\ work'[d].generation = 0
        /\ work'[d].sendAttempted = FALSE
    BY <1>1 DEF NewRow
  <1>5. TypeOK'
    <2>1. work' = [w \in DOMAIN work' |-> work'[w]]
      BY DEF InsertDelivery, InsertWork
    <2> QED
      BY <1>1, <1>2, <1>3, <2>1 DEF TypeOK
  <1>6. RowsSound'
    BY <1>1, <1>4 DEF RowsSound
  <1>7. \A w \in WorkId : Status(w)' = Status(w)
    BY <1>1 DEF Status
  <1>8. ClaimsSound'
    BY <1>1, <1>4, <1>7 DEF ClaimsSound, Live, TypeOK, Claim
  <1>9. EffectsSound'
    BY <1>1, <1>4, <1>7 DEF EffectsSound
  <1>10. CommandJournal'
    BY <1>1, <1>2, <1>7, Identities DEF CommandJournal, TypeOK
  <1>11. ReceiptsSound'
    BY <1>1, <1>2 DEF ReceiptsSound
  <1> QED
    BY <1>3, <1>5, <1>6, <1>8, <1>9, <1>10, <1>11
-------------------------------------------------------------------------------
(* A step on one row that keeps its place in the queue.  What remains to be  *)
(* shown of such a step is how the claims and the history fit the new row.   *)
LEMMA OneRowStep ==
    ASSUME Inv,
           NEW w \in DOMAIN work, NEW r \in Row,
           work' = [work EXCEPT ![w] = r],
           r.lane = work[w].lane, r.sequence = work[w].sequence,
           r.generation > 0, work[w].generation > 0,
           work[w].state \notin Resolved,
           w \in DOMAIN command => r.state \in {"ready", "claimed", "retry_wait"},
           r.state = "claimed" => r.attempts > 0,
           r.sendAttempted => Kind(w) = "delivery"
                              /\ r.state \notin {"ready", "retry_wait"},
           UNCHANGED command, Status(w) # "attempted",
           claims' \in SUBSET Claim,
           effects' \in [WorkId -> Nat],
           requeues' \in [WorkId -> Nat],
           faults' \in Nat
    PROVE  /\ TypeOK' /\ Numbered' /\ HeadOfLine' /\ RowsSound'
           /\ CommandJournal' /\ ReceiptsSound'
           /\ DOMAIN work' = DOMAIN work
           /\ work'[w] = r
           /\ \A v \in DOMAIN work : v # w => work'[v] = work[v]
           /\ \A v \in WorkId : Status(v)' = Status(v)
  <1> USE DEF Inv
  <1>1. /\ DOMAIN work' = DOMAIN work
        /\ work'[w] = r
        /\ \A v \in DOMAIN work : v # w => work'[v] = work[v]
    BY DEF TypeOK
  <1>2. TypeOK'
    BY <1>1 DEF TypeOK
  <1>3. Numbered' /\ HeadOfLine'
    BY <1>1, OrderKept
  <1>4. RowsSound'
    BY <1>1 DEF RowsSound
  <1>5. \A v \in WorkId : Status(v)' = Status(v)
    BY DEF Status
  <1>6. CommandJournal'
    <2>1. ASSUME NEW i \in DOMAIN command, i = w
          PROVE  /\ Status(i)' = "pending"
                 /\ Receipt(i) \notin DOMAIN work
      BY <2>1, <1>5 DEF CommandJournal, TypeOK, Resolved
    <2>2. ASSUME NEW i \in DOMAIN command, i # w, Receipt(i) = w
          PROVE  work'[Receipt(i)].lane = work[Receipt(i)].lane
      BY <1>1, <2>2
    <2> QED
      BY <1>1, <1>5, <2>1, <2>2 DEF CommandJournal, TypeOK
  <1>7. ReceiptsSound'
    BY <1>1 DEF ReceiptsSound
  <1> QED
    BY <1>1, <1>2, <1>3, <1>4, <1>5, <1>6, <1>7

(* A step that gives up claims and leaves everything else alone: a crash, or *)
(* a worker whose claim turned out to be stale.                              *)
LEMMA ClaimsGivenUp ==
    ASSUME Inv,
           claims' \subseteq claims,
           UNCHANGED <<work, command, effects, requeues>>,
           faults' \in Nat
    PROVE  Inv'
  <1> USE DEF Inv
  <1>1. TypeOK'
    BY DEF TypeOK
  <1>2. Numbered' /\ HeadOfLine'
    BY OrderKept
  <1>3. ClaimsSound'
    BY DEF ClaimsSound, Live, Status
  <1>4. EffectsSound' /\ CommandJournal'
    BY DEF EffectsSound, CommandJournal, Status
  <1> QED
    BY <1>1, <1>2, <1>3, <1>4 DEF RowsSound, ReceiptsSound

(* A step that takes a row out of its worker's hands or repairs it: after it *)
(* no claim on the row is live, and a send is only forgotten by a requeue.   *)
LEMMA RowClosed ==
    ASSUME Inv,
           NEW w \in DOMAIN work, NEW r \in Row,
           work' = [work EXCEPT ![w] = r],
           r.lane = work[w].lane, r.sequence = work[w].sequence,
           r.generation >= work[w].generation, work[w].generation > 0,
           work[w].state \notin Resolved, r.state # "claimed",
           w \in DOMAIN command => r.state \in {"ready", "retry_wait"},
           r.sendAttempted => work[w].sendAttempted
                              /\ r.state \notin {"ready", "retry_wait"},
           Status(w) # "attempted",
           claims' \subseteq claims,
           UNCHANGED <<command, effects>>,
           requeues' \in [WorkId -> Nat],
           \A v \in WorkId : requeues'[v] >= requeues[v],
           work[w].sendAttempted /\ ~r.sendAttempted =>
              requeues'[w] >= 1 + requeues[w],
           faults' \in Nat
    PROVE  Inv'
  <1> USE DEF Inv
  <1>1. w \in WorkId /\ work[w] \in Row
    BY DEF TypeOK
  <1>2. r.generation > 0
    BY <1>1 DEF Row
  <1>3. /\ TypeOK' /\ Numbered' /\ HeadOfLine' /\ RowsSound'
        /\ CommandJournal' /\ ReceiptsSound'
        /\ DOMAIN work' = DOMAIN work
        /\ work'[w] = r
        /\ \A v \in DOMAIN work : v # w => work'[v] = work[v]
        /\ \A v \in WorkId : Status(v)' = Status(v)
    <2>1. r.sendAttempted => Kind(w) = "delivery"
      BY DEF RowsSound
    <2>2. claims' \in SUBSET Claim /\ effects' \in [WorkId -> Nat]
      BY DEF TypeOK
    <2> QED
      BY <1>2, <2>1, <2>2, OneRowStep
  <1>4. ClaimsSound'
    <2>1. ASSUME NEW c \in claims
          PROVE  /\ c.id \in DOMAIN work'
                 /\ c.generation <= work'[c.id].generation
                 /\ Live(c)' => c.id # w /\ Live(c)
      BY <1>1, <1>3 DEF ClaimsSound, TypeOK, Claim, Row, Live
    <2>2. \A c \in claims : c.id \in WorkId
      BY DEF TypeOK, Claim
    <2> QED
      BY <1>3, <2>1, <2>2 DEF ClaimsSound
  <1>5. EffectsSound'
    <2>1. ASSUME NEW v \in WorkId, Kind(v) = "intake"
          PROVE  effects'[v] <= IF Status(v)' \in {"none", "pending"} THEN 0 ELSE 1
      BY <1>3, <2>1 DEF EffectsSound
    <2>2. ASSUME NEW v \in WorkId, Kind(v) # "intake"
          PROVE  effects'[v] <= IF v \in DOMAIN work' /\ work'[v].sendAttempted
                                THEN 1 + requeues'[v] ELSE requeues'[v]
      <3>1. effects[v] <= IF v \in DOMAIN work /\ work[v].sendAttempted
                          THEN 1 + requeues[v] ELSE requeues[v]
        BY <2>2 DEF EffectsSound
      <3>2. /\ effects'[v] = effects[v]
            /\ effects[v] \in Nat /\ requeues[v] \in Nat /\ requeues'[v] \in Nat
            /\ requeues'[v] >= requeues[v]
        BY DEF TypeOK
      <3>3. CASE v = w
        BY <1>3, <3>1, <3>2, <3>3
      <3>4. CASE v # w
        BY <1>3, <3>1, <3>2, <3>4
      <3> QED
        BY <3>3, <3>4
    <2> QED
      BY <2>1, <2>2 DEF EffectsSound
  <1> QED
    BY <1>3, <1>4, <1>5

(* The phase of a live claim says what its row and its command went through. *)
LEMMA LiveClaim ==
    ASSUME Inv, NEW c \in claims, Live(c)
    PROVE  /\ c \in Claim
           /\ c.id \in DOMAIN work /\ c.id \in WorkId
           /\ work[c.id] \in Row
           /\ work[c.id].state = "claimed"
           /\ work[c.id].generation = c.generation
           /\ work[c.id].generation > 0
           /\ work[c.id].attempts > 0
           /\ work[c.id].sendAttempted <=> c.phase = "sending"
           /\ Status(c.id) = "attempted" <=> c.phase = "performing"
           /\ c.id \in DOMAIN command =>
                 Kind(c.id) = "intake" /\ Status(c.id) \in {"pending", "attempted"}
  <1>1. /\ c \in Claim /\ c.id \in DOMAIN work /\ c.id \in WorkId
        /\ work[c.id] \in Row
    BY DEF Inv, TypeOK, Live, Claim
  <1>2. c.id \in DOMAIN command =>
           Kind(c.id) = "intake" /\ Status(c.id) \in {"pending", "attempted"}
    BY <1>1, Identities DEF Inv, CommandJournal, TypeOK, Live
  <1> QED
    BY <1>1, <1>2 DEF Inv, RowsSound, ClaimsSound, Live

(* settle.                                                                   *)
LEMMA SettledRow ==
    ASSUME NEW row \in Row, row.state = "claimed", row.attempts > 0,
           NEW outcome \in {"done", "retry", "fail", "delivery_unknown"}
    PROVE  /\ Settled(row, outcome) \in Row
           /\ Settled(row, outcome).lane = row.lane
           /\ Settled(row, outcome).sequence = row.sequence
           /\ Settled(row, outcome).generation = row.generation
           /\ Settled(row, outcome).sendAttempted = row.sendAttempted
           /\ Settled(row, outcome).state = SettledState(row, outcome)
  <1>1. SettledState(row, outcome) \in WorkState
    BY DEF SettledState, WorkState
  <1>2. SettledState(row, outcome) = "retry_wait" => row.attempts < MaxAttempts
    BY DEF SettledState
  <1>3. SettledState(row, outcome) = "retry_wait" => Backoff[row.attempts] \in Nat
    BY <1>2, MessageWorkAssumption DEF Row
  <1> QED
    BY <1>1, <1>3 DEF Settled, Row

(* The worker of a command settles it for a retry or rejects it, and nothing *)
(* else: it never leaves a command done or failed without a receipt.         *)
LEMMA SettleInv ==
    ASSUME Inv, NEW c \in claims,
           NEW outcome \in {"done", "retry", "fail", "delivery_unknown"},
           c.phase # "performing",
           c.phase = "sending" => outcome \in {"done", "delivery_unknown"},
           c.id \in DOMAIN command => outcome \in {"retry", "fail"},
           Live(c), ~RejectsCommand(c.id, outcome),
           work' = [work EXCEPT ![c.id] = Settled(@, outcome)],
           claims' = claims \ {c},
           UNCHANGED <<command, effects, requeues, faults>>
    PROVE  Inv'
  <1> DEFINE w == c.id
             r == Settled(work[w], outcome)
  <1>1. /\ w \in DOMAIN work /\ w \in WorkId
        /\ work[w] \in Row
        /\ work[w].state = "claimed"
        /\ work[w].generation > 0
        /\ work[w].attempts > 0
        /\ Status(w) # "attempted"
        /\ work[w].sendAttempted <=> c.phase = "sending"
        /\ w \in DOMAIN command => Status(w) = "pending"
    BY LiveClaim
  <1>2. /\ r \in Row
        /\ r.lane = work[w].lane /\ r.sequence = work[w].sequence
        /\ r.generation = work[w].generation
        /\ r.sendAttempted = work[w].sendAttempted
        /\ r.state = SettledState(work[w], outcome)
    BY <1>1, SettledRow
  <1> HIDE DEF r
  <1>3. work' = [work EXCEPT ![w] = r]
    BY DEF r
  <1>4. w \in DOMAIN command => r.state = "retry_wait"
    BY <1>1, <1>2, MessageWorkAssumption DEF RejectsCommand, SettledState, Row
  <1>5. /\ r.generation >= work[w].generation
        /\ work[w].state \notin Resolved /\ r.state # "claimed"
        /\ r.sendAttempted => r.state \notin {"ready", "retry_wait"}
    BY <1>1, <1>2 DEF Resolved, Row, SettledState
  <1>6. /\ claims' \subseteq claims
        /\ requeues' \in [WorkId -> Nat]
        /\ \A v \in WorkId : requeues'[v] >= requeues[v]
        /\ faults' \in Nat
    BY DEF Inv, TypeOK
  <1> HIDE DEF w
  <1> QED
    BY <1>1, <1>2, <1>3, <1>4, <1>5, <1>6, RowClosed

-------------------------------------------------------------------------------
(* reconcile, on one row: a lapsed claim is taken back, or its outcome       *)
(* declared unknown when the send may have happened.                         *)
LEMMA SweptRow ==
    ASSUME NEW w, NEW row \in Row
    PROVE  /\ Swept(w, row) \in Row
           /\ Swept(w, row).lane = row.lane
           /\ Swept(w, row).sequence = row.sequence
           /\ Swept(w, row).attempts = row.attempts
           /\ Swept(w, row).sendAttempted = row.sendAttempted
           /\ \/ Swept(w, row) = row
              \/ /\ row.state = "claimed" /\ row.lease = 0
                 /\ Swept(w, row).generation = row.generation + 1
                 /\ Swept(w, row).state =
                       IF Kind(w) = "delivery" /\ row.sendAttempted
                       THEN "delivery_unknown" ELSE "ready"
              \/ /\ row.state = "retry_wait"
                 /\ Swept(w, row).generation = row.generation
                 /\ Swept(w, row).state = "ready"
  <1>1. CASE row.state = "claimed" /\ row.lease = 0
    <2>1. PICK s \in {"delivery_unknown", "ready"} :
             s = IF Kind(w) = "delivery" /\ row.sendAttempted
                 THEN "delivery_unknown" ELSE "ready"
      OBVIOUS
    <2>2. Swept(w, row) = [row EXCEPT !.generation = @ + 1, !.state = s]
      BY <1>1, <2>1 DEF Swept
    <2> s \in WorkState /\ row.generation + 1 \in Nat
      BY DEF WorkState, Row
    <2>3. /\ Swept(w, row) \in Row
          /\ Swept(w, row).lane = row.lane
          /\ Swept(w, row).sequence = row.sequence
          /\ Swept(w, row).attempts = row.attempts
          /\ Swept(w, row).sendAttempted = row.sendAttempted
          /\ Swept(w, row).generation = row.generation + 1
          /\ Swept(w, row).state = s
      BY <2>2 DEF Row
    <2> QED
      BY <1>1, <2>1, <2>3
  <1>2. CASE row.state = "retry_wait" /\ row.wait = 0
    <2>1. Swept(w, row) = [row EXCEPT !.state = "ready"]
      BY <1>2 DEF Swept
    <2> QED
      BY <1>2, <2>1 DEF Row, WorkState
  <1>3. CASE /\ ~(row.state = "claimed" /\ row.lease = 0)
             /\ ~(row.state = "retry_wait" /\ row.wait = 0)
    BY <1>3 DEF Swept
  <1> QED
    BY <1>1, <1>2, <1>3

(* Two commands that were both claimed are never in the same lane, so the    *)
(* receipts of one transaction go to different queues.                       *)
LEMMA OneCommandPerLane ==
    ASSUME Inv,
           NEW i \in DOMAIN command, NEW j \in DOMAIN command,
           work[i].state = "claimed", work[j].state = "claimed",
           work[i].lane = work[j].lane
    PROVE  i = j
  <1>1. /\ i \in DOMAIN work /\ j \in DOMAIN work
        /\ Kind(i) = "intake" /\ Kind(j) = "intake"
    BY Identities DEF Inv, CommandJournal, TypeOK
  <1>2. SameQueue(i, j) /\ SameQueue(j, i)
    BY <1>1 DEF SameQueue
  <1>3. work[i].generation > 0 /\ work[j].generation > 0
    BY <1>1 DEF Inv, RowsSound
  <1>4. ~Ahead(i, j) /\ ~Ahead(j, i)
    BY <1>1, <1>3 DEF Inv, HeadOfLine, Resolved
  <1>5. work[i].sequence = work[j].sequence
    BY <1>1, <1>2, <1>4 DEF Ahead, Inv, TypeOK, Row
  <1> QED
    BY <1>1, <1>2, <1>5 DEF Inv, Numbered

(* A step that completes the commands in S, followed by the sweep or not.    *)
Completes(S, result) ==
    /\ S \subseteq DOMAIN command
    /\ result \in [S -> CommandResult]
    /\ \A i \in S : work[i].state = "claimed"
    /\ DOMAIN work' = DOMAIN CompletedWork(S)
    /\ \A w \in DOMAIN work' : \/ work'[w] = CompletedWork(S)[w]
                               \/ work'[w] = Swept(w, CompletedWork(S)[w])
    /\ work' = [w \in DOMAIN work' |-> work'[w]]
    /\ \A i \in DOMAIN command \ S :
          Status(i) = "attempted" => work'[i] = work[i]
    /\ command' = CompletedJournal(result)

(* What completing commands does to a row, with the sweep after it or not.   *)
LEMMA CompletedRow ==
    ASSUME Inv, NEW S, NEW result, Completes(S, result)
    PROVE  /\ DOMAIN work' = DOMAIN work \cup {Receipt(i) : i \in S}
           /\ \A i \in S :
                 /\ i \in DOMAIN work
                 /\ work'[i] = [work[i] EXCEPT !.state = "done",
                                               !.generation = @ + 1, !.lease = 0]
                 /\ Receipt(i) \notin DOMAIN work
                 /\ work'[Receipt(i)] = NewRow("delivery", work[i].lane)
           /\ \A w \in DOMAIN work \ S :
                 work'[w] = work[w] \/ work'[w] = Swept(w, work[w])
  <1> DEFINE T == CompletedWork(S)
  <1>1. DOMAIN T = DOMAIN work \cup {Receipt(i) : i \in S}
    BY DEF CompletedWork
  <1> USE DEF Completes
  <1>2. \A i \in S : /\ i \in IntakeId /\ i \in DOMAIN work
                    /\ Receipt(i) \notin DOMAIN work
                    /\ Receipt(i) \notin S
                    /\ <<"intake", Receipt(i)[2]>> = i
    BY Identities DEF Inv, CommandJournal, TypeOK, CommandResult
  <1>3. ASSUME NEW i \in S
        PROVE  /\ work'[i] = [work[i] EXCEPT !.state = "done",
                                             !.generation = @ + 1, !.lease = 0]
               /\ work'[Receipt(i)] = NewRow("delivery", work[i].lane)
    <2>1. T[i] = [work[i] EXCEPT !.state = "done",
                                 !.generation = @ + 1, !.lease = 0]
      BY <1>2 DEF CompletedWork
    <2>2. T[i].state = "done"
      BY <1>2, <2>1 DEF Inv, TypeOK, Row
    <2>3. Swept(i, T[i]) = T[i]
      BY <2>2 DEF Swept
    <2>4. T[Receipt(i)] = NewRow("delivery", work[i].lane)
      BY <1>2 DEF CompletedWork
    <2>5. Swept(Receipt(i), T[Receipt(i)]) = T[Receipt(i)]
      <3>1. T[Receipt(i)].state = "ready"
        BY <2>4 DEF NewRow
      <3> QED
        BY <3>1 DEF Swept
    <2> QED
      BY <1>1, <1>2, <2>1, <2>3, <2>4, <2>5
  <1>4. \A w \in DOMAIN work \ S : T[w] = work[w]
    BY DEF CompletedWork
  <1> QED
    BY <1>1, <1>2, <1>3, <1>4

(* The UPDATE of completeCommand.                                            *)
LEMMA DoneRow ==
    ASSUME NEW row \in Row, NEW new,
           new = [row EXCEPT !.state = "done", !.generation = @ + 1, !.lease = 0]
    PROVE  /\ new \in Row
           /\ new.state = "done"
           /\ new.lane = row.lane
           /\ new.sequence = row.sequence
           /\ new.generation = row.generation + 1
           /\ new.attempts = row.attempts
           /\ new.sendAttempted = row.sendAttempted
  <1>1. row.generation + 1 \in Nat /\ "done" \in WorkState
    BY DEF Row, WorkState
  <1> QED
    BY <1>1 DEF Row

(* completeCommand, for the worker's outcome or for the sweep's: the         *)
(* outcome, the receipt and the end of the intake row are one step.          *)
LEMMA CompletionInv ==
    ASSUME Inv, NEW S, NEW result, Completes(S, result),
           claims' \subseteq claims,
           UNCHANGED <<effects, requeues>>,
           faults' \in Nat
    PROVE  Inv'
  <1> DEFINE Receipts == {Receipt(i) : i \in S}
  <1>0. /\ S \subseteq DOMAIN command
        /\ result \in [S -> CommandResult]
        /\ \A i \in S : work[i].state = "claimed"
    BY DEF Completes
  <1>1. TypeOK /\ Numbered /\ HeadOfLine /\ RowsSound /\ ClaimsSound
        /\ EffectsSound /\ CommandJournal /\ ReceiptsSound
    BY DEF Inv
  <1>2. /\ DOMAIN work' = DOMAIN work \cup Receipts
        /\ \A i \in S :
              /\ i \in DOMAIN work
              /\ work'[i] = [work[i] EXCEPT !.state = "done",
                                            !.generation = @ + 1, !.lease = 0]
              /\ Receipt(i) \notin DOMAIN work
              /\ work'[Receipt(i)] = NewRow("delivery", work[i].lane)
        /\ \A w \in DOMAIN work \ S :
              work'[w] = work[w] \/ work'[w] = Swept(w, work[w])
    BY CompletedRow
  <1> HIDE DEF Receipts
  <1>3. /\ \A w \in DOMAIN work : w \in WorkId /\ work[w] \in Row
        /\ S \subseteq IntakeId
        /\ DOMAIN command \subseteq IntakeId
    BY <1>0, <1>1 DEF TypeOK
  <1>4. ASSUME NEW i \in S
        PROVE  /\ work'[i] \in Row
               /\ work'[i].state = "done"
               /\ work'[i].lane = work[i].lane
               /\ work'[i].sequence = work[i].sequence
               /\ work'[i].generation = work[i].generation + 1
               /\ work'[i].attempts = work[i].attempts
               /\ work'[i].sendAttempted = work[i].sendAttempted
    <2>1. work[i] \in Row
      BY <1>2, <1>3
    <2>2. work'[i] = [work[i] EXCEPT !.state = "done",
                                     !.generation = @ + 1, !.lease = 0]
      BY <1>2
    <2> QED
      BY <2>1, <2>2, DoneRow
  <1>5. ASSUME NEW w \in DOMAIN work \ S
        PROVE  /\ work'[w] \in Row
               /\ work'[w].lane = work[w].lane
               /\ work'[w].sequence = work[w].sequence
               /\ work'[w].attempts = work[w].attempts
               /\ work'[w].sendAttempted = work[w].sendAttempted
               /\ \/ work'[w] = work[w]
                  \/ /\ work[w].state = "claimed"
                     /\ work'[w].generation = work[w].generation + 1
                     /\ work'[w].state =
                           IF Kind(w) = "delivery" /\ work[w].sendAttempted
                           THEN "delivery_unknown" ELSE "ready"
                  \/ /\ work[w].state = "retry_wait"
                     /\ work'[w].generation = work[w].generation
                     /\ work'[w].state = "ready"
    <2>1. work[w] \in Row /\ (work'[w] = work[w] \/ work'[w] = Swept(w, work[w]))
      BY <1>2, <1>3
    <2>2. CASE work'[w] = work[w]
      BY <2>1, <2>2
    <2>3. CASE work'[w] = Swept(w, work[w])
      BY <2>1, <2>3, SweptRow
    <2> QED
      BY <2>1, <2>2, <2>3
  <1>6. \A w \in DOMAIN work :
           /\ work'[w].lane = work[w].lane
           /\ work'[w].sequence = work[w].sequence
           /\ work[w].state \in Resolved => work'[w].state \in Resolved
           /\ work'[w].generation >= work[w].generation
           /\ work'[w].generation > 0 => work[w].generation > 0
           /\ work'[w].sendAttempted = work[w].sendAttempted
           /\ work'[w].state = "claimed" => work'[w] = work[w]
    <2>1. \A w \in S : work[w].generation > 0
      BY <1>0, <1>1, <1>2 DEF RowsSound
    <2>2. \A w \in DOMAIN work \ S :
             work[w].state = "claimed" => work[w].generation > 0
      BY <1>1 DEF RowsSound
    <2>3. \A w \in DOMAIN work : work[w].generation \in Nat
      BY <1>3 DEF Row
    <2>4. \A w \in S : work[w].state = "claimed"
      BY <1>0
    <2>5. ASSUME NEW w \in S
          PROVE  /\ work[w].state \in Resolved => work'[w].state \in Resolved
                 /\ work'[w].generation >= work[w].generation
                 /\ work'[w].state # "claimed"
      <3>1. w \in DOMAIN work /\ work[w].generation \in Nat
        BY <1>2, <2>3
      <3>2. work'[w].state = "done" /\ work'[w].generation = work[w].generation + 1
        BY <1>4
      <3> QED
        BY <3>1, <3>2 DEF Resolved
    <2>6. ASSUME NEW w \in DOMAIN work \ S
          PROVE  /\ work[w].state \in Resolved => work'[w].state \in Resolved
                 /\ work'[w].generation >= work[w].generation
                 /\ work'[w].generation > 0 => work[w].generation > 0
                 /\ work'[w].state = "claimed" => work'[w] = work[w]
      BY <1>5, <2>2, <2>3 DEF Resolved
    <2> QED
      BY <1>4, <1>5, <2>1, <2>5, <2>6
  <1>7. ASSUME NEW x \in Receipts
        PROVE  /\ x \notin DOMAIN work
               /\ x \in WorkId
               /\ Kind(x) = "delivery"
               /\ work'[x].state = "ready"
               /\ work'[x].generation = 0
               /\ work'[x].sendAttempted = FALSE
               /\ <<"intake", x[2]>> \in S
               /\ x = Receipt(<<"intake", x[2]>>)
               /\ work[<<"intake", x[2]>>].lane \in Lane
               /\ work'[x] = NewRow("delivery", work[<<"intake", x[2]>>].lane)
    <2>1. PICK i \in S : x = Receipt(i)
      BY DEF Receipts
    <2>2. <<"intake", x[2]>> = i /\ x \in WorkId /\ Kind(x) = "delivery"
      BY <1>3, <2>1, Identities
    <2>3. /\ i \in DOMAIN work /\ x \notin DOMAIN work
          /\ work'[x] = NewRow("delivery", work[i].lane)
      BY <1>2, <2>1
    <2>4. work[i].lane \in Lane
      BY <1>3, <2>3 DEF Row
    <2>5. /\ work'[x].state = "ready"
          /\ work'[x].generation = 0
          /\ work'[x].sendAttempted = FALSE
      BY <2>3 DEF NewRow
    <2> QED
      BY <2>1, <2>2, <2>3, <2>4, <2>5
  <1>8. Numbered' /\ HeadOfLine' /\ \A x \in Receipts : work'[x] \in Row
    <2> DEFINE lane == [x \in Receipts |-> work[<<"intake", x[2]>>].lane]
    <2>1. lane \in [Receipts -> Lane]
      BY <1>7
    <2>2. Receipts \subseteq WorkId \ DOMAIN work
      BY <1>7
    <2>3. ASSUME NEW x \in Receipts, NEW y \in Receipts, lane[x] = lane[y]
          PROVE  x = y
      <3>1. PICK i \in S, j \in S :
               /\ i = <<"intake", x[2]>> /\ j = <<"intake", y[2]>>
               /\ x = Receipt(i) /\ y = Receipt(j)
        BY <1>7
      <3>2. work[i].lane = work[j].lane
        BY <2>3, <3>1
      <3>3. i = j
        BY <1>0, <3>2, OneCommandPerLane
      <3> QED
        BY <3>1, <3>3
    <2>4. \A x \in Receipts : work'[x] = NewRow(Kind(x), lane[x])
      BY <1>7
    <2> HIDE DEF lane
    <2>5. DOMAIN work' = DOMAIN work \cup Receipts
      BY <1>2
    <2>6. \A x, y \in Receipts :
             Kind(x) = Kind(y) /\ lane[x] = lane[y] => x = y
      BY <2>3
    <2>7. \A w \in DOMAIN work :
             /\ work'[w].lane = work[w].lane
             /\ work'[w].sequence = work[w].sequence
             /\ work[w].state \in Resolved => work'[w].state \in Resolved
             /\ work'[w].generation > 0 => work[w].generation > 0
      BY <1>6
    <2> QED
      BY <2>1, <2>2, <2>4, <2>5, <2>6, <2>7, RowsAdded
  <1>9. /\ DOMAIN command' = DOMAIN command
        /\ \A i \in S : command'[i] = [status |-> result[i], deadline |-> 0]
        /\ \A i \in DOMAIN command \ S : command'[i] = command[i]
    BY <1>0 DEF Completes, CompletedJournal
  <1>10. TypeOK'
    <2>1. \A w \in DOMAIN work' : w \in WorkId /\ work'[w] \in Row
      BY <1>2, <1>3, <1>4, <1>5, <1>7, <1>8
    <2>2. \A i \in DOMAIN command' : command'[i] \in JournalEntry
      <3>1. \A i \in S : result[i] \in CommandResult
        BY <1>0
      <3>2. ASSUME NEW i \in S
            PROVE  command'[i] \in JournalEntry
        <4>1. command'[i] = [status |-> result[i], deadline |-> 0]
          BY <1>9
        <4>2. result[i] \in CommandResult /\ 0 \in Nat
          BY <3>1
        <4> QED
          BY <4>1, <4>2 DEF JournalEntry
      <3>3. \A i \in DOMAIN command \ S : command'[i] \in JournalEntry
        BY <1>1, <1>9 DEF TypeOK
      <3> QED
        BY <1>9, <3>2, <3>3
    <2>3. command' = [i \in DOMAIN command' |-> command'[i]]
      BY DEF Completes, CompletedJournal
    <2>4. work' = [w \in DOMAIN work' |-> work'[w]]
      BY DEF Completes
    <2> QED
      BY <1>1, <1>9, <2>4, <2>1, <2>2, <2>3 DEF TypeOK
  <1>11. RowsSound'
    <2>1. ASSUME NEW w \in S
          PROVE  /\ work'[w].generation > 0
                 /\ work'[w].state = "done"
                 /\ work'[w].sendAttempted => Kind(w) = "delivery"
      <3>1. w \in DOMAIN work /\ work[w].state = "claimed"
        BY <1>0, <1>2
      <3>2. work[w].generation \in Nat
        BY <1>3, <3>1 DEF Row
      <3> QED
        BY <1>1, <1>4, <3>1, <3>2 DEF RowsSound
    <2>2. ASSUME NEW w \in DOMAIN work \ S
          PROVE  /\ work'[w].state # "ready" => work'[w].generation > 0
                 /\ work'[w].state = "claimed" => work'[w].attempts > 0
                 /\ work'[w].sendAttempted =>
                       /\ Kind(w) = "delivery"
                       /\ work'[w].state \notin {"ready", "retry_wait"}
      BY <1>1, <1>3, <1>5 DEF RowsSound, Row
    <2> QED
      BY <1>2, <1>7, <2>1, <2>2 DEF RowsSound
  <1>12. /\ \A i \in S : Status(i)' = result[i] /\ Status(i)' \in CommandResult
         /\ \A w \in WorkId \ S : Status(w)' = Status(w)
    <2>1. \A i \in S : result[i] \in CommandResult
      BY <1>0
    <2>2. ASSUME NEW i \in S
          PROVE  i \in DOMAIN command' /\ command'[i].status = result[i]
      <3>1. command'[i] = [status |-> result[i], deadline |-> 0]
        BY <1>9
      <3>2. i \in DOMAIN command'
        BY <1>0, <1>9
      <3> QED
        BY <3>1, <3>2
    <2> QED
      BY <1>9, <2>1, <2>2 DEF Status
  <1>13. ClaimsSound'
    <2>1. ASSUME NEW c \in claims
          PROVE  /\ c.id \in DOMAIN work /\ c.id \in DOMAIN work'
                 /\ c.generation <= work'[c.id].generation
      <3>1. /\ c.id \in DOMAIN work /\ c.generation \in Nat
            /\ c.generation <= work[c.id].generation
        BY <1>1 DEF ClaimsSound, TypeOK, Claim
      <3>2. /\ work'[c.id].generation >= work[c.id].generation
            /\ work[c.id].generation \in Nat
        BY <1>3, <1>6, <3>1 DEF Row
      <3>3. work'[c.id] \in Row
        BY <1>4, <1>5, <3>1
      <3>4. c.id \in DOMAIN work'
        BY <1>2, <3>1
      <3>5. work'[c.id].generation \in Nat
        BY <3>3 DEF Row
      <3> QED
        BY <3>1, <3>2, <3>4, <3>5
    <2>2. ASSUME NEW c \in claims, Live(c)'
          PROVE  /\ Live(c)
                 /\ work'[c.id].sendAttempted = work[c.id].sendAttempted
                 /\ Status(c.id)' = Status(c.id)
      <3>1. work'[c.id] = work[c.id] /\ Live(c)
        BY <1>6, <2>1, <2>2 DEF Live
      <3>2. c.id \notin S
        BY <1>4, <2>2 DEF Live
      <3> QED
        BY <1>3, <1>12, <2>1, <3>1, <3>2
    <2>3. ASSUME NEW c \in claims
          PROVE  /\ c.phase = "sending" => Kind(c.id) = "delivery"
                 /\ c.phase = "performing" => c.id \in DOMAIN command'
      BY <1>1, <1>9 DEF ClaimsSound
    <2> QED
      BY <1>1, <2>1, <2>2, <2>3 DEF ClaimsSound
  <1>14. EffectsSound'
    <2>1. ASSUME NEW w \in WorkId, Kind(w) = "intake"
          PROVE  effects'[w] <= IF Status(w)' \in {"none", "pending"} THEN 0 ELSE 1
      <3>1. effects[w] <= IF Status(w) \in {"none", "pending"} THEN 0 ELSE 1
        BY <1>1, <2>1 DEF EffectsSound
      <3>2. effects[w] \in Nat
        BY <1>1 DEF TypeOK
      <3>3. w \in S => Status(w)' \notin {"none", "pending"}
        BY <1>12 DEF CommandResult
      <3>4. w \notin S => Status(w)' = Status(w)
        BY <1>12
      <3> QED
        BY <3>1, <3>2, <3>3, <3>4
    <2>2. ASSUME NEW w \in WorkId, Kind(w) # "intake"
          PROVE  effects'[w] <= IF w \in DOMAIN work' /\ work'[w].sendAttempted
                                THEN 1 + requeues'[w] ELSE requeues'[w]
      <3>1. (w \in DOMAIN work' /\ work'[w].sendAttempted)
               <=> (w \in DOMAIN work /\ work[w].sendAttempted)
        BY <1>2, <1>6, <1>7
      <3> QED
        BY <1>1, <2>2, <3>1 DEF EffectsSound
    <2> QED
      BY <2>1, <2>2 DEF EffectsSound
  <1>15. CommandJournal'
    <2>1. ASSUME NEW i \in S
          PROVE  /\ i \in DOMAIN work'
                 /\ Status(i)' \in CommandResult
                 /\ work'[i].state = "done"
                 /\ Receipt(i) \in DOMAIN work'
                 /\ work'[Receipt(i)].lane = work'[i].lane
      <3>1. work'[Receipt(i)] = NewRow("delivery", work[i].lane)
        BY <1>2
      <3>2. work'[Receipt(i)].lane = work[i].lane
        BY <3>1 DEF NewRow
      <3>3. Receipt(i) \in Receipts
        BY DEF Receipts
      <3> QED
        BY <1>2, <1>4, <1>12, <3>2, <3>3
    <2>2. ASSUME NEW i \in DOMAIN command \ S, Status(i) \in CommandResult
          PROVE  /\ i \in DOMAIN work'
                 /\ Status(i)' \in CommandResult
                 /\ work'[i].state = "done"
                 /\ Receipt(i) \in DOMAIN work'
                 /\ work'[Receipt(i)].lane = work'[i].lane
      <3>1. /\ i \in DOMAIN work /\ work[i].state = "done"
            /\ Receipt(i) \in DOMAIN work
            /\ work[Receipt(i)].lane = work[i].lane
        BY <1>1, <2>2 DEF CommandJournal, CommandResult
      <3>2. work'[i] = work[i]
        BY <1>5, <3>1
      <3>3. i \in WorkId \ S
        BY <1>3, <3>1
      <3> QED
        BY <1>2, <1>6, <1>12, <2>2, <3>1, <3>2, <3>3
    <2>3. ASSUME NEW i \in DOMAIN command \ S, Status(i) \notin CommandResult
          PROVE  /\ i \in DOMAIN work'
                 /\ Receipt(i) \notin DOMAIN work'
                 /\ \/ /\ Status(i)' = "pending"
                       /\ work'[i].state \in {"ready", "claimed", "retry_wait"}
                    \/ /\ Status(i)' = "attempted"
                       /\ work'[i].state = "claimed"
                       /\ work'[i].lease = command'[i].deadline
      <3>1. /\ i \in DOMAIN work
            /\ Receipt(i) \notin DOMAIN work
            /\ \/ /\ Status(i) = "pending"
                  /\ work[i].state \in {"ready", "claimed", "retry_wait"}
               \/ /\ Status(i) = "attempted"
                  /\ work[i].state = "claimed"
                  /\ work[i].lease = command[i].deadline
        BY <1>1, <2>3 DEF CommandJournal
      <3>2. i \in IntakeId /\ Kind(i) = "intake" /\ i \in WorkId
        BY <1>3, Identities
      <3>3. Receipt(i) \notin Receipts
        BY <1>3, <3>2, Identities DEF Receipts
      <3>4. Status(i)' = Status(i) /\ command'[i] = command[i]
        BY <1>9, <1>12, <3>2
      <3>5. CASE Status(i) = "pending"
        BY <1>2, <1>5, <3>1, <3>2, <3>3, <3>4, <3>5
      <3>6. CASE Status(i) = "attempted"
        <4>1. work'[i] = work[i]
          BY <3>6 DEF Completes
        <4> QED
          BY <1>2, <3>1, <3>3, <3>4, <3>6, <4>1
      <3> QED
        BY <3>1, <3>5, <3>6
    <2> QED
      BY <1>0, <1>9, <2>1, <2>2, <2>3 DEF CommandJournal
  <1>16. ReceiptsSound'
    <2>1. ASSUME NEW i \in IntakeId, Receipt(i) \in Receipts
          PROVE  i \in DOMAIN command
      BY <1>0, <1>3, <2>1, Identities DEF Receipts
    <2> QED
      BY <1>1, <1>2, <1>9, <2>1 DEF ReceiptsSound
  <1> QED
    BY <1>8, <1>10, <1>11, <1>13, <1>14, <1>15, <1>16 DEF Inv

(* completeCommand by the worker that holds the command.                     *)
LEMMA CompleteCommandInv ==
    ASSUME Inv, NEW i \in DOMAIN command, work[i].state = "claimed",
           NEW result \in CommandResult, CompleteCommand(i, result),
           claims' \subseteq claims,
           UNCHANGED <<effects, requeues, faults>>
    PROVE  Inv'
  <1> DEFINE res == [j \in {i} |-> result]
  <1>1. work' = CompletedWork({i}) /\ command' = CompletedJournal(res)
    BY DEF CompleteCommand
  <1>2. \A j \in DOMAIN command \ {i} : j \in DOMAIN work /\ work'[j] = work[j]
    BY <1>1 DEF CompletedWork, Inv, CommandJournal
  <1>3. res \in [{i} -> CommandResult]
    OBVIOUS
  <1>4. work' = [w \in DOMAIN work' |-> work'[w]]
    BY <1>1 DEF CompletedWork
  <1> HIDE DEF res
  <1>5. Completes({i}, res)
    BY <1>1, <1>2, <1>3, <1>4 DEF Completes
  <1>6. faults' \in Nat
    BY DEF Inv, TypeOK
  <1> QED
    BY <1>5, <1>6, CompletionInv

LEMMA SettleActionInv ==
    ASSUME Inv, NEW c \in claims,
           NEW outcome \in {"done", "retry", "fail", "delivery_unknown"},
           c.phase # "performing",
           c.phase = "sending" => outcome \in {"done", "delivery_unknown"},
           c.id \in DOMAIN command => outcome \in {"retry", "fail"},
           Settle(c, outcome)
    PROVE  Inv'
  <1>1. claims' \subseteq claims /\ UNCHANGED <<effects, requeues, faults>>
    BY DEF Settle
  <1>2. CASE ~Live(c) /\ UNCHANGED <<work, command>>
    BY <1>1, <1>2, ClaimsGivenUp DEF Inv, TypeOK
  <1>3. CASE /\ Live(c) /\ RejectsCommand(c.id, outcome)
             /\ CompleteCommand(c.id, "rejected")
    <2>1. c.id \in DOMAIN command /\ work[c.id].state = "claimed"
      BY <1>3 DEF RejectsCommand, Status, Live
    <2>2. "rejected" \in CommandResult
      BY DEF CommandResult
    <2> QED
      BY <1>1, <1>3, <2>1, <2>2, CompleteCommandInv
  <1>4. CASE /\ Live(c) /\ ~RejectsCommand(c.id, outcome)
             /\ work' = [work EXCEPT ![c.id] = Settled(@, outcome)]
             /\ UNCHANGED command
    BY <1>4, SettleInv DEF Settle
  <1> QED
    BY <1>2, <1>3, <1>4 DEF Settle

(* finishCommand: the attempt's worker, or a rejection before any attempt.   *)
LEMMA FinishCommandInv ==
    ASSUME Inv, NEW c \in claims, NEW result \in CommandResult,
           FinishCommand(c, result)
    PROVE  Inv'
  <1>1. claims' \subseteq claims /\ UNCHANGED <<effects, requeues, faults>>
    BY DEF FinishCommand
  <1>2. CASE ~Finishes(c, result) /\ UNCHANGED <<work, command>>
    BY <1>1, <1>2, ClaimsGivenUp DEF Inv, TypeOK
  <1>3. CASE Finishes(c, result) /\ CompleteCommand(c.id, result)
    <2>1. c.id \in DOMAIN command /\ Status(c.id) \in {"pending", "attempted"}
      BY <1>3 DEF Finishes, Status
    <2>2. work[c.id].state = "claimed"
      BY <1>3, <2>1 DEF Finishes, Inv, CommandJournal, CommandResult
    <2> QED
      BY <1>1, <1>3, <2>1, <2>2, CompleteCommandInv
  <1> QED
    BY <1>2, <1>3 DEF FinishCommand

-------------------------------------------------------------------------------
(* The intake worker.                                                        *)
LEMMA IntakeInv ==
    ASSUME Inv, NEW c \in claims,
           IntegrateDone(c) \/ IntegrateRetry(c) \/ IntegrateReject(c)
              \/ PerformCommand(c)
    PROVE  Inv'
  <1>1. CASE IntegrateDone(c)
    BY <1>1, SettleActionInv DEF IntegrateDone, HeldIntake
  <1>2. CASE IntegrateRetry(c)
    BY <1>2, SettleActionInv DEF IntegrateRetry, HeldIntake
  <1>3. CASE IntegrateReject(c)
    <2>1. CASE Status(c.id) = "pending" /\ FinishCommand(c, "rejected")
      BY <2>1, FinishCommandInv DEF CommandResult
    <2>2. CASE Status(c.id) # "pending" /\ Settle(c, "fail")
      BY <1>3, <2>2, SettleActionInv DEF IntegrateReject, HeldIntake
    <2> QED
      BY <1>3, <2>1, <2>2 DEF IntegrateReject
  <1>4. CASE PerformCommand(c)
    BY <1>4, FinishCommandInv DEF PerformCommand
  <1> QED
    BY <1>1, <1>2, <1>3, <1>4

(* startCommand: the attempt is durable before the request is issued.        *)
LEMMA StartCommandInv ==
    ASSUME Inv, NEW c \in claims, StartCommand(c)
    PROVE  Inv'
  <1> USE DEF Inv
  <1>1. CASE ~Starts(c) /\ UNCHANGED <<work, command, effects>>
    BY <1>1, ClaimsGivenUp DEF StartCommand, TypeOK
  <1>2. CASE Starts(c) /\ ~(~Starts(c) /\ UNCHANGED <<work, command, effects>>)
    <2> DEFINE w   == c.id
               new == [c EXCEPT !.phase = "performing"]
    <2>1. /\ work' = [work EXCEPT ![w].lease = CommandTimeout]
          /\ command' = [command EXCEPT ![w] =
                            [status |-> "attempted", deadline |-> CommandTimeout]]
          /\ claims' = (claims \ {c}) \cup {new}
          /\ effects' = [effects EXCEPT ![w] = @ + 1]
          /\ UNCHANGED <<requeues, faults>>
      BY <1>2 DEF StartCommand, Attempt
    <2>2. Live(c) /\ Status(w) = "pending" /\ w \in DOMAIN command
      BY <1>2 DEF Starts, Status
    <2>3. /\ c \in Claim
          /\ w \in DOMAIN work /\ w \in WorkId
          /\ work[w] \in Row
          /\ work[w].state = "claimed"
          /\ work[w].generation = c.generation
          /\ Kind(w) = "intake"
          /\ ~work[w].sendAttempted
      BY <2>2, LiveClaim DEF RowsSound
    <2>4. /\ new \in Claim
          /\ new.id = w /\ new.generation = c.generation
          /\ new.phase = "performing"
      BY <2>3 DEF Claim
    <2> HIDE DEF new
    <2>5. /\ DOMAIN work' = DOMAIN work
          /\ \A v \in DOMAIN work : v # w => work'[v] = work[v]
          /\ work'[w] = [work[w] EXCEPT !.lease = CommandTimeout]
      BY <2>1, <2>3
    <2>6. /\ work'[w] \in Row
          /\ work'[w].lane = work[w].lane
          /\ work'[w].sequence = work[w].sequence
          /\ work'[w].generation = work[w].generation
          /\ work'[w].state = work[w].state
          /\ work'[w].attempts = work[w].attempts
          /\ work'[w].sendAttempted = work[w].sendAttempted
          /\ work'[w].lease = CommandTimeout
      BY <2>3, <2>5, MessageWorkAssumption DEF Row
    <2>7. /\ DOMAIN command' = DOMAIN command
          /\ \A i \in DOMAIN command : i # w => command'[i] = command[i]
          /\ command'[w] = [status |-> "attempted", deadline |-> CommandTimeout]
      BY <2>1, <2>2
    <2>8. /\ Status(w)' = "attempted"
          /\ \A v \in WorkId : v # w => Status(v)' = Status(v)
      BY <2>2, <2>7 DEF Status
    <2>9. TypeOK'
      <3>1. command'[w] \in JournalEntry
        BY <2>7, MessageWorkAssumption DEF JournalEntry
      <3>2. effects' \in [WorkId -> Nat]
        BY <2>1, <2>3 DEF TypeOK
      <3> QED
        BY <2>1, <2>4, <2>5, <2>6, <2>7, <3>1, <3>2 DEF TypeOK
    <2>10. Numbered' /\ HeadOfLine'
      BY <2>5, <2>6, OrderKept
    <2>11. RowsSound'
      BY <2>5, <2>6 DEF RowsSound
    <2>12. ClaimsSound'
      <3>1. ASSUME NEW d \in claims
            PROVE  /\ d.id \in DOMAIN work /\ d.id \in WorkId
                   /\ d.generation <= work'[d.id].generation
                   /\ d.phase = "sending" => Kind(d.id) = "delivery"
                   /\ d.phase = "performing" => d.id \in DOMAIN command
                   /\ d.id = w /\ d.generation = c.generation => d = c
                   /\ Live(d)' <=> Live(d)
        BY <2>5, <2>6 DEF ClaimsSound, TypeOK, Claim, Live
      <3>2. ASSUME NEW d \in claims \ {c}, Live(d)'
            PROVE  /\ work'[d.id].sendAttempted <=> d.phase = "sending"
                   /\ Status(d.id)' = "attempted" <=> d.phase = "performing"
        <4>1. d.id # w
          BY <2>3, <3>1, <3>2 DEF Live
        <4> QED
          BY <2>5, <2>8, <3>1, <3>2, <4>1 DEF ClaimsSound
      <3>3. /\ new.id \in DOMAIN work'
            /\ new.generation <= work'[new.id].generation
            /\ new.id \in DOMAIN command'
            /\ ~work'[new.id].sendAttempted
            /\ Status(new.id)' = "attempted"
        BY <2>2, <2>3, <2>4, <2>5, <2>6, <2>7, <2>8 DEF Row
      <3>4. \A d, e \in claims' : d.id = e.id /\ d.generation = e.generation => d = e
        BY <2>1, <2>4, <3>1 DEF ClaimsSound
      <3> QED
        BY <2>1, <2>4, <2>5, <2>7, <3>1, <3>2, <3>3, <3>4 DEF ClaimsSound
    <2>13. EffectsSound'
      <3>1. effects[w] <= 0 /\ effects[w] \in Nat
        BY <2>2, <2>3 DEF EffectsSound, TypeOK
      <3>2. effects'[w] = 1
        BY <2>1, <2>3, <3>1 DEF TypeOK
      <3>3. \A v \in WorkId : v # w => effects'[v] = effects[v]
        BY <2>1 DEF TypeOK
      <3>4. ASSUME NEW v \in WorkId, v # w
            PROVE  /\ Status(v)' = Status(v)
                   /\ (v \in DOMAIN work' /\ work'[v].sendAttempted)
                         <=> (v \in DOMAIN work /\ work[v].sendAttempted)
        BY <2>5, <2>8, <3>4
      <3> QED
        BY <2>1, <2>3, <2>8, <3>2, <3>3, <3>4 DEF EffectsSound
    <2>14. CommandJournal'
      <3>1. Receipt(w) \notin DOMAIN work
        BY <2>2 DEF CommandJournal, CommandResult
      <3>2. /\ w \in DOMAIN work'
            /\ Receipt(w) \notin DOMAIN work'
            /\ Status(w)' = "attempted"
            /\ work'[w].state = "claimed"
            /\ work'[w].lease = command'[w].deadline
        BY <2>3, <2>5, <2>6, <2>7, <2>8, <3>1
      <3>3. ASSUME NEW i \in DOMAIN command, i # w
            PROVE  /\ Status(i)' = Status(i)
                   /\ work'[i] = work[i]
                   /\ command'[i] = command[i]
                   /\ Receipt(i) \in DOMAIN work => work'[Receipt(i)] = work[Receipt(i)]
        <4>1. Receipt(i) # w
          BY <2>3, Identities DEF TypeOK
        <4> QED
          BY <2>5, <2>7, <2>8, <3>3, <4>1 DEF TypeOK, WorkId, CommandJournal
      <3>4. ASSUME NEW i \in DOMAIN command, i # w
            PROVE  /\ i \in DOMAIN work'
                   /\ \/ /\ Status(i)' \in CommandResult
                         /\ work'[i].state = "done"
                         /\ Receipt(i) \in DOMAIN work'
                         /\ work'[Receipt(i)].lane = work'[i].lane
                      \/ /\ Receipt(i) \notin DOMAIN work'
                         /\ \/ /\ Status(i)' = "pending"
                               /\ work'[i].state \in {"ready", "claimed", "retry_wait"}
                            \/ /\ Status(i)' = "attempted"
                               /\ work'[i].state = "claimed"
                               /\ work'[i].lease = command'[i].deadline
        <4>1. /\ i \in DOMAIN work
              /\ \/ /\ Status(i) \in CommandResult
                    /\ work[i].state = "done"
                    /\ Receipt(i) \in DOMAIN work
                    /\ work[Receipt(i)].lane = work[i].lane
                 \/ /\ Receipt(i) \notin DOMAIN work
                    /\ \/ /\ Status(i) = "pending"
                          /\ work[i].state \in {"ready", "claimed", "retry_wait"}
                       \/ /\ Status(i) = "attempted"
                          /\ work[i].state = "claimed"
                          /\ work[i].lease = command[i].deadline
          BY DEF CommandJournal
        <4> QED
          BY <2>5, <3>3, <3>4, <4>1
      <3> QED
        BY <2>7, <3>2, <3>4 DEF CommandJournal
    <2>15. ReceiptsSound'
      BY <2>5, <2>7 DEF ReceiptsSound
    <2> QED
      BY <2>9, <2>10, <2>11, <2>12, <2>13, <2>14, <2>15
  <1> QED
    BY <1>1, <1>2 DEF StartCommand

-------------------------------------------------------------------------------
(* The delivery worker.                                                      *)
LEMMA DispatchSettleInv ==
    ASSUME Inv, NEW c \in claims, DispatchInvalid(c) \/ DispatchSettle(c)
    PROVE  Inv'
  <1>1. Kind(c.id) = "delivery"
    BY DEF DispatchInvalid, DispatchSettle, HeldDelivery, Inv, ClaimsSound
  <1>2. c.id \notin DOMAIN command
    BY <1>1, Identities DEF Inv, TypeOK
  <1>3. CASE DispatchInvalid(c)
    BY <1>2, <1>3, SettleActionInv DEF DispatchInvalid, HeldDelivery
  <1>4. CASE DispatchSettle(c)
    BY <1>2, <1>4, SettleActionInv DEF DispatchSettle
  <1> QED
    BY <1>3, <1>4

(* release: the claim is given back before anything was sent.                *)
LEMMA DispatchReleaseInv ==
    ASSUME Inv, NEW c \in claims, DispatchRelease(c)
    PROVE  Inv'
  <1> DEFINE w == c.id
             r == Released(work[w])
  <1>1. /\ claims' \subseteq claims
        /\ faults' \in Nat
        /\ c.phase = "held" /\ Kind(w) = "delivery"
        /\ UNCHANGED <<command, effects, requeues>>
    BY DEF DispatchRelease, HeldDelivery, Inv, TypeOK
  <1>2. CASE ~Live(c)
    BY <1>1, <1>2, ClaimsGivenUp DEF DispatchRelease
  <1>3. CASE Live(c)
    <2>1. /\ w \in DOMAIN work /\ w \in WorkId
          /\ work[w] \in Row
          /\ work[w].state = "claimed"
          /\ work[w].generation > 0
          /\ Status(w) # "attempted"
          /\ ~work[w].sendAttempted
          /\ w \notin DOMAIN command
      BY <1>1, <1>3, LiveClaim
    <2>2. /\ r \in Row
          /\ r.lane = work[w].lane /\ r.sequence = work[w].sequence
          /\ r.generation = work[w].generation
          /\ r.state = "ready"
          /\ r.sendAttempted = work[w].sendAttempted
      <3>1. Down(work[w].attempts) \in Nat /\ "ready" \in WorkState
        BY <2>1 DEF Down, Row, WorkState
      <3> QED
        BY <2>1, <3>1 DEF Released, Row
    <2> HIDE DEF r
    <2>3. work' = [work EXCEPT ![w] = r]
      BY <1>3, <2>1 DEF DispatchRelease, r
    <2>4. work[w].state \notin Resolved /\ r.generation >= work[w].generation
      BY <2>1, <2>2 DEF Resolved, Row
    <2>5. /\ requeues' \in [WorkId -> Nat]
          /\ \A v \in WorkId : requeues'[v] >= requeues[v]
      BY <1>1 DEF Inv, TypeOK
    <2> HIDE DEF w
    <2> QED
      BY <1>1, <2>1, <2>2, <2>3, <2>4, <2>5, RowClosed
  <1> QED
    BY <1>2, <1>3

(* markSending: the attempt is durable before the platform is called.        *)
LEMMA DispatchSendInv ==
    ASSUME Inv, NEW c \in claims, DispatchSend(c)
    PROVE  Inv'
  <1> USE DEF Inv
  <1>1. CASE ~Live(c)
    BY <1>1, ClaimsGivenUp DEF DispatchSend, TypeOK
  <1>2. CASE Live(c)
    <2> DEFINE w   == c.id
               r   == [work[w] EXCEPT !.sendAttempted = TRUE]
               new == [c EXCEPT !.phase = "sending"]
    <2>1. /\ work' = [work EXCEPT ![w].sendAttempted = TRUE]
          /\ claims' = (claims \ {c}) \cup {new}
          /\ effects' = [effects EXCEPT ![w] = @ + 1]
          /\ UNCHANGED <<command, requeues, faults>>
          /\ c.phase = "held" /\ Kind(w) = "delivery"
      BY <1>2 DEF DispatchSend, HeldDelivery
    <2>2. /\ c \in Claim
          /\ w \in DOMAIN work /\ w \in WorkId
          /\ work[w] \in Row
          /\ work[w].state = "claimed"
          /\ work[w].generation = c.generation
          /\ work[w].generation > 0 /\ work[w].attempts > 0
          /\ ~work[w].sendAttempted
          /\ Status(w) # "attempted"
          /\ w \notin DOMAIN command
      BY <1>2, <2>1, LiveClaim
    <2>3. /\ r \in Row
          /\ r.lane = work[w].lane /\ r.sequence = work[w].sequence
          /\ r.generation = work[w].generation
          /\ r.state = "claimed" /\ r.attempts = work[w].attempts
          /\ r.sendAttempted
      BY <2>2 DEF Row
    <2>4. /\ new \in Claim
          /\ new.id = w /\ new.generation = c.generation /\ new.phase = "sending"
      BY <2>2 DEF Claim
    <2>5. effects' \in [WorkId -> Nat] /\ effects'[w] = effects[w] + 1
      BY <2>1, <2>2 DEF TypeOK
    <2>6. work' = [work EXCEPT ![w] = r]
      BY <2>1, <2>2
    <2> HIDE DEF r, new
    <2>7. /\ TypeOK' /\ Numbered' /\ HeadOfLine' /\ RowsSound'
          /\ CommandJournal' /\ ReceiptsSound'
          /\ DOMAIN work' = DOMAIN work
          /\ work'[w] = r
          /\ \A v \in DOMAIN work : v # w => work'[v] = work[v]
          /\ \A v \in WorkId : Status(v)' = Status(v)
      <3>1. claims' \in SUBSET Claim
        BY <2>1, <2>4 DEF TypeOK
      <3>2. requeues' \in [WorkId -> Nat] /\ faults' \in Nat
        BY <2>1 DEF TypeOK
      <3>3. work[w].state \notin Resolved /\ r.generation > 0
        BY <2>2, <2>3 DEF Resolved
      <3> HIDE DEF w
      <3> QED
        BY <2>1, <2>2, <2>3, <2>5, <2>6, <3>1, <3>2, <3>3, OneRowStep
    <2>8. ClaimsSound'
      <3>1. ASSUME NEW d \in claims
            PROVE  /\ d.id \in DOMAIN work /\ d.id \in WorkId
                   /\ d.generation <= work'[d.id].generation
                   /\ d.phase = "sending" => Kind(d.id) = "delivery"
                   /\ d.phase = "performing" => d.id \in DOMAIN command
                   /\ d.id = w /\ d.generation = c.generation => d = c
                   /\ Live(d)' <=> Live(d)
        BY <2>2, <2>3, <2>7 DEF ClaimsSound, TypeOK, Claim, Live
      <3>2. ASSUME NEW d \in claims \ {c}, Live(d)'
            PROVE  /\ work'[d.id].sendAttempted <=> d.phase = "sending"
                   /\ Status(d.id)' = "attempted" <=> d.phase = "performing"
        <4>1. d.id # w
          BY <2>2, <3>1, <3>2 DEF Live
        <4> QED
          BY <2>7, <3>1, <3>2, <4>1 DEF ClaimsSound
      <3>3. /\ new.id \in DOMAIN work'
            /\ new.generation <= work'[new.id].generation
            /\ work'[new.id].sendAttempted
            /\ Status(new.id)' # "attempted"
        BY <2>2, <2>3, <2>4, <2>7 DEF Row
      <3>4. \A d, e \in claims' : d.id = e.id /\ d.generation = e.generation => d = e
        BY <2>1, <2>4, <3>1 DEF ClaimsSound
      <3> QED
        BY <2>1, <2>4, <2>7, <3>1, <3>2, <3>3, <3>4 DEF ClaimsSound
    <2>9. EffectsSound'
      <3>1. ASSUME NEW v \in WorkId, Kind(v) = "intake"
            PROVE  effects'[v] <= IF Status(v)' \in {"none", "pending"} THEN 0 ELSE 1
        <4>1. v # w
          BY <2>1, <3>1
        <4>2. effects'[v] = effects[v]
          BY <2>1, <4>1 DEF TypeOK
        <4> QED
          BY <2>7, <3>1, <4>2 DEF EffectsSound
      <3>2. ASSUME NEW v \in WorkId, Kind(v) # "intake"
            PROVE  effects'[v] <= IF v \in DOMAIN work' /\ work'[v].sendAttempted
                                  THEN 1 + requeues'[v] ELSE requeues'[v]
        <4>1. effects[v] <= IF v \in DOMAIN work /\ work[v].sendAttempted
                            THEN 1 + requeues[v] ELSE requeues[v]
          BY <3>2 DEF EffectsSound
        <4>2. effects[v] \in Nat /\ requeues[v] \in Nat /\ requeues'[v] = requeues[v]
          BY <2>1 DEF TypeOK
        <4>3. CASE v = w
          <5>1. effects[w] <= requeues[w]
            BY <2>2, <4>1, <4>3
          <5> QED
            BY <2>2, <2>3, <2>5, <2>7, <4>2, <4>3, <5>1
        <4>4. CASE v # w
          <5>1. effects'[v] = effects[v]
            BY <2>1, <4>4 DEF TypeOK
          <5> QED
            BY <2>7, <4>1, <4>2, <4>4, <5>1
        <4> QED
          BY <4>3, <4>4
      <3> QED
        BY <3>1, <3>2 DEF EffectsSound
    <2> QED
      BY <2>7, <2>8, <2>9
  <1> QED
    BY <1>1, <1>2

-------------------------------------------------------------------------------
(* Operator repair: skip, confirmDelivered and requeue take rows that block  *)
(* their lanes, and a command never does.                                    *)
LEMMA OperatorInv ==
    ASSUME Inv, NEW w \in WorkId, Skip(w) \/ ConfirmDelivered(w) \/ Requeue(w)
    PROVE  Inv'
  <1>1. /\ w \in DOMAIN work
        /\ work[w] \in Row
        /\ work[w].state \in Blocked
        /\ UNCHANGED <<command, claims, effects, faults>>
    BY DEF Skip, ConfirmDelivered, Requeue, Blocked, Inv, TypeOK
  <1>2. /\ work[w].generation > 0
        /\ work[w].state \notin Resolved
        /\ work[w].sendAttempted => Kind(w) = "delivery"
    BY <1>1 DEF Inv, RowsSound, Blocked, Resolved
  <1>3. w \notin DOMAIN command /\ Status(w) # "attempted"
    BY <1>1 DEF Inv, CommandJournal, Blocked, Status
  <1>4. faults' \in Nat /\ claims' \subseteq claims
    BY <1>1 DEF Inv, TypeOK
  <1>5. ASSUME NEW s \in Resolved, work' = [work EXCEPT ![w].state = s],
               UNCHANGED requeues
        PROVE  Inv'
    <2> DEFINE r == [work[w] EXCEPT !.state = s]
    <2>1. /\ r \in Row
          /\ r.lane = work[w].lane /\ r.sequence = work[w].sequence
          /\ r.generation = work[w].generation
          /\ r.state = s /\ s \notin {"claimed", "ready", "retry_wait"}
          /\ r.sendAttempted = work[w].sendAttempted
      BY <1>1 DEF Row, WorkState, Resolved
    <2>2. work' = [work EXCEPT ![w] = r]
      BY <1>1, <1>5
    <2>3. /\ requeues' \in [WorkId -> Nat]
          /\ \A v \in WorkId : requeues'[v] >= requeues[v]
          /\ r.generation >= work[w].generation
      BY <1>1, <1>5, <2>1 DEF Inv, TypeOK, Row
    <2> HIDE DEF r
    <2> QED
      BY <1>1, <1>2, <1>3, <1>4, <2>1, <2>2, <2>3, RowClosed
  <1>6. CASE Skip(w)
    BY <1>5, <1>6 DEF Skip, Resolved
  <1>7. CASE ConfirmDelivered(w)
    BY <1>5, <1>7 DEF ConfirmDelivered, Resolved
  <1>8. CASE Requeue(w)
    <2> DEFINE r == Requeued(work[w])
    <2>1. /\ r \in Row
          /\ r.lane = work[w].lane /\ r.sequence = work[w].sequence
          /\ r.generation = work[w].generation + 1
          /\ r.state = "ready"
          /\ ~r.sendAttempted
      <3>1. work[w].generation + 1 \in Nat /\ "ready" \in WorkState
        BY <1>1 DEF Row, WorkState
      <3> QED
        BY <1>1, <3>1 DEF Requeued, Row
    <2>2. /\ work' = [work EXCEPT ![w] = r]
          /\ requeues' = [requeues EXCEPT ![w] = @ + 1]
      BY <1>1, <1>8 DEF Requeue
    <2>3. /\ requeues' \in [WorkId -> Nat]
          /\ \A v \in WorkId : requeues'[v] >= requeues[v]
          /\ requeues'[w] >= 1 + requeues[w]
          /\ r.generation >= work[w].generation
      BY <1>1, <2>1, <2>2 DEF Inv, TypeOK, Row
    <2> HIDE DEF r
    <2> QED
      BY <1>1, <1>2, <1>3, <1>4, <2>1, <2>2, <2>3, RowClosed
  <1> QED
    BY <1>6, <1>7, <1>8

-------------------------------------------------------------------------------
(* reconcile: by CommandJournal no rejection is left to save, the command of *)
(* an expired attempt is still claimed, and a command whose attempt has time *)
(* left is not swept, because its lease is its deadline.                     *)
LEMMA ReconcileInv ==
    ASSUME Inv, Reconcile
    PROVE  Inv'
  <1> USE DEF Inv
  <1> DEFINE S   == SavedRejections \cup ExpiredCommands
             res == [i \in S |-> IF i \in ExpiredCommands THEN "unknown"
                                 ELSE "rejected"]
             T   == CompletedWork(S)
  <1>1. /\ work' = [w \in DOMAIN T |-> Swept(w, T[w])]
        /\ command' = CompletedJournal(res)
        /\ UNCHANGED <<claims, effects, requeues, faults>>
    BY DEF Reconcile
  <1>2. SavedRejections = {}
    BY DEF SavedRejections, CommandJournal, CommandResult
  <1>3. /\ S \subseteq DOMAIN command
        /\ \A i \in S : work[i].state = "claimed"
    BY <1>2 DEF ExpiredCommands, CommandJournal, CommandResult
  <1>4. res \in [S -> CommandResult]
    BY DEF CommandResult
  <1>5. ASSUME NEW i \in DOMAIN command \ S, Status(i) = "attempted"
        PROVE  work'[i] = work[i]
    <2>1. /\ i \in DOMAIN work
          /\ work[i].state = "claimed"
          /\ work[i].lease = command[i].deadline
      BY <1>5 DEF CommandJournal, CommandResult
    <2>2. command[i].deadline # 0
      BY <1>5 DEF ExpiredCommands
    <2>3. i \in DOMAIN T /\ T[i] = work[i]
      BY <1>5, <2>1 DEF CompletedWork
    <2>4. Swept(i, work[i]) = work[i]
      BY <2>1, <2>2 DEF Swept
    <2> HIDE DEF T
    <2> QED
      BY <1>1, <2>3, <2>4
  <1>6. /\ DOMAIN work' = DOMAIN T
        /\ \A w \in DOMAIN work' : work'[w] = Swept(w, T[w])
        /\ work' = [w \in DOMAIN work' |-> work'[w]]
    BY <1>1
  <1> HIDE DEF S, res
  <1>7. Completes(S, res)
    BY <1>1, <1>3, <1>4, <1>5, <1>6 DEF Completes
  <1>8. faults' \in Nat /\ claims' \subseteq claims
    BY <1>1 DEF TypeOK
  <1> QED
    BY <1>1, <1>7, <1>8, CompletionInv

(* Time: the lease of an attempted command and its deadline run down         *)
(* together.                                                                 *)
LEMMA TickInv ==
    ASSUME Inv, Tick
    PROVE  Inv'
  <1> USE DEF Inv
  <1>1. /\ work' = [w \in DOMAIN work |->
                      [work[w] EXCEPT !.wait = Down(@), !.lease = Down(@)]]
        /\ command' = [i \in DOMAIN command |->
                         [command[i] EXCEPT !.deadline = Down(@)]]
        /\ UNCHANGED <<claims, effects, requeues>>
    BY DEF Tick
  <1>0. faults' \in Nat
    <2>1. faults \in Nat /\ faults + 1 \in Nat
      BY DEF TypeOK
    <2>2. faults' = faults \/ faults' = faults + 1
      BY DEF Tick
    <2> QED
      BY <2>1, <2>2
  <1>2. \A n \in Nat : Down(n) \in Nat
    BY DEF Down
  <1>3. ASSUME NEW w \in DOMAIN work
        PROVE  /\ work'[w] \in Row
               /\ work'[w].state = work[w].state
               /\ work'[w].lane = work[w].lane
               /\ work'[w].sequence = work[w].sequence
               /\ work'[w].generation = work[w].generation
               /\ work'[w].attempts = work[w].attempts
               /\ work'[w].sendAttempted = work[w].sendAttempted
               /\ work'[w].lease = Down(work[w].lease)
    <2>1. work[w] \in Row
      BY DEF TypeOK
    <2>2. work'[w] = [work[w] EXCEPT !.wait = Down(work[w].wait),
                                     !.lease = Down(work[w].lease)]
      BY <1>1
    <2>3. Down(work[w].wait) \in Nat /\ Down(work[w].lease) \in Nat
      BY <1>2, <2>1 DEF Row
    <2> QED
      BY <2>1, <2>2, <2>3 DEF Row
  <1>4. ASSUME NEW i \in DOMAIN command
        PROVE  /\ command'[i] \in JournalEntry
               /\ command'[i].status = command[i].status
               /\ command'[i].deadline = Down(command[i].deadline)
    BY <1>1, <1>2 DEF TypeOK, JournalEntry
  <1>5. DOMAIN work' = DOMAIN work /\ DOMAIN command' = DOMAIN command
    BY <1>1
  <1>6. \A w \in WorkId : Status(w)' = Status(w)
    BY <1>4, <1>5 DEF Status
  <1>7. TypeOK'
    BY <1>0, <1>1, <1>3, <1>4, <1>5 DEF TypeOK
  <1>8. Numbered' /\ HeadOfLine'
    BY <1>3, <1>5, OrderKept
  <1>9. RowsSound'
    BY <1>3, <1>5 DEF RowsSound
  <1>10. ClaimsSound'
    <2>1. ASSUME NEW c \in claims
          PROVE  /\ c.id \in DOMAIN work /\ c.id \in WorkId
                 /\ work'[c.id].generation = work[c.id].generation
                 /\ work'[c.id].sendAttempted = work[c.id].sendAttempted
                 /\ Live(c)' <=> Live(c)
                 /\ Status(c.id)' = Status(c.id)
      BY <1>3, <1>5, <1>6 DEF ClaimsSound, TypeOK, Claim, Live
    <2> QED
      BY <1>1, <1>5, <2>1 DEF ClaimsSound
  <1>11. EffectsSound'
    BY <1>1, <1>3, <1>5, <1>6 DEF EffectsSound
  <1>12. CommandJournal'
    <2>1. \A i \in DOMAIN command : i \in WorkId /\ Receipt(i) \in WorkId
      BY Identities DEF TypeOK
    <2> QED
      BY <1>3, <1>4, <1>5, <1>6, <2>1 DEF CommandJournal
  <1>13. ReceiptsSound'
    BY <1>5 DEF ReceiptsSound
  <1> QED
    BY <1>7, <1>8, <1>9, <1>10, <1>11, <1>12, <1>13

-------------------------------------------------------------------------------
(* Every step of the store, its workers and its operator keeps the           *)
(* invariant.                                                                *)
LEMMA NextInv == Inv /\ [Next]_vars => Inv'
  <1> SUFFICES ASSUME Inv, [Next]_vars PROVE Inv'
    OBVIOUS
  <1>1. CASE Arrival
    BY <1>1, AcceptIntakeInv, InsertDeliveryInv DEF Arrival
  <1>2. CASE \E kind \in {"intake", "delivery"} : ClaimReady(kind)
    BY <1>2, ClaimReadyInv
  <1>3. CASE \E c \in claims : IntakeStep(c)
    BY <1>3, IntakeInv, StartCommandInv DEF IntakeStep
  <1>4. CASE \E c \in claims : DeliveryStep(c)
    BY <1>4, DispatchSettleInv, DispatchSendInv DEF DeliveryStep
  <1>5. CASE \E c \in claims : DispatchRelease(c)
    BY <1>5, DispatchReleaseInv
  <1>6. CASE \E c \in claims : Crash(c)
    BY <1>6, ClaimsGivenUp DEF Crash, Inv, TypeOK
  <1>7. CASE Reconcile
    BY <1>7, ReconcileInv
  <1>8. CASE Operator
    BY <1>8, OperatorInv DEF Operator
  <1>9. CASE Tick
    BY <1>9, TickInv
  <1>10. CASE UNCHANGED vars
    BY <1>10, ClaimsGivenUp DEF vars, Inv, TypeOK
  <1> QED
    BY <1>1, <1>2, <1>3, <1>4, <1>5, <1>6, <1>7, <1>8, <1>9, <1>10 DEF Next

(* The inductive invariant holds in every reachable state.                   *)
THEOREM Invariance == Spec => []Inv
  <1>1. Init => Inv
    BY InitInv
  <1>2. Inv /\ [Next]_vars => Inv'
    BY NextInv
  <1> QED
    BY <1>1, <1>2, PTL DEF Spec

(* Types: every row, journal entry and claim stays well formed, across every *)
(* operation of store.ts.                                                    *)
THEOREM TypeCorrect == Spec => []TypeOK
  <1>1. Inv => TypeOK
    BY DEF Inv
  <1> QED
    BY <1>1, Invariance, PTL

(* No overtaking in a lane (claimReady, "lane-head only").                   *)
THEOREM NoOvertaking == Spec => []HeadOfLine
  <1>1. Inv => HeadOfLine
    BY DEF Inv
  <1> QED
    BY <1>1, Invariance, PTL

(* The journal, the receipt and the row of a command never disagree          *)
(* (completeCommand).                                                        *)
THEOREM JournalAtomic == Spec => []CommandJournal
  <1>1. Inv => CommandJournal
    BY DEF Inv
  <1> QED
    BY <1>1, Invariance, PTL

(* Generation fencing: two different claims on a row are never both live.    *)
THEOREM Fencing == Spec => []OneLiveClaim
  <1>1. Inv => OneLiveClaim
    BY DEF Inv, ClaimsSound, OneLiveClaim, Live
  <1> QED
    BY <1>1, Invariance, PTL

(* A command is performed once, a delivery sent once per operator decision   *)
(* (startCommand, markSending, the delivery_unknown branch of reconcile).    *)
THEOREM AtMostOnce == Spec => []EffectOnce
  <1>1. Inv => EffectOnce
    <2> SUFFICES ASSUME Inv, NEW w \in WorkId
                 PROVE  effects[w] <= IF Kind(w) = "intake" THEN 1 ELSE 1 + requeues[w]
      BY DEF EffectOnce
    <2>1. effects[w] \in Nat /\ requeues[w] \in Nat
      BY DEF Inv, TypeOK
    <2> QED
      BY <2>1 DEF Inv, EffectsSound
  <1> QED
    BY <1>1, Invariance, PTL

(* Done and skipped are final, in every step of the store: a stale worker,   *)
(* the sweep and operator repair included (RESOLVED_STATES of types.ts).     *)
THEOREM Finality == Spec => ResolvedIsFinal
  <1> DEFINE Final == \A w \in DOMAIN work : work[w].state \in Resolved =>
                         w \in DOMAIN work' /\ work'[w].state = work[w].state
  <1>1. ASSUME Inv, Next PROVE Final
    <2> SUFFICES ASSUME NEW w \in DOMAIN work, work[w].state \in Resolved
                 PROVE  w \in DOMAIN work' /\ work'[w].state = work[w].state
      OBVIOUS
    <2> USE DEF Resolved
    <2>1. CASE Arrival
      BY <2>1 DEF Arrival, AcceptIntake, InsertDelivery, InsertWork
    <2>2. CASE \E kind \in {"intake", "delivery"} : ClaimReady(kind)
      BY <2>2 DEF ClaimReady, Claimable, Inv, TypeOK
    <2>3. CASE work' = work
      BY <2>3
    <2>4. ASSUME NEW c \in claims, Live(c), NEW r,
                 work' = [work EXCEPT ![c.id] = r]
          PROVE  w \in DOMAIN work' /\ work'[w].state = work[w].state
      BY <2>4 DEF Live
    <2>5. ASSUME NEW i \in DOMAIN command, work[i].state = "claimed",
                 NEW result, CompleteCommand(i, result)
          PROVE  w \in DOMAIN work' /\ work'[w].state = work[w].state
      BY <2>5 DEF CompleteCommand, CompletedWork
    <2>6. ASSUME NEW c \in claims, NEW outcome, Settle(c, outcome)
          PROVE  w \in DOMAIN work' /\ work'[w].state = work[w].state
      <3>1. CASE Live(c) /\ RejectsCommand(c.id, outcome)
                 /\ CompleteCommand(c.id, "rejected")
        BY <2>5, <3>1 DEF RejectsCommand, Status, Live
      <3>2. CASE Live(c) /\ work' = [work EXCEPT ![c.id] = Settled(@, outcome)]
        BY <2>4, <3>2 DEF Live
      <3> QED
        BY <2>3, <2>6, <3>1, <3>2 DEF Settle
    <2>7. ASSUME NEW c \in claims, NEW result, FinishCommand(c, result)
          PROVE  w \in DOMAIN work' /\ work'[w].state = work[w].state
      <3>1. ASSUME Finishes(c, result)
            PROVE  c.id \in DOMAIN command /\ work[c.id].state = "claimed"
        BY <1>1, <3>1 DEF Finishes, Status, Inv, CommandJournal, CommandResult
      <3> QED
        BY <2>3, <2>5, <2>7, <3>1 DEF FinishCommand
    <2>8. CASE \E c \in claims : IntakeStep(c)
      BY <2>3, <2>4, <2>6, <2>7, <2>8
         DEF IntakeStep, IntegrateDone, IntegrateRetry, IntegrateReject,
             StartCommand, Starts, PerformCommand
    <2>9. CASE \E c \in claims : DeliveryStep(c) \/ DispatchRelease(c) \/ Crash(c)
      BY <2>3, <2>4, <2>6, <2>9
         DEF DeliveryStep, DispatchInvalid, DispatchSend, DispatchSettle,
             DispatchRelease, Crash
    <2>10. CASE Reconcile
      <3>1. /\ w \in DOMAIN CompletedWork(SavedRejections \cup ExpiredCommands)
            /\ work' = [v \in DOMAIN CompletedWork(SavedRejections \cup ExpiredCommands) |->
                          Swept(v, CompletedWork(SavedRejections \cup ExpiredCommands)[v])]
        BY <2>10 DEF Reconcile, CompletedWork
      <3>2. w \notin SavedRejections \cup ExpiredCommands
        BY <1>1 DEF SavedRejections, ExpiredCommands, Inv, CommandJournal, CommandResult
      <3>3. CompletedWork(SavedRejections \cup ExpiredCommands)[w] = work[w]
        BY <3>2 DEF CompletedWork
      <3>4. Swept(w, work[w]) = work[w]
        BY DEF Swept
      <3> QED
        BY <3>1, <3>3, <3>4
    <2>11. CASE Operator
      BY <2>11 DEF Operator, Skip, ConfirmDelivered, Requeue, Blocked
    <2>12. CASE Tick
      <3>1. /\ w \in DOMAIN work'
            /\ work'[w] = [work[w] EXCEPT !.wait = Down(@), !.lease = Down(@)]
        BY <2>12 DEF Tick
      <3>2. work[w] \in Row
        BY <1>1 DEF Inv, TypeOK
      <3> QED
        BY <3>1, <3>2 DEF Row
    <2> QED
      BY <1>1, <2>1, <2>2, <2>8, <2>9, <2>10, <2>11, <2>12 DEF Next
  <1>2. Inv /\ [Next]_vars => [Final]_vars
    BY <1>1
  <1> QED
    BY <1>2, Invariance, PTL DEF Spec, ResolvedIsFinal

-------------------------------------------------------------------------------
(* The queues keep their promise (module WorkQueue).                         *)

(* Position n of a queue is that of the row with sequence n.                 *)
Aligned ==
    \A kind \in {"intake", "delivery"}, l \in Lane :
        /\ NextSequence(kind, l) \in Nat \ {0}
        /\ Len(Standings(kind, l)) = NextSequence(kind, l) - 1
        /\ DOMAIN Standings(kind, l) = 1..(NextSequence(kind, l) - 1)
        /\ \A n \in 1..(NextSequence(kind, l) - 1) :
              \E w \in Queue(kind, l) : work[w].sequence = n
        /\ \A w \in Queue(kind, l) :
              /\ work[w].sequence \in 1..(NextSequence(kind, l) - 1)
              /\ Standings(kind, l)[work[w].sequence] = Standing(work[w].state)

LEMMA StandingsAt == Inv => Aligned
  <1> SUFFICES ASSUME Inv, NEW kind \in {"intake", "delivery"}, NEW l \in Lane
               PROVE  /\ NextSequence(kind, l) \in Nat \ {0}
                      /\ Len(Standings(kind, l)) = NextSequence(kind, l) - 1
                      /\ DOMAIN Standings(kind, l) = 1..(NextSequence(kind, l) - 1)
                      /\ \A n \in 1..(NextSequence(kind, l) - 1) :
                            \E w \in Queue(kind, l) : work[w].sequence = n
                      /\ \A w \in Queue(kind, l) :
                            /\ work[w].sequence \in 1..(NextSequence(kind, l) - 1)
                            /\ Standings(kind, l)[work[w].sequence] = Standing(work[w].state)
    BY DEF Aligned
  <1>1. /\ NextSequence(kind, l) \in Nat \ {0}
        /\ Sequences(kind, l) = 1..(NextSequence(kind, l) - 1)
    BY DEF Inv, Numbered
  <1>2. \A v, w \in Queue(kind, l) : work[v].sequence = work[w].sequence => v = w
    BY DEF Inv, Numbered, Queue, SameQueue
  <1>3. \A w \in Queue(kind, l) : work[w].sequence \in 1..(NextSequence(kind, l) - 1)
    BY <1>1 DEF Sequences
  <1>4. \A n \in 1..(NextSequence(kind, l) - 1) :
            \E w \in Queue(kind, l) : work[w].sequence = n
    BY <1>1 DEF Sequences
  <1>5. ASSUME NEW w \in Queue(kind, l)
        PROVE  RowAt(kind, l, work[w].sequence) = w
    BY <1>2, <1>5 DEF RowAt
  <1>6. ASSUME NEW w \in Queue(kind, l)
        PROVE  Standings(kind, l)[work[w].sequence] = Standing(work[w].state)
    BY <1>3, <1>5, <1>6 DEF Standings
  <1>7. DOMAIN Standings(kind, l) = 1..(NextSequence(kind, l) - 1)
    BY DEF Standings
  <1>8. Len(Standings(kind, l)) = NextSequence(kind, l) - 1
    BY <1>1, <1>7
  <1> QED
    BY <1>1, <1>3, <1>4, <1>6, <1>7, <1>8

LEMMA StandingsAtNext == Inv' => Aligned'
  BY StandingsAt, PTL

(* What a step does to a row, and what rows it adds.                         *)
Becomes(w) ==
    /\ w \in DOMAIN work'
    /\ work'[w].lane = work[w].lane /\ work'[w].sequence = work[w].sequence
    /\ \/ work'[w].state = work[w].state
       \/ work[w].state = "retry_wait" /\ work'[w].state = "ready"
       \/ work[w].state = "ready" /\ IsHead(w) /\ work'[w].state = "claimed"
       \/ work[w].state = "claimed"
       \/ work[w].state \in Blocked /\ work'[w].state \in {"ready"} \cup Resolved

Joins(x) ==
    work'[x].state = "ready" /\ work'[x].sequence = NextSequence(Kind(x), work'[x].lane)

RowsStep ==
    /\ \A w \in DOMAIN work : Becomes(w)
    /\ \A x \in DOMAIN work' \ DOMAIN work : Joins(x)

LEMMA OneRowMoves ==
    ASSUME NEW w \in DOMAIN work, NEW r,
           work' = [work EXCEPT ![w] = r],
           r.lane = work[w].lane, r.sequence = work[w].sequence,
           \/ r.state = work[w].state
           \/ work[w].state = "ready" /\ IsHead(w) /\ r.state = "claimed"
           \/ work[w].state = "claimed"
           \/ work[w].state \in Blocked /\ r.state \in {"ready"} \cup Resolved
    PROVE  RowsStep
  <1>1. /\ DOMAIN work' = DOMAIN work
        /\ work'[w] = r
        /\ \A v \in DOMAIN work : v # w => work'[v] = work[v]
    OBVIOUS
  <1> QED
    BY <1>1 DEF RowsStep, Becomes

(* Rows are completed, and swept or not.                                     *)
LEMMA CompletedMoves ==
    ASSUME Inv, NEW S \in SUBSET DOMAIN command,
           \A i \in S : work[i].state = "claimed",
           DOMAIN work' = DOMAIN CompletedWork(S),
           \A w \in DOMAIN work' : \/ work'[w] = CompletedWork(S)[w]
                                    \/ work'[w] = Swept(w, CompletedWork(S)[w])
    PROVE  RowsStep
  <1>1. S \subseteq DOMAIN work /\ \A i \in S : i \in IntakeId
    BY DEF Inv, CommandJournal, TypeOK
  <1>2. DOMAIN work' = DOMAIN work \cup {Receipt(i) : i \in S}
    BY DEF CompletedWork
  <1>3. ASSUME NEW w \in DOMAIN work
        PROVE  Becomes(w)
    <2>1. w \in DOMAIN work' /\ work[w] \in Row
      BY <1>2 DEF Inv, TypeOK
    <2>2. CASE w \in S
      <3>1. CompletedWork(S)[w] = [work[w] EXCEPT !.state = "done",
                                                  !.generation = @ + 1, !.lease = 0]
        BY <1>2, <2>1, <2>2 DEF CompletedWork
      <3>2. work'[w] = CompletedWork(S)[w]
        BY <2>1, <3>1 DEF Swept, Row
      <3> QED
        BY <2>1, <2>2, <3>1, <3>2 DEF Becomes, Row
    <2>3. CASE w \notin S
      <3>1. CompletedWork(S)[w] = work[w]
        BY <1>2, <2>1, <2>3 DEF CompletedWork
      <3> QED
        BY <2>1, <3>1, SweptRow DEF Becomes
    <2> QED
      BY <2>2, <2>3
  <1>4. ASSUME NEW x \in DOMAIN work' \ DOMAIN work
        PROVE  Joins(x)
    <2>1. PICK i \in S : x = Receipt(i)
      BY <1>2
    <2>2. /\ Kind(x) = "delivery" /\ <<"intake", x[2]>> = i
          /\ i \in DOMAIN work /\ x \notin S
      BY <1>1, <2>1, Identities
    <2>3. CompletedWork(S)[x] = NewRow("delivery", work[i].lane)
      BY <1>2, <2>2 DEF CompletedWork
    <2>4. Swept(x, NewRow("delivery", work[i].lane)) = NewRow("delivery", work[i].lane)
      BY DEF Swept, NewRow
    <2>5. work'[x] = NewRow("delivery", work[i].lane)
      BY <2>3, <2>4
    <2> QED
      BY <2>2, <2>5 DEF Joins, NewRow
  <1> QED
    BY <1>3, <1>4 DEF RowsStep

LEMMA RowsMove ==
    ASSUME Inv, Next
    PROVE  RowsStep
  <1>1. CASE work' = work
    BY <1>1 DEF RowsStep, Becomes
  <1>2. CASE Arrival
    <2>1. PICK w \in WorkId, l \in Lane : w \notin DOMAIN work /\ InsertWork(w, l)
      BY <1>2 DEF Arrival, AcceptIntake, InsertDelivery, WorkId
    <2> QED
      BY <2>1 DEF InsertWork, RowsStep, Becomes, Joins, NewRow
  <1>3. CASE \E kind \in {"intake", "delivery"} : ClaimReady(kind)
    <2>1. PICK w \in DOMAIN work :
              Claimable(w) /\ work' = [work EXCEPT ![w] = Claimed(@)]
      BY <1>3 DEF ClaimReady
    <2>2. work[w] \in Row
      BY DEF Inv, TypeOK
    <2> QED
      BY <2>1, <2>2, OneRowMoves DEF Claimable, Claimed, Row
  <1>4. ASSUME NEW i \in DOMAIN command, work[i].state = "claimed",
               NEW result, CompleteCommand(i, result)
        PROVE  RowsStep
    <2>1. work' = CompletedWork({i})
      BY <1>4 DEF CompleteCommand
    <2>2. {i} \in SUBSET DOMAIN command /\ \A j \in {i} : work[j].state = "claimed"
      BY <1>4
    <2> QED
      BY <2>1, <2>2, CompletedMoves
  <1>5. ASSUME NEW c \in claims, NEW outcome \in {"done", "retry", "fail", "delivery_unknown"},
               Settle(c, outcome)
        PROVE  RowsStep
    <2>1. CASE Live(c) /\ RejectsCommand(c.id, outcome)
               /\ CompleteCommand(c.id, "rejected")
      BY <1>4, <2>1 DEF RejectsCommand, Status, Live
    <2>2. CASE Live(c) /\ work' = [work EXCEPT ![c.id] = Settled(@, outcome)]
      BY <2>2, LiveClaim, SettledRow, OneRowMoves
    <2> QED
      BY <1>1, <1>5, <2>1, <2>2 DEF Settle
  <1>6. ASSUME NEW c \in claims, NEW result, FinishCommand(c, result)
        PROVE  RowsStep
    <2>1. ASSUME Finishes(c, result)
          PROVE  c.id \in DOMAIN command /\ work[c.id].state = "claimed"
      BY <2>1 DEF Finishes, Status, Inv, CommandJournal, CommandResult
    <2> QED
      BY <1>1, <1>4, <1>6, <2>1 DEF FinishCommand
  <1>7. ASSUME NEW c \in claims, StartCommand(c)
        PROVE  RowsStep
    <2>1. CASE Live(c) /\ work' = [work EXCEPT ![c.id].lease = CommandTimeout]
      BY <2>1, LiveClaim, OneRowMoves DEF Row
    <2> QED
      BY <1>1, <1>7, <2>1 DEF StartCommand, Starts
  <1>8. CASE \E c \in claims : IntakeStep(c)
    BY <1>5, <1>6, <1>7, <1>8
       DEF IntakeStep, IntegrateDone, IntegrateRetry, IntegrateReject, PerformCommand
  <1>9. ASSUME NEW c \in claims, DispatchSend(c)
        PROVE  RowsStep
    <2>1. CASE Live(c) /\ work' = [work EXCEPT ![c.id].sendAttempted = TRUE]
      BY <2>1, LiveClaim, OneRowMoves DEF Row
    <2> QED
      BY <1>1, <1>9, <2>1 DEF DispatchSend
  <1>10. ASSUME NEW c \in claims, DispatchRelease(c)
         PROVE  RowsStep
    <2>1. CASE Live(c) /\ work' = [work EXCEPT ![c.id] = Released(@)]
      BY <2>1, LiveClaim, OneRowMoves DEF Released, Row
    <2> QED
      BY <1>1, <1>10, <2>1 DEF DispatchRelease
  <1>11. CASE \E c \in claims : DeliveryStep(c) \/ DispatchRelease(c) \/ Crash(c)
    BY <1>1, <1>5, <1>9, <1>10, <1>11
       DEF DeliveryStep, DispatchInvalid, DispatchSettle, Crash
  <1>12. CASE Reconcile
    <2> DEFINE S == SavedRejections \cup ExpiredCommands
    <2>1. S \in SUBSET DOMAIN command /\ \A i \in S : work[i].state = "claimed"
      BY DEF SavedRejections, ExpiredCommands, Inv, CommandJournal, CommandResult
    <2>2. work' = [w \in DOMAIN CompletedWork(S) |-> Swept(w, CompletedWork(S)[w])]
      BY <1>12 DEF Reconcile
    <2> HIDE DEF S
    <2> QED
      BY <2>1, <2>2, CompletedMoves
  <1>13. CASE Operator
    <2>1. PICK w \in DOMAIN work :
              /\ work[w].state \in Blocked
              /\ \/ work' = [work EXCEPT ![w].state = "skipped"]
                 \/ work' = [work EXCEPT ![w].state = "done"]
                 \/ work' = [work EXCEPT ![w] = Requeued(@)]
      BY <1>13 DEF Operator, Skip, ConfirmDelivered, Requeue, Blocked
    <2>2. work[w] \in Row
      BY DEF Inv, TypeOK
    <2> QED
      BY <2>1, <2>2, OneRowMoves DEF Requeued, Row, Resolved
  <1>14. CASE Tick
    <2>1. /\ DOMAIN work' = DOMAIN work
          /\ \A w \in DOMAIN work :
                work'[w] = [work[w] EXCEPT !.wait = Down(@), !.lease = Down(@)]
      BY <1>14 DEF Tick
    <2>2. \A w \in DOMAIN work : work[w] \in Row
      BY DEF Inv, TypeOK
    <2> QED
      BY <2>1, <2>2 DEF RowsStep, Becomes, Row
  <1> QED
    BY <1>2, <1>3, <1>8, <1>11, <1>12, <1>13, <1>14 DEF Next

LEMMA QueueSteps ==
    ASSUME Inv, Inv', RowsStep,
           NEW kind \in {"intake", "delivery"}, NEW l \in Lane
    PROVE  Promise!Step(Standings(kind, l), Standings(kind, l)')
  <1> DEFINE q == Standings(kind, l)
             r == Standings(kind, l)'
             n == NextSequence(kind, l) - 1
             m == NextSequence(kind, l)' - 1
  <1>1. /\ n \in Nat /\ Len(q) = n /\ DOMAIN q = 1..n
        /\ \A p \in 1..n : \E w \in Queue(kind, l) : work[w].sequence = p
        /\ \A w \in Queue(kind, l) :
              /\ work[w].sequence \in 1..n
              /\ q[work[w].sequence] = Standing(work[w].state)
    BY StandingsAt DEF Aligned
  <1>2. /\ m \in Nat /\ Len(r) = m /\ DOMAIN r = 1..m
        /\ \A p \in 1..m : \E w \in Queue(kind, l)' : work'[w].sequence = p
        /\ \A w \in Queue(kind, l)' :
              /\ work'[w].sequence \in 1..m
              /\ r[work'[w].sequence] = Standing(work'[w].state)
    BY StandingsAtNext DEF Aligned
  <1>3. \A w \in Queue(kind, l) :
            /\ w \in DOMAIN work /\ Becomes(w) /\ w \in Queue(kind, l)'
            /\ work'[w].sequence = work[w].sequence
    BY DEF Queue, RowsStep, Becomes
  <1>4. \A w \in Queue(kind, l)' :
            w \notin Queue(kind, l) =>
                work'[w].sequence = n + 1 /\ work'[w].state = "ready"
    <2> SUFFICES ASSUME NEW w \in Queue(kind, l)', w \notin Queue(kind, l)
                 PROVE  work'[w].sequence = n + 1 /\ work'[w].state = "ready"
      OBVIOUS
    <2>1. w \in DOMAIN work' /\ Kind(w) = kind /\ work'[w].lane = l
      BY DEF Queue
    <2>2. w \notin DOMAIN work
      BY <2>1 DEF Queue, RowsStep, Becomes
    <2>3. work'[w].sequence = NextSequence(kind, l) /\ work'[w].state = "ready"
      BY <2>1, <2>2 DEF RowsStep, Joins
    <2>4. NextSequence(kind, l) \in Nat
      BY StandingsAt DEF Aligned
    <2> QED
      BY <2>3, <2>4
  <1> HIDE DEF q, r, n, m
  <1>5. n <= m
    <2>1. CASE n = 0
      BY <1>1, <1>2, <2>1
    <2>2. CASE n # 0
      <3>1. PICK w \in Queue(kind, l) : work[w].sequence = n
        BY <1>1, <2>2
      <3> QED
        BY <1>1, <1>2, <1>3, <3>1
    <2> QED
      BY <2>1, <2>2
  <1>6. m <= n + 1
    <2>1. CASE m = 0
      BY <1>1, <1>2, <2>1
    <2>2. CASE m # 0
      <3>1. PICK w \in Queue(kind, l)' : work'[w].sequence = m
        BY <1>2, <2>2
      <3> QED
        BY <1>1, <1>2, <1>3, <1>4, <3>1
    <2> QED
      BY <2>1, <2>2
  <1>7. ASSUME NEW p \in 1..n, r[p] # q[p]
        PROVE  Promise!First(q, p) /\ r[p] \in Promise!MayBecome(q[p])
    <2>1. PICK w \in Queue(kind, l) : work[w].sequence = p
      BY <1>1
    <2>2. /\ q[p] = Standing(work[w].state) /\ r[p] = Standing(work'[w].state)
          /\ w \in DOMAIN work /\ w \in DOMAIN work' /\ Becomes(w)
      BY <1>1, <1>2, <1>3, <2>1 DEF Becomes
    <2>3. work[w].state \in WorkState /\ work'[w].state \in WorkState
      BY <2>2 DEF Inv, TypeOK, Row
    <2>4. IsHead(w)
      BY <1>7, <2>2 DEF Becomes, IsHead, Inv, HeadOfLine, RowsSound, Blocked, Standing
    <2>5. Promise!First(q, p)
      <3> SUFFICES ASSUME NEW k \in 1..(p - 1) PROVE q[k] = "resolved"
        BY DEF Promise!First
      <3>1. PICK v \in Queue(kind, l) : work[v].sequence = k
        BY <1>1
      <3>2. v \in DOMAIN work /\ Ahead(v, w)
        BY <2>1, <3>1 DEF Queue, Ahead, SameQueue
      <3>3. work[v].state \in Resolved
        BY <2>4, <3>2 DEF IsHead
      <3> QED
        BY <1>1, <3>1, <3>3 DEF Standing, Resolved, Blocked
    <2>6. r[p] \in Promise!MayBecome(q[p])
      BY <1>7, <2>2, <2>3
         DEF Becomes, Standing, Resolved, Blocked, WorkState, Promise!MayBecome
    <2> QED
      BY <2>5, <2>6
  <1>8. ASSUME NEW p \in 1..m, p \notin 1..n
        PROVE  r[p] = "open"
    <2>1. PICK w \in Queue(kind, l)' : work'[w].sequence = p
      BY <1>2
    <2>2. work'[w].state = "ready"
      BY <1>1, <1>3, <1>4, <1>8, <2>1
    <2>3. r[p] = Standing(work'[w].state)
      BY <1>2, <2>1
    <2> QED
      BY <2>2, <2>3 DEF Standing, Blocked, Resolved
  <1>9. Promise!Step(q, r)
    BY <1>1, <1>2, <1>5, <1>6, <1>7, <1>8 DEF Promise!Step
  <1> QED
    BY <1>9 DEF q, r

(* Every queue of the store keeps the promise: rows join at the end, only    *)
(* the first unresolved one is worked on, a resolved one stays so.           *)
THEOREM ImplementsQueue == Spec => QueuePromise
  <1> DEFINE queues == [k \in QueueName |-> Standings(k[1], k[2])]
  <1>1. Init => Promise!Init
    <2> SUFFICES ASSUME Init PROVE Promise!Init
      OBVIOUS
    <2>1. Inv /\ DOMAIN work = {}
      BY InitInv DEF Init
    <2>2. ASSUME NEW kind \in {"intake", "delivery"}, NEW l \in Lane
          PROVE  Standings(kind, l) = <<>>
      <3>1. NextSequence(kind, l) \in Nat \ {0}
            /\ \A p \in 1..(NextSequence(kind, l) - 1) :
                  \E w \in Queue(kind, l) : work[w].sequence = p
        BY <2>1, StandingsAt DEF Aligned
      <3>2. Queue(kind, l) = {}
        BY <2>1 DEF Queue
      <3>3. NextSequence(kind, l) - 1 = 0
        <4>1. 1 \notin 1..(NextSequence(kind, l) - 1)
          BY <3>1, <3>2
        <4> QED
          BY <3>1, <4>1
      <3> QED
        BY <3>3 DEF Standings
    <2> QED
      BY <2>2 DEF Promise!Init, QueueName
  <1>2. Inv /\ Inv' /\ [Next]_vars => [Promise!Next]_queues
    <2> SUFFICES ASSUME Inv, Inv', [Next]_vars PROVE [Promise!Next]_queues
      OBVIOUS
    <2>1. CASE Next
      <3>1. RowsStep
        BY <2>1, RowsMove
      <3>2. \A k \in QueueName :
                Promise!Step(Standings(k[1], k[2]), Standings(k[1], k[2])')
        BY <3>1, QueueSteps DEF QueueName
      <3> QED
        BY <3>2 DEF Promise!Next
    <2>2. CASE UNCHANGED vars
      BY <2>2 DEF vars, Standings, RowAt, Queue, Sequences, NextSequence
    <2> QED
      BY <2>1, <2>2
  <1> QED
    BY <1>1, <1>2, Invariance, PTL DEF Spec, QueuePromise, Promise!Spec
================================================================================
