------------------------- MODULE EventServiceRunProofs -------------------------
(* Proofs of the safety properties of EventServiceRun, for every number of   *)
(* conversations, slots, messages, iterations and pauses. First the capacity *)
(* pool by itself (RunAdmission): its invariant, and for each operation what *)
(* it does to those who have a handle and those who wait for one.            *)
EXTENDS EventServiceRun, FiniteSetTheorems, SequenceTheorems, TLAPS

LEMMA ReservationOf ==
    ASSUME NEW o, Holds(o)
    PROVE  Reservation(o) \in held /\ o \in Reservation(o)
  BY DEF Holds, Reservation

LEMMA AdmissionInitially == AdmissionInit => AdmissionInv
  <1> SUFFICES ASSUME AdmissionInit PROVE AdmissionInv
    OBVIOUS
  <1> USE DEF AdmissionInit
  <1>1. AdmissionTypeOK
    BY RunAdmissionAssumption DEF AdmissionTypeOK
  <1>2. SlotsConserved
    BY FS_EmptySet, RunAdmissionAssumption DEF SlotsConserved
  <1>3. NoIdleSlot /\ OwnersDistinct
    BY DEF NoIdleSlot, OwnersDistinct, Holds, Waits
  <1> QED
    BY <1>1, <1>2, <1>3 DEF AdmissionInv

(* A reservation of one new owner takes a slot.                              *)
LEMMA TryAcquireStep ==
    ASSUME AdmissionInv, NEW o \in Owner, Fresh(o), TryAcquire(o)
    PROVE  /\ AdmissionInv'
           /\ Holds(o)'
           /\ \A p : p # o => Holds(p)' = Holds(p)
           /\ \A p : Waits(p)' = Waits(p)
  <1> USE DEF AdmissionInv, TryAcquire, Fresh
  <1>1. {o} \notin held
    BY DEF Holds
  <1>2. AdmissionTypeOK'
    BY DEF AdmissionTypeOK
  <1>3. SlotsConserved'
    <2>1. IsFiniteSet(held') /\ Cardinality(held') = Cardinality(held) + 1
      BY <1>1, FS_AddElement DEF SlotsConserved
    <2>2. Cardinality(held) \in Nat
      BY FS_CardinalityType DEF SlotsConserved
    <2> QED
      BY <2>1, <2>2 DEF SlotsConserved, AdmissionTypeOK
  <1>4. Holds(o)' /\ \A p : p # o => Holds(p)' = Holds(p)
    BY DEF Holds
  <1>5. \A p : Waits(p)' = Waits(p)
    BY DEF Waits
  <1>6. NoIdleSlot'
    BY RunAdmissionAssumption DEF NoIdleSlot, AdmissionTypeOK
  <1>7. OwnersDistinct'
    <2>0. \A r \in held : {o} \cap r = {} /\ r \cap {o} = {}
      BY DEF Holds
    <2>1. /\ \A r \in held' : r # {}
          /\ \A r, s \in held' : r # s => r \cap s = {}
      BY <2>0 DEF OwnersDistinct
    <2>2. \A p \in Owner : ~(Holds(p)' /\ Waits(p)')
      BY <1>4, <1>5 DEF OwnersDistinct
    <2> QED
      BY <2>1, <2>2 DEF OwnersDistinct
  <1> QED
    BY <1>2, <1>3, <1>4, <1>5, <1>6, <1>7

(* A new owner waits at the end of the queue.                                *)
LEMMA EnqueueStep ==
    ASSUME AdmissionInv, NEW o \in Owner, Fresh(o), Enqueue(o)
    PROVE  /\ AdmissionInv'
           /\ Waits(o)'
           /\ \A p : Holds(p)' = Holds(p)
           /\ \A p : p # o => Waits(p)' = Waits(p)
  <1> USE DEF AdmissionInv, Enqueue, Fresh
  <1>1. /\ waiters' \in Seq(Owner)
        /\ Len(waiters') = Len(waiters) + 1
        /\ \A i \in 1..Len(waiters) : waiters'[i] = waiters[i]
        /\ waiters'[Len(waiters) + 1] = o
        /\ Len(waiters) \in Nat
    BY AppendProperties, LenProperties DEF AdmissionTypeOK
  <1>2. AdmissionTypeOK' /\ SlotsConserved' /\ NoIdleSlot'
    BY <1>1 DEF AdmissionTypeOK, SlotsConserved, NoIdleSlot
  <1>3. \A p : Holds(p)' = Holds(p)
    BY DEF Holds
  <1>4. Waits(o)' /\ \A p : p # o => Waits(p)' = Waits(p)
    BY <1>1 DEF Waits
  <1>5. \A i, j \in 1..Len(waiters') : waiters'[i] = waiters'[j] => i = j
    BY <1>1 DEF OwnersDistinct, Waits
  <1>6. OwnersDistinct'
    BY <1>3, <1>4, <1>5 DEF OwnersDistinct
  <1> QED
    BY <1>2, <1>3, <1>4, <1>6

(* What is left of a queue when one of its places is given up.               *)
LEMMA RemoveAtProperties ==
    ASSUME NEW S, NEW q \in Seq(S), NEW k \in 1..Len(q)
    PROVE  /\ RemoveAt(q, k) \in Seq(S)
           /\ Len(RemoveAt(q, k)) = Len(q) - 1
           /\ \A i \in 1..Len(q) - 1 :
                 RemoveAt(q, k)[i] = q[IF i < k THEN i ELSE i + 1]
  <1> DEFINE front == SubSeq(q, 1, k - 1)
             back  == SubSeq(q, k + 1, Len(q))
  <1>1. Len(q) \in Nat /\ \A i \in 1..Len(q) : q[i] \in S
    BY LenProperties, ElementOfSeq
  <1>2. /\ front \in Seq(S)
        /\ Len(front) = k - 1
        /\ \A i \in 1..k - 1 : front[i] = q[i]
    <2>1. \A i \in 1..k - 1 : q[i] \in S
      BY <1>1
    <2>2. 1 \in Int /\ k - 1 \in Int
      BY <1>1
    <2>3. /\ front \in Seq(S)
          /\ Len(front) = IF 1 <= k - 1 THEN k - 1 - 1 + 1 ELSE 0
          /\ \A i \in 1..k - 1 - 1 + 1 : front[i] = q[1 + i - 1]
      BY <2>1, <2>2, SubSeqProperties
    <2> QED
      BY <2>3, <1>1
  <1>3. /\ back \in Seq(S)
        /\ Len(back) = Len(q) - k
        /\ \A i \in 1..Len(q) - k : back[i] = q[k + i]
    <2>1. \A i \in k + 1..Len(q) : q[i] \in S
      BY <1>1
    <2>2. k + 1 \in Int /\ Len(q) \in Int
      BY <1>1
    <2>3. /\ back \in Seq(S)
          /\ Len(back) = IF k + 1 <= Len(q) THEN Len(q) - (k + 1) + 1 ELSE 0
          /\ \A i \in 1..Len(q) - (k + 1) + 1 : back[i] = q[k + 1 + i - 1]
      BY <2>1, <2>2, SubSeqProperties
    <2> QED
      BY <2>3, <1>1
  <1> HIDE DEF front, back
  <1>4. /\ front \o back \in Seq(S)
        /\ Len(front \o back) = Len(front) + Len(back)
        /\ \A i \in 1..Len(front) + Len(back) :
              (front \o back)[i] = IF i <= Len(front) THEN front[i]
                                   ELSE back[i - Len(front)]
    BY <1>2, <1>3, ConcatProperties
  <1>5. RemoveAt(q, k) = front \o back
    BY DEF RemoveAt, front, back
  <1>6. Len(front) + Len(back) = Len(q) - 1
    BY <1>1, <1>2, <1>3
  <1>7. ASSUME NEW i \in 1..Len(q) - 1
        PROVE  (front \o back)[i] = q[IF i < k THEN i ELSE i + 1]
    <2>1. CASE i < k
      BY <2>1, <1>1, <1>2, <1>4, <1>6
    <2>2. CASE ~(i < k)
      <3>1. i - (k - 1) \in 1..Len(q) - k /\ ~(i <= k - 1)
        BY <2>2, <1>1
      <3>2. (front \o back)[i] = back[i - (k - 1)]
        BY <3>1, <1>2, <1>4, <1>6
      <3>3. back[i - (k - 1)] = q[k + (i - (k - 1))]
        BY <3>1, <1>3
      <3> QED
        BY <3>2, <3>3, <2>2, <1>1
    <2> QED
      BY <2>1, <2>2
  <1> QED
    BY <1>4, <1>5, <1>6, <1>7

(* A waiter leaves and the others keep their order.                          *)
LEMMA AbortStep ==
    ASSUME AdmissionInv, NEW o \in Owner, Abort(o)
    PROVE  /\ AdmissionInv'
           /\ ~Waits(o)'
           /\ \A p : Holds(p)' = Holds(p)
           /\ \A p : p # o => Waits(p)' = Waits(p)
  <1> USE DEF AdmissionInv
  <1>1. PICK k \in 1..Len(waiters) :
           waiters[k] = o /\ waiters' = RemoveAt(waiters, k)
    BY DEF Abort
  <1>2. UNCHANGED <<available, held>>
    BY DEF Abort
  <1>3. /\ waiters' \in Seq(Owner)
        /\ Len(waiters') = Len(waiters) - 1
        /\ \A i \in 1..Len(waiters) - 1 :
              waiters'[i] = waiters[IF i < k THEN i ELSE i + 1]
    BY <1>1, RemoveAtProperties DEF AdmissionTypeOK
  <1>4. Len(waiters) \in Nat
    BY LenProperties DEF AdmissionTypeOK
  <1>5. available = 0
    <2>1. waiters # <<>>
      BY <1>1
    <2> QED
      BY <2>1 DEF NoIdleSlot
  <1>6. AdmissionTypeOK' /\ SlotsConserved' /\ NoIdleSlot'
    BY <1>2, <1>3, <1>5 DEF AdmissionTypeOK, SlotsConserved, NoIdleSlot
  <1>7. \A p : Holds(p)' = Holds(p)
    BY <1>2 DEF Holds
  <1>8. \A i, j \in 1..Len(waiters) : waiters[i] = waiters[j] => i = j
    BY DEF OwnersDistinct
  <1>9. \A i, j \in 1..Len(waiters') : waiters'[i] = waiters'[j] => i = j
    BY <1>3, <1>4, <1>8
  <1>10. ~Waits(o)'
    BY <1>1, <1>3, <1>4, <1>8 DEF Waits
  <1>11. ASSUME NEW p, p # o
         PROVE  Waits(p)' = Waits(p)
    <2>1. ASSUME Waits(p)' PROVE Waits(p)
      BY <2>1, <1>3, <1>4 DEF Waits
    <2>2. ASSUME Waits(p) PROVE Waits(p)'
      <3>1. PICK i \in 1..Len(waiters) : waiters[i] = p
        BY <2>2 DEF Waits
      <3>2. i # k
        BY <3>1, <1>1, <1>11
      <3> DEFINE j == IF i < k THEN i ELSE i - 1
      <3>3. j \in 1..Len(waiters) - 1 /\ (IF j < k THEN j ELSE j + 1) = i
        BY <3>2, <1>4
      <3>4. waiters'[j] = p
        BY <3>1, <3>3, <1>3
      <3> QED
        BY <3>3, <3>4, <1>3 DEF Waits
    <2>3. Waits(p)' \in BOOLEAN /\ Waits(p) \in BOOLEAN
      BY DEF Waits
    <2> QED
      BY <2>1, <2>2, <2>3
  <1>12. OwnersDistinct'
    <2>1. \A p \in Owner : ~(Holds(p)' /\ Waits(p)')
      BY <1>7, <1>10, <1>11 DEF OwnersDistinct
    <2> QED
      BY <2>1, <1>2, <1>9 DEF OwnersDistinct
  <1> QED
    BY <1>6, <1>7, <1>10, <1>11, <1>12

(* A second handle takes no slot of its own.                                 *)
LEMMA ShareStep ==
    ASSUME AdmissionInv, NEW o \in Owner, NEW p \in Owner, Fresh(p), Share(o, p)
    PROVE  /\ AdmissionInv'
           /\ Holds(p)'
           /\ \A x : x # p => Holds(x)' = Holds(x)
           /\ \A x : Waits(x)' = Waits(x)
  <1> USE DEF AdmissionInv, Share, Fresh
  <1> DEFINE r == Reservation(o)
             s == r \cup {p}
             rest == held \ {r}
  <1>1. r \in held /\ o \in r
    BY ReservationOf
  <1>2. s \notin rest /\ \A a \in held : p \notin a
    BY DEF Holds
  <1>3. AdmissionTypeOK'
    BY <1>1 DEF AdmissionTypeOK
  <1>4. SlotsConserved'
    <2>1. IsFiniteSet(rest) /\ Cardinality(rest) = Cardinality(held) - 1
      BY <1>1, FS_RemoveElement DEF SlotsConserved
    <2>2. IsFiniteSet(held') /\ Cardinality(held') = Cardinality(rest) + 1
      BY <1>2, <2>1, FS_AddElement
    <2>3. Cardinality(held) \in Nat
      BY FS_CardinalityType DEF SlotsConserved
    <2> QED
      BY <2>1, <2>2, <2>3 DEF SlotsConserved
  <1>5. Holds(p)' /\ \A x : x # p => Holds(x)' = Holds(x)
    <2>1. held' = rest \cup {s}
      OBVIOUS
    <2>2. p \in s /\ \A x : x # p => (x \in s <=> x \in r)
      OBVIOUS
    <2>3. held = rest \cup {r}
      BY <1>1
    <2> HIDE DEF r, s, rest
    <2>4. Holds(p)'
      BY <2>1, <2>2 DEF Holds
    <2>5. \A x : x # p => (Holds(x)' <=> Holds(x))
      BY <2>1, <2>2, <2>3 DEF Holds
    <2> QED
      BY <2>4, <2>5 DEF Holds
  <1>6. \A x : Waits(x)' = Waits(x)
    BY DEF Waits
  <1>7. NoIdleSlot'
    BY DEF NoIdleSlot
  <1>8. OwnersDistinct'
    <2>1. \A a \in rest : s \cap a = {} /\ a \cap s = {}
      BY <1>1, <1>2 DEF OwnersDistinct
    <2>2. /\ \A a \in held' : a # {}
          /\ \A a, b \in held' : a # b => a \cap b = {}
      BY <2>1 DEF OwnersDistinct
    <2>3. \A x \in Owner : ~(Holds(x)' /\ Waits(x)')
      BY <1>5, <1>6 DEF OwnersDistinct
    <2> QED
      BY <2>2, <2>3 DEF OwnersDistinct
  <1> QED
    BY <1>3, <1>4, <1>5, <1>6, <1>7, <1>8

(* The slot of a reservation that ended goes to the first waiter, if there   *)
(* is one, and nobody else notices.                                          *)
LEMMA FreedStep ==
    ASSUME AdmissionInv, NEW o \in Owner, Holds(o), Reservation(o) = {o},
           Freed(held \ {Reservation(o)})
    PROVE  /\ AdmissionInv'
           /\ ~Holds(o)'
           /\ ~Waits(o)'
           /\ \A p : p # o => /\ Holds(p) => Holds(p)'
                              /\ Waits(p)' => Waits(p)
                              /\ (Holds(p) \/ Waits(p)) <=> (Holds(p)' \/ Waits(p)')
  <1> USE DEF AdmissionInv
  <1> DEFINE rest == held \ {{o}}
  <1>1. {o} \in held
    BY ReservationOf
  <1>2. IsFiniteSet(rest) /\ Cardinality(rest) = Cardinality(held) - 1
    BY <1>1, FS_RemoveElement DEF SlotsConserved
  <1>3. Cardinality(held) \in Nat
    BY FS_CardinalityType DEF SlotsConserved
  <1>4. \A r \in rest : o \notin r
    BY <1>1 DEF OwnersDistinct
  <1>5. \A r, s \in held : r # s => r \cap s = {}
    BY DEF OwnersDistinct
  <1>6. \A i, j \in 1..Len(waiters) : waiters[i] = waiters[j] => i = j
    BY DEF OwnersDistinct
  <1>7. ~Waits(o)
    BY DEF OwnersDistinct
  <1>8. Freed(rest)
    OBVIOUS
  <1>9. CASE waiters = <<>>
    <2>1. available' = available + 1 /\ held' = rest /\ waiters' = waiters
      BY <1>8, <1>9 DEF Freed
    <2>2. AdmissionTypeOK' /\ SlotsConserved' /\ NoIdleSlot'
      BY <2>1, <1>2, <1>3, <1>9
      DEF AdmissionTypeOK, SlotsConserved, NoIdleSlot
    <2>3. \A p : Waits(p)' = Waits(p)
      BY <2>1 DEF Waits
    <2>4. ~Holds(o)' /\ \A p : p # o => Holds(p)' = Holds(p)
      BY <2>1, <1>4 DEF Holds
    <2>5. OwnersDistinct'
      <3>1. \A p \in Owner : ~(Holds(p)' /\ Waits(p)')
        BY <2>3, <2>4 DEF OwnersDistinct
      <3> QED
        BY <3>1, <2>1 DEF OwnersDistinct
    <2> QED
      BY <2>2, <2>3, <2>4, <2>5, <1>7
  <1>10. CASE waiters # <<>>
    <2>1. PICK w : w = Head(waiters)
      OBVIOUS
    <2>2. /\ available' = available
          /\ held' = rest \cup {{w}}
          /\ waiters' = Tail(waiters)
      BY <1>8, <1>10, <2>1 DEF Freed
    <2>3. /\ w \in Owner
          /\ waiters' \in Seq(Owner)
          /\ Len(waiters') = Len(waiters) - 1
          /\ \A i \in 1..Len(waiters') : waiters'[i] = waiters[i + 1]
      BY <2>1, <2>2, <1>10, HeadTailProperties DEF AdmissionTypeOK
    <2>4. Len(waiters) \in Nat \ {0} /\ w = waiters[1]
      BY <2>1, <1>10, EmptySeq DEF AdmissionTypeOK
    <2> HIDE DEF rest
    <2>5. Waits(w) /\ w # o /\ ~Holds(w)
      <3>1. Waits(w)
        BY <2>4 DEF Waits
      <3> QED
        BY <3>1, <2>3, <1>7 DEF OwnersDistinct
    <2>6. \A r \in held : w \notin r
      BY <2>5 DEF Holds
    <2>7. AdmissionTypeOK'
      BY <2>2, <2>3 DEF AdmissionTypeOK, rest
    <2>8. SlotsConserved'
      <3>1. {w} \notin rest
        BY <2>6 DEF rest
      <3>2. IsFiniteSet(held') /\ Cardinality(held') = Cardinality(rest) + 1
        BY <3>1, <2>2, <1>2, FS_AddElement
      <3> QED
        BY <3>2, <2>2, <1>2, <1>3 DEF SlotsConserved
    <2>9. NoIdleSlot'
      BY <2>2, <1>10 DEF NoIdleSlot
    <2>10. /\ ~Holds(o)'
          /\ Holds(w)'
          /\ \A p : p # o /\ p # w => Holds(p)' = Holds(p)
      <3>1. held = rest \cup {{o}}
        BY <1>1 DEF rest
      <3>2. ~Holds(o)' /\ Holds(w)'
        BY <2>2, <2>5, <1>4 DEF Holds
      <3>3. \A p : p # o /\ p # w => (Holds(p)' <=> Holds(p))
        BY <3>1, <2>2 DEF Holds
      <3> QED
        BY <3>2, <3>3 DEF Holds
    <2>11. ~Waits(w)'
      BY <2>3, <2>4, <1>6 DEF Waits
    <2>12. ASSUME NEW p
           PROVE  /\ Waits(p)' => Waits(p)
                  /\ Waits(p) => Waits(p)' \/ p = w
      <3>1. ASSUME Waits(p)' PROVE Waits(p)
        BY <3>1, <2>3, <2>4 DEF Waits
      <3>2. ASSUME Waits(p), p # w PROVE Waits(p)'
        <4>1. PICK i \in 1..Len(waiters) : waiters[i] = p
          BY <3>2 DEF Waits
        <4>2. i - 1 \in 1..Len(waiters') /\ waiters'[i - 1] = p
          BY <4>1, <3>2, <2>3, <2>4
        <4> QED
          BY <4>2 DEF Waits
      <3> QED
        BY <3>1, <3>2
    <2>13. OwnersDistinct'
      <3>1. \A i, j \in 1..Len(waiters') : waiters'[i] = waiters'[j] => i = j
        BY <2>3, <2>4, <1>6
      <3>2. \A r \in held' : r # {}
        BY <2>2 DEF OwnersDistinct, rest
      <3>3. \A r, s \in held' : r # s => r \cap s = {}
        <4>1. \A r \in rest : r \in held /\ {w} \cap r = {} /\ r \cap {w} = {}
          BY <2>6 DEF rest
        <4> QED
          BY <4>1, <2>2, <1>5
      <3>4. \A p \in Owner : ~(Holds(p)' /\ Waits(p)')
        BY <2>10, <2>11, <2>12 DEF OwnersDistinct
      <3> QED
        BY <3>1, <3>2, <3>3, <3>4 DEF OwnersDistinct
    <2> QED
      BY <2>5, <2>7, <2>8, <2>9, <2>10, <2>11, <2>12, <2>13, <1>7
  <1> QED
    BY <1>9, <1>10

(* A handle is given back: the others keep theirs, and a slot that comes     *)
(* free passes to a waiter.                                                  *)
LEMMA ReleaseStep ==
    ASSUME AdmissionInv, NEW o \in Owner, Release(o)
    PROVE  /\ AdmissionInv'
           /\ ~Holds(o)'
           /\ ~Waits(o)'
           /\ \A p : p # o => /\ Holds(p) => Holds(p)'
                              /\ Waits(p)' => Waits(p)
                              /\ (Holds(p) \/ Waits(p)) <=> (Holds(p)' \/ Waits(p)')
  <1> USE DEF AdmissionInv
  <1> DEFINE r == Reservation(o)
             others == r \ {o}
             rest == held \ {r}
  <1>1. Holds(o)
    BY DEF Release
  <1>2. r \in held /\ o \in r
    BY <1>1, ReservationOf
  <1>3. \/ others = {} /\ Freed(rest)
        \/ /\ others # {}
           /\ held' = rest \cup {others}
           /\ UNCHANGED <<available, waiters>>
    BY DEF Release
  <1>4. CASE others = {} /\ Freed(rest)
    <2>1. r = {o}
      BY <1>2, <1>4
    <2> QED
      BY <2>1, <1>1, <1>4, FreedStep
  <1>5. CASE /\ others # {}
             /\ held' = rest \cup {others}
             /\ UNCHANGED <<available, waiters>>
    <2>1. \A a, b \in held : a # b => a \cap b = {}
      BY DEF OwnersDistinct
    <2>2. \A a \in rest : o \notin a /\ a \cap others = {}
      BY <2>1, <1>2
    <2>3. others \notin rest
      BY <2>2, <1>5
    <2>4. AdmissionTypeOK'
      BY <1>2, <1>5 DEF AdmissionTypeOK
    <2>5. SlotsConserved'
      <3>1. IsFiniteSet(rest) /\ Cardinality(rest) = Cardinality(held) - 1
        BY <1>2, FS_RemoveElement DEF SlotsConserved
      <3>2. IsFiniteSet(held') /\ Cardinality(held') = Cardinality(rest) + 1
        BY <2>3, <3>1, <1>5, FS_AddElement
      <3>3. Cardinality(held) \in Nat
        BY FS_CardinalityType DEF SlotsConserved
      <3> QED
        BY <3>1, <3>2, <3>3, <1>5 DEF SlotsConserved
    <2>6. NoIdleSlot'
      BY <1>5 DEF NoIdleSlot
    <2>7. ~Holds(o)' /\ \A p : p # o => Holds(p)' = Holds(p)
      BY <2>2, <1>2, <1>5 DEF Holds
    <2>8. \A p : Waits(p)' = Waits(p)
      BY <1>5 DEF Waits
    <2>9. ~Waits(o)
      BY <1>1 DEF OwnersDistinct
    <2>10. OwnersDistinct'
      <3>1. /\ \A a \in held' : a # {}
            /\ \A a, b \in held' : a # b => a \cap b = {}
        BY <2>1, <2>2, <1>5 DEF OwnersDistinct
      <3>2. \A p \in Owner : ~(Holds(p)' /\ Waits(p)')
        BY <2>7, <2>8, <2>9 DEF OwnersDistinct
      <3> QED
        BY <3>1, <3>2, <1>5 DEF OwnersDistinct
    <2> QED
      BY <2>4, <2>5, <2>6, <2>7, <2>8, <2>9, <2>10
  <1> QED
    BY <1>3, <1>4, <1>5

LEMMA AdmissionStep ==
    ASSUME AdmissionInv, [AdmissionNext]_admission
    PROVE  AdmissionInv'
  <1>1. ASSUME NEW o \in Owner, Fresh(o), TryAcquire(o) PROVE AdmissionInv'
    BY <1>1, TryAcquireStep
  <1>2. ASSUME NEW o \in Owner, Fresh(o), Enqueue(o) PROVE AdmissionInv'
    BY <1>2, EnqueueStep
  <1>3. ASSUME NEW o \in Owner, Abort(o) PROVE AdmissionInv'
    BY <1>3, AbortStep
  <1>4. ASSUME NEW o \in Owner, NEW p \in Owner, Fresh(p), Share(o, p)
        PROVE  AdmissionInv'
    BY <1>4, ShareStep
  <1>5. ASSUME NEW o \in Owner, Release(o) PROVE AdmissionInv'
    BY <1>5, ReleaseStep
  <1>6. CASE UNCHANGED admission
    BY <1>6 DEF admission, AdmissionInv, AdmissionTypeOK, SlotsConserved,
                NoIdleSlot, OwnersDistinct, Holds, Waits
  <1> QED
    BY <1>1, <1>2, <1>3, <1>4, <1>5, <1>6 DEF AdmissionNext

(* The pool neither loses nor makes slots, leaves none idle beside a waiter, *)
(* and gives every owner one handle or one place, however acquire, abort,    *)
(* share and release follow each other (runAdmission.ts).                    *)
THEOREM AdmissionSafe == AdmissionSpec => []AdmissionInv
  <1>1. AdmissionInv /\ [AdmissionNext]_admission => AdmissionInv'
    BY AdmissionStep
  <1> QED
    BY <1>1, AdmissionInitially, PTL DEF AdmissionSpec

-------------------------------------------------------------------------------
(* What an operation of the pool does to its owner and to the others.        *)

(* The others keep their handles, and get one only if they waited for it.    *)
KeepsOthers(o) ==
    \A p : p # o => /\ Holds(p) => Holds(p)'
                    /\ Waits(p)' => Waits(p)
                    /\ Holds(p)' => Holds(p) \/ Waits(p)

Effect(o) ==
    AdmissionInv' /\ [AdmissionNext]_admission /\ KeepsOthers(o)

LEMMA Owners ==
    /\ \A c \in Conversation : Runner(c) \in Owner /\ Creator(c) \in Owner
    /\ \A c, d : Runner(c) # Creator(d)
    /\ \A c, d : c # d => Runner(c) # Runner(d) /\ Creator(c) # Creator(d)
  BY EventServiceAssumption DEF Runner, Creator

LEMMA Taken ==
    ASSUME AdmissionInv, NEW o \in Owner, Fresh(o), TryAcquire(o)
    PROVE  Effect(o) /\ Holds(o)' /\ ~Waits(o)'
  BY TryAcquireStep DEF Effect, KeepsOthers, AdmissionNext, Fresh

LEMMA Enqueued ==
    ASSUME AdmissionInv, NEW o \in Owner, Fresh(o), Enqueue(o)
    PROVE  Effect(o) /\ ~Holds(o)' /\ Waits(o)'
  BY EnqueueStep DEF Effect, KeepsOthers, AdmissionNext, Fresh

LEMMA Aborted ==
    ASSUME AdmissionInv, NEW o \in Owner, Abort(o)
    PROVE  Effect(o) /\ ~Waits(o)' /\ Holds(o)' = Holds(o)
  BY AbortStep DEF Effect, KeepsOthers, AdmissionNext

LEMMA Shared ==
    ASSUME AdmissionInv, NEW o \in Owner, NEW p \in Owner, Fresh(p), Share(o, p)
    PROVE  Effect(p) /\ Holds(p)' /\ ~Waits(p)'
  BY ShareStep DEF Effect, KeepsOthers, AdmissionNext, Fresh

LEMMA Released ==
    ASSUME AdmissionInv, NEW o \in Owner, Release(o)
    PROVE  Effect(o) /\ ~Holds(o)' /\ ~Waits(o)'
  BY ReleaseStep DEF Effect, KeepsOthers, AdmissionNext

LEMMA Untouched ==
    ASSUME AdmissionInv, UNCHANGED admission
    PROVE  /\ \A o : Effect(o)
           /\ \A o : Holds(o)' = Holds(o) /\ Waits(o)' = Waits(o)
  <1>1. \A o : Holds(o)' = Holds(o) /\ Waits(o)' = Waits(o)
    BY DEF admission, Holds, Waits
  <1>2. AdmissionInv'
    BY AdmissionStep
  <1> QED
    BY <1>1, <1>2 DEF Effect, KeepsOthers

LEMMA GivenBack ==
    ASSUME AdmissionInv, NEW o \in Owner, ~Waits(o), GiveBack(o)
    PROVE  Effect(o) /\ ~Holds(o)' /\ ~Waits(o)'
  BY Released, Untouched DEF GiveBack
-------------------------------------------------------------------------------
(* Types. *)

Typed ==
    /\ service \in [Conversation -> Service]
    /\ requests \subseteq Request
    /\ history \in [Conversation -> History]

LEMMA Becomes ==
    ASSUME Typed, NEW c \in Conversation, NEW t, Become(c, t)
    PROVE  /\ service'[c] = t
           /\ \A d \in Conversation : d # c => service'[d] = service[d]
           /\ t \in Service => service' \in [Conversation -> Service]
  BY DEF Typed, Become

LEMMA Recorded ==
    ASSUME Typed, NEW c \in Conversation, NEW h, Record(c, h)
    PROVE  /\ history'[c] = h
           /\ \A d \in Conversation : d # c => history'[d] = history[d]
           /\ h \in History => history' \in [Conversation -> History]
  BY DEF Typed, Record

LEMMA ServiceFields ==
    ASSUME NEW s \in Service
    PROVE  /\ s.phase \in {"absent", "creating", "open", "closing", "closed"}
           /\ s.pc \in {"none", "entry", "waiting", "preparing", "stepping",
                        "thinking", "tail", "failing", "settled"}
           /\ s.started \in Nat /\ s.generation \in Nat /\ s.latest \in Nat
           /\ s.read \in Nat /\ s.seen \in Nat /\ s.iteration \in Nat
           /\ s.pauses \in Nat /\ s.rerun \in BOOLEAN /\ s.agent \in BOOLEAN
           /\ s.status \in {"idle", "running", "paused", "finished", "error"}
  BY DEF Service

LEMMA HistoryTypes ==
    ASSUME Typed, NEW c \in Conversation
    PROVE  /\ history[c] \in History
           /\ Settled(history[c]) \in History
           /\ \A m, sound : Accepted(c, m, sound) =>
                               history' \in [Conversation -> History]
  <1>1. history[c] \in History
    BY DEF Typed
  <1>2. Settled(history[c]) \in History
    BY <1>1 DEF History, Settled
  <1>3. ASSUME NEW m, NEW sound, Accepted(c, m, sound)
        PROVE  history' \in [Conversation -> History]
    <2> DEFINE h == [history[c] EXCEPT
                        !.accepted = @ \/ m > history[c].known,
                        !.owed = @ \/ (sound /\ m > history[c].known),
                        !.halted = "no"]
    <2>1. h \in History
      BY <1>1 DEF History
    <2>2. Record(c, h)
      BY <1>3 DEF Accepted
    <2> QED
      BY <2>1, <2>2, Recorded
  <1> QED
    BY <1>1, <1>2, <1>3

LEMMA LaunchType ==
    ASSUME NEW s \in Service
    PROVE  Launch(s) \in Service /\ Prepared(s) \in Service /\ Idle(s) \in Service
  BY DEF Service, Launch, Prepared, Idle

LEMMA CreateTypes ==
    ASSUME Typed, NEW c \in Conversation, CreateStep(c) \/ Create(c)
    PROVE  Typed'
  <1>1. service[c] \in Service
    BY DEF Typed
  <1>2. CASE Create(c) \/ Initialize(c) \/ Created(c) \/ CreateFails(c)
    <2>1. PICK t \in Service : Become(c, t)
      <3>1. /\ [service[c] EXCEPT !.phase = "creating"] \in Service
            /\ [service[c] EXCEPT !.agent = TRUE] \in Service
            /\ [service[c] EXCEPT !.phase = "open"] \in Service
            /\ [service[c] EXCEPT !.phase = "absent", !.agent = FALSE] \in Service
        BY <1>1 DEF Service
      <3> QED
        BY <1>2, <3>1 DEF Create, Initialize, Created, CreateFails
    <2>2. UNCHANGED <<requests, history>>
      BY <1>2 DEF Create, Initialize, Created, CreateFails
    <2> QED
      BY <2>1, <2>2, Becomes DEF Typed
  <1>3. ASSUME NEW run \in BOOLEAN, InitialMessage(c, run)
        PROVE  Typed'
    <2> DEFINE s == [service[c] EXCEPT !.latest = 1]
    <2>1. s \in Service
      BY <1>1 DEF Service
    <2>2. [s EXCEPT !.pc = "entry", !.started = s.generation] \in Service
      BY <2>1 DEF Service
    <2>3. UNCHANGED requests
      BY <1>3 DEF InitialMessage
    <2>4. \/ Become(c, s) /\ UNCHANGED history
          \/ /\ Become(c, [s EXCEPT !.pc = "entry", !.started = s.generation])
             /\ Accepted(c, 1, TRUE)
      BY <1>3 DEF InitialMessage
    <2> HIDE DEF s
    <2>5. service' \in [Conversation -> Service]
      BY <2>1, <2>2, <2>4, Becomes
    <2>6. history' \in [Conversation -> History]
      BY <2>4, HistoryTypes DEF Typed
    <2> QED
      BY <2>3, <2>5, <2>6 DEF Typed
  <1>4. CASE CreatorReleases(c)
    BY <1>4 DEF CreatorReleases, Typed
  <1> QED
    BY <1>2, <1>3, <1>4 DEF CreateStep

LEMMA PostTypes ==
    ASSUME Typed, NEW c \in Conversation, NEW m, NEW run, Post(c, m, run)
    PROVE  /\ service' \in [Conversation -> Service]
           /\ history' \in [Conversation -> History]
  <1> DEFINE s == [service[c] EXCEPT !.status = IF @ = "running" THEN @ ELSE "idle"]
  <1>1. service[c] \in Service
    BY DEF Typed
  <1>2. s \in Service
    BY <1>1 DEF Service
  <1>3. [s EXCEPT !.rerun = TRUE] \in Service
    BY <1>2 DEF Service
  <1>4. Launch(s) \in Service
    BY <1>2, LaunchType
  <1>5. \/ Become(c, s) /\ UNCHANGED history
        \/ Become(c, Launch(s)) /\ Accepted(c, m, TRUE)
        \/ /\ Become(c, [s EXCEPT !.rerun = TRUE])
           /\ Accepted(c, m, ~Stopped(s) /\ s.pc # "failing")
    BY DEF Post
  <1> HIDE DEF s
  <1>6. service' \in [Conversation -> Service]
    BY <1>2, <1>3, <1>4, <1>5, Becomes
  <1>7. history' \in [Conversation -> History]
    BY <1>5, HistoryTypes DEF Typed
  <1> QED
    BY <1>6, <1>7

LEMMA StopTypes ==
    ASSUME Typed, NEW c \in Conversation, NEW s \in Service,
           StopScheduledWork(c, s)
    PROVE  service' \in [Conversation -> Service]
  <1>1. s.generation + 1 \in Nat
    BY ServiceFields
  <1>2. [s EXCEPT !.generation = s.generation + 1, !.rerun = FALSE] \in Service
    BY <1>1 DEF Service
  <1> QED
    BY <1>2, Becomes DEF StopScheduledWork

LEMMA ClientTypes ==
    ASSUME Typed, NEW c \in Conversation,
           ClientStep(c) \/ PauseApplied(c) \/ Closed(c), ~Create(c)
    PROVE  Typed'
  <1>1. service[c] \in Service
    BY DEF Typed
  <1>2. ASSUME NEW run \in BOOLEAN, SendMessage(c, run) PROVE Typed'
    <2>1. service[c].latest + 1 \in Nat
      BY <1>1, ServiceFields
    <2>2. [service[c] EXCEPT !.latest = service[c].latest + 1] \in Service
      BY <1>1, <2>1 DEF Service
    <2>3. service' \in [Conversation -> Service]
      BY <2>2, <1>2, Becomes DEF SendMessage
    <2>4. [conversation |-> c, message |-> service[c].latest + 1, run |-> run]
             \in Request
      BY <2>1 DEF Request
    <2> QED
      BY <2>3, <2>4, <1>2 DEF SendMessage, Typed
  <1>3. ASSUME NEW m, ResendMessage(c, m) PROVE Typed'
    BY <1>3, PostTypes DEF ResendMessage, Typed
  <1>4. CASE RequestRun(c)
    <2>1. service' \in [Conversation -> Service]
      BY <1>1, <1>4, LaunchType, Becomes DEF RequestRun
    <2>2. [history[c] EXCEPT !.halted = "no"] \in History
      BY HistoryTypes DEF History
    <2> QED
      BY <2>1, <2>2, <1>4, Recorded DEF RequestRun, Typed
  <1>5. CASE Pause(c)
    <2> DEFINE awaits == service[c].agent \/ service[c].pc = "preparing"
               s == [service[c] EXCEPT !.pauses = IF awaits THEN @ + 1 ELSE @]
               h == [Settled(history[c]) EXCEPT
                        !.halted = IF s.pauses > 0 THEN "asked" ELSE "yes"]
    <2>1. s \in Service
      BY <1>1 DEF Service
    <2>2. StopScheduledWork(c, s) /\ Record(c, h) /\ UNCHANGED requests
      BY <1>5 DEF Pause
    <2>3. h \in History
      <3>1. Settled(history[c]) \in History
        BY HistoryTypes
      <3> QED
        BY <3>1 DEF History
    <2> HIDE DEF s, h
    <2> QED
      BY <2>1, <2>2, <2>3, StopTypes, Recorded DEF Typed
  <1>6. CASE Close(c)
    <2>1. [service[c] EXCEPT !.phase = "closing"] \in Service
      BY <1>1 DEF Service
    <2> QED
      BY <2>1, <1>6, StopTypes, HistoryTypes, Recorded DEF Close, Typed
  <1>7. CASE PauseApplied(c)
    <2>1. service[c].pauses - 1 \in Nat
      BY <1>1, <1>7, ServiceFields DEF PauseApplied
    <2>2. [service[c] EXCEPT !.pauses = service[c].pauses - 1,
                             !.status = "paused"] \in Service
      BY <1>1, <2>1 DEF Service
    <2>3. [Settled(history[c]) EXCEPT !.halted = IF @ = "asked" THEN "yes" ELSE @]
             \in History
      <3>1. Settled(history[c]) \in History
        BY HistoryTypes
      <3> QED
        BY <3>1 DEF History
    <2> QED
      BY <2>2, <2>3, <1>7, Becomes, Recorded DEF PauseApplied, Typed
  <1>8. CASE Closed(c)
    <2>1. [service[c] EXCEPT !.phase = "closed"] \in Service
      BY <1>1 DEF Service
    <2> QED
      BY <2>1, <1>8, Becomes DEF Closed, Typed
  <1> QED
    BY <1>2, <1>3, <1>4, <1>5, <1>6, <1>7, <1>8 DEF ClientStep

LEMMA RequestTypes ==
    ASSUME Typed, RequestStep
    PROVE  Typed'
  <1>1. PICK r \in requests : Appended(r) \/ AppendFails(r)
    BY DEF RequestStep
  <1>2. r.conversation \in Conversation
    BY DEF Typed, Request
  <1> QED
    BY <1>1, <1>2, PostTypes DEF Appended, AppendFails, Typed

LEMMA LoopTypes ==
    ASSUME Typed, NEW c \in Conversation, Loop(c)
    PROVE  service' \in [Conversation -> Service]
  <1>1. service[c] \in Service
    BY DEF Typed
  <1>2. /\ [service[c] EXCEPT !.pc = "settled"] \in Service
        /\ [service[c] EXCEPT !.pc = "waiting"] \in Service
    BY <1>1 DEF Service
  <1> QED
    BY <1>1, <1>2, LaunchType, Becomes DEF Loop

LEMMA ChainTypes ==
    ASSUME Typed, NEW c \in Conversation, ChainStep(c)
    PROVE  Typed'
  <1> DEFINE s == service[c]
  <1>1. s \in Service
    BY DEF Typed
  <1>2. [s EXCEPT !.pc = "settled"] \in Service
    BY <1>1 DEF Service
  <1>3. CASE Enter(c)
    BY <1>3, LoopTypes DEF Enter, Typed
  <1>4. CASE Resume(c)
    BY <1>1, <1>2, <1>4, LaunchType, Becomes DEF Resume, Typed
  <1>5. CASE StartRun(c)
    <2> DEFINE t == [s EXCEPT !.agent = TRUE, !.seen = IF s.agent THEN @ ELSE 0]
    <2>1. t \in Service
      BY <1>1 DEF Service
    <2>2. /\ [t EXCEPT !.pc = "settled"] \in Service
          /\ [t EXCEPT !.pc = "stepping",
                       !.status = IF @ \in {"idle", "error"} THEN "running"
                                  ELSE @] \in Service
      <3> HIDE DEF t
      <3> QED
        BY <2>1 DEF Service
    <2>3. /\ \/ Become(c, [t EXCEPT !.pc = "settled"])
             \/ Become(c, [t EXCEPT !.pc = "stepping",
                              !.status = IF @ \in {"idle", "error"}
                                         THEN "running" ELSE @])
          /\ UNCHANGED <<requests, history>>
      BY <1>5 DEF StartRun
    <2> HIDE DEF t
    <2> QED
      BY <2>2, <2>3, Becomes DEF Typed
  <1>6. CASE BeginStep(c)
    <2>1. [s EXCEPT !.pc = "thinking", !.seen = s.latest] \in Service
      BY <1>1 DEF Service
    <2>2. [Settled(history[c]) EXCEPT !.known = s.latest] \in History
      BY <1>1, HistoryTypes, ServiceFields DEF History
    <2> QED
      BY <2>1, <2>2, <1>6, Becomes, Recorded DEF BeginStep, Typed
  <1>7. CASE Stuck(c)
    <2>1. [s EXCEPT !.status = "error"] \in Service
      BY <1>1 DEF Service
    <2> QED
      BY <2>1, <1>7, HistoryTypes, Becomes, Recorded DEF Stuck, Typed
  <1>8. ASSUME NEW b \in BOOLEAN, EndStep(c, b) PROVE Typed'
    <2> DEFINE limit == s.iteration + 1 >= MaxIterations /\ s.status = "running"
    <2>1. s.iteration + 1 \in Nat
      BY <1>1, ServiceFields
    <2>2. [s EXCEPT !.pc = "stepping", !.iteration = s.iteration + 1,
                    !.status = IF b THEN "finished"
                               ELSE IF limit THEN "error" ELSE @] \in Service
      <3> HIDE DEF limit
      <3> QED
        BY <1>1, <2>1 DEF Service
    <2> QED
      BY <2>2, <1>8, Becomes DEF EndStep, Typed
  <1>9. ASSUME NEW b \in BOOLEAN, FailRun(c, b) PROVE Typed'
    <2>1. [s EXCEPT !.pc = "failing", !.rerun = FALSE, !.iteration = 0,
                    !.status = "error", !.agent = s.agent /\ b,
                    !.pauses = IF s.pc = "preparing" THEN 0 ELSE @] \in Service
      BY <1>1 DEF Service
    <2> QED
      BY <2>1, <1>9, HistoryTypes, Becomes, Recorded DEF FailRun, Typed
  <1>10. CASE EndRun(c)
    <2> DEFINE t == [s EXCEPT !.read = s.seen]
    <2>1. t \in Service
      BY <1>1 DEF Service
    <2>2. [t EXCEPT !.pc = "tail", !.iteration = 0] \in Service
      BY <2>1 DEF Service
    <2>3. /\ Become(c, [t EXCEPT !.pc = "tail", !.iteration = 0])
          /\ UNCHANGED <<requests, history>>
      BY <1>10 DEF EndRun
    <2> HIDE DEF t
    <2> QED
      BY <2>2, <2>3, Becomes DEF Typed
  <1>11. CASE EndTail(c)
    BY <1>2, <1>11, LoopTypes, Becomes DEF EndTail, Typed
  <1>12. CASE FailTail(c)
    BY <1>2, <1>12, Becomes DEF FailTail, Typed
  <1>13. CASE EndFailure(c)
    <2>1. [s EXCEPT !.pc = "settled", !.rerun = FALSE] \in Service
      BY <1>1 DEF Service
    <2> QED
      BY <2>1, <1>13, Becomes DEF EndFailure, Typed
  <1>14. CASE Settle(c)
    BY <1>1, <1>14, LaunchType, Becomes DEF Settle, Typed
  <1> QED
    BY <1>3, <1>4, <1>5, <1>6, <1>7, <1>8, <1>9, <1>10, <1>11, <1>12, <1>13,
       <1>14 DEF ChainStep

LEMMA TypesStep ==
    ASSUME Typed, [Next]_vars
    PROVE  Typed'
  <1>1. CASE UNCHANGED vars
    BY <1>1 DEF vars, Typed
  <1>2. CASE Next
    BY <1>2, RequestTypes, CreateTypes, ClientTypes, ChainTypes
    DEF Next, ClientStep
  <1> QED
    BY <1>1, <1>2

LEMMA TypesInitially == Init => Typed
  BY DEF Init, Typed, Service, History
-------------------------------------------------------------------------------
(* Slots and work.  The invariant says where a chain stands with the pool at *)
(* each of its awaits; a waiter was never stopped, for a stop takes it out   *)
(* of the queue; and there is no chain outside the life of a conversation.   *)

Placed(c) ==
    /\ service[c].pc \in {"preparing", "stepping", "thinking"} => Holds(Runner(c))
    /\ service[c].pc \in {"none", "failing", "settled"} => ~Holds(Runner(c))
    /\ Waits(Runner(c)) => service[c].pc = "waiting" /\ ~Stopped(service[c])
    /\ ~Waits(Creator(c))
    /\ service[c].phase \in {"absent", "closed"} => service[c].pc = "none"
    /\ service[c].phase = "creating" /\ service[c].latest = 0
          => service[c].pc = "none"

Alive(c) == service[c].phase \in {"open", "closing", "closed"}

SlotsInv ==
    /\ Typed
    /\ AdmissionInv
    /\ \A c \in Conversation : Placed(c)
    /\ \A r \in requests : Alive(r.conversation)

(* No conversation is forgotten. *)
Lives == \A c \in Conversation : Alive(c) => Alive(c)'

(* A step of conversation c whose operation on the pool is in the name of    *)
(* its chain or its creation leaves the other conversations placed.          *)
LEMMA OthersPlaced ==
    ASSUME SlotsInv, NEW c \in Conversation,
           NEW o \in {Runner(c), Creator(c)}, Effect(o),
           \A d \in Conversation : d # c => service'[d] = service[d],
           Placed(c)'
    PROVE  \A d \in Conversation : Placed(d)'
  <1>1. ASSUME NEW d \in Conversation, d # c PROVE Placed(d)'
    <2>1. Runner(d) # o /\ Creator(d) # o
      BY <1>1, Owners
    <2>2. service'[d] = service[d]
      BY <1>1
    <2>3. Placed(d)
      BY DEF SlotsInv
    <2>4. /\ Holds(Runner(d)) => Holds(Runner(d))'
          /\ Waits(Runner(d))' => Waits(Runner(d))
          /\ Holds(Runner(d))' => Holds(Runner(d)) \/ Waits(Runner(d))
          /\ Waits(Creator(d))' => Waits(Creator(d))
      BY <2>1 DEF Effect, KeepsOthers
    <2>5. Holds(Runner(d))' => Holds(Runner(d)) \/ service[d].pc = "waiting"
      BY <2>3, <2>4 DEF Placed
    <2>6. Stopped(service[d])' = Stopped(service[d])
      BY <2>2 DEF Stopped, Closing
    <2> QED
      BY <2>2, <2>3, <2>4, <2>5, <2>6 DEF Placed
  <1> QED
    BY <1>1

(* The three ways in which an operation in the name of the chain leaves its  *)
(* conversation placed: with a slot, without one, and waiting.               *)
LEMMA RunnerPlaced ==
    ASSUME SlotsInv, NEW c \in Conversation, Effect(Runner(c)), NEW t,
           Become(c, t),
           t.phase \in {service[c].phase, "closing"},
           t.latest >= service[c].latest,
           service[c].pc = "none" => service[c].phase \notin {"absent", "closed"},
           service[c].pc = "none" => service[c].phase # "creating" \/ t.latest # 0,
           \/ /\ Holds(Runner(c))' /\ ~Waits(Runner(c))'
              /\ t.pc \notin {"none", "failing", "settled"}
           \/ /\ ~Holds(Runner(c))' /\ ~Waits(Runner(c))'
              /\ t.pc \notin {"preparing", "stepping", "thinking"}
           \/ /\ ~Holds(Runner(c))' /\ Waits(Runner(c))'
              /\ t.pc = "waiting" /\ ~Stopped(t)
    PROVE  Lives /\ \A d \in Conversation : Placed(d)'
  <1>1. /\ service'[c] = t
        /\ \A d \in Conversation : d # c => service'[d] = service[d]
    BY Becomes DEF SlotsInv
  <1>2. Placed(c)
    BY DEF SlotsInv
  <1>3. Stopped(service[c])' <=> Stopped(t)
    BY <1>1 DEF Stopped, Closing
  <1>4. ~Waits(Creator(c))'
    BY <1>2, Owners DEF Placed, Effect, KeepsOthers
  <1>5. service[c].latest \in Nat
    BY ServiceFields DEF SlotsInv, Typed
  <1>6. service[c].phase \notin {"absent", "closed"}
    BY <1>2 DEF Placed
  <1>7. service[c].phase = "creating" => t.latest # 0
    BY <1>2, <1>5 DEF Placed
  <1>8. Placed(c)'
    BY <1>1, <1>3, <1>4, <1>6, <1>7 DEF Placed
  <1>9. Lives
    BY <1>1 DEF Lives, Alive
  <1> QED
    BY <1>1, <1>8, <1>9, OthersPlaced

(* Neither the pool nor the place of the chain changes. *)
LEMMA QuietPlaced ==
    ASSUME SlotsInv, NEW c \in Conversation, UNCHANGED admission, NEW t,
           Become(c, t),
           t.pc = service[c].pc, Stopped(t) <=> Stopped(service[c]),
           t.phase \in {"absent", "closed"} => t.pc = "none",
           t.phase = "creating" /\ t.latest = 0 => t.pc = "none",
           Alive(c) => t.phase \in {"open", "closing", "closed"}
    PROVE  Lives /\ \A d \in Conversation : Placed(d)'
  <1>1. /\ service'[c] = t
        /\ \A d \in Conversation : d # c => service'[d] = service[d]
    BY Becomes DEF SlotsInv
  <1>2. Placed(c) /\ AdmissionInv
    BY DEF SlotsInv
  <1>3. /\ \A o : Effect(o)
        /\ \A o : Holds(o)' = Holds(o) /\ Waits(o)' = Waits(o)
    BY <1>2, Untouched
  <1>4. Stopped(service[c])' <=> Stopped(t)
    BY <1>1 DEF Stopped, Closing
  <1>5. Placed(c)'
    BY <1>1, <1>2, <1>3, <1>4 DEF Placed
  <1>6. Lives
    BY <1>1 DEF Lives, Alive
  <1> QED
    BY <1>1, <1>3, <1>5, <1>6, OthersPlaced

(* What a step has to do. *)
Good ==
    /\ [AdmissionNext]_admission
    /\ AdmissionInv'
    /\ Lives
    /\ \A d \in Conversation : Placed(d)'

LEMMA QuietGood ==
    ASSUME SlotsInv, NEW c \in Conversation, UNCHANGED admission, NEW t,
           Become(c, t),
           t.pc = service[c].pc, Stopped(t) <=> Stopped(service[c]),
           t.phase \in {"absent", "closed"} => t.pc = "none",
           t.phase = "creating" /\ t.latest = 0 => t.pc = "none",
           Alive(c) => t.phase \in {"open", "closing", "closed"}
    PROVE  Good
  <1>1. AdmissionInv'
    BY Untouched DEF SlotsInv, Effect
  <1> QED
    BY <1>1, QuietPlaced DEF Good

LEMMA CreateGood ==
    ASSUME SlotsInv, NEW c \in Conversation, CreateStep(c) \/ Create(c)
    PROVE  Good
  <1> DEFINE s == service[c]
  <1>1. s \in Service /\ Placed(c) /\ AdmissionInv
    BY DEF SlotsInv, Typed
  <1>2. Runner(c) \in Owner /\ Creator(c) \in Owner /\ Runner(c) # Creator(c)
    BY Owners
  <1>3. CASE Create(c)
    <2> DEFINE t == [s EXCEPT !.phase = "creating"]
    <2>1. Effect(Creator(c)) /\ ~Waits(Creator(c))'
      BY <1>1, <1>2, <1>3, Taken DEF Create
    <2>2. s.phase = "absent" /\ s.pc = "none" /\ ~Holds(Runner(c))
          /\ ~Waits(Runner(c))
      BY <1>1, <1>3 DEF Create, Placed
    <2>3. ~Holds(Runner(c))' /\ ~Waits(Runner(c))'
      BY <2>1, <2>2, <1>2 DEF Effect, KeepsOthers
    <2>4. /\ service'[c] = t
          /\ \A d \in Conversation : d # c => service'[d] = service[d]
      BY <1>3, Becomes DEF Create, SlotsInv
    <2>5. t.pc = "none" /\ t.phase = "creating"
      BY <1>1, <2>2 DEF Service
    <2>6. Placed(c)'
      BY <2>1, <2>3, <2>4, <2>5 DEF Placed
    <2> QED
      BY <2>1, <2>2, <2>4, <2>6, OthersPlaced DEF Good, Effect, Lives, Alive
  <1>4. CASE Initialize(c)
    <2> DEFINE t == [s EXCEPT !.agent = TRUE]
    <2>1. Become(c, t) /\ UNCHANGED admission
      BY <1>4 DEF Initialize
    <2>2. /\ t.pc = s.pc /\ t.phase = s.phase /\ t.latest = s.latest
          /\ Stopped(t) <=> Stopped(s)
      BY <1>1 DEF Service, Stopped, Closing
    <2> HIDE DEF t
    <2> QED
      BY <2>1, <2>2, <1>1, QuietGood DEF Placed, Alive
  <1>5. ASSUME NEW run \in BOOLEAN, InitialMessage(c, run) PROVE Good
    <2> DEFINE u == [s EXCEPT !.latest = 1]
               t == [u EXCEPT !.pc = "entry", !.started = u.generation]
    <2>1. u.phase = "creating" /\ s.latest = 0
      BY <1>5 DEF InitialMessage
    <2>2. /\ u.phase = "creating" /\ s.phase = "creating" /\ u.latest = 1
          /\ u.pc = "none" /\ s.pc = "none" /\ (Stopped(u) <=> Stopped(s))
          /\ t.phase = "creating" /\ t.latest = 1 /\ t.pc = "entry"
      BY <1>1, <2>1 DEF Service, Placed, Stopped, Closing
    <2>3. CASE Become(c, u) /\ UNCHANGED admission
      <3> HIDE DEF u
      <3> QED
        BY <2>2, <2>3, QuietGood DEF Alive
    <2>4. CASE Share(Creator(c), Runner(c)) /\ Become(c, t)
      <3>1. Fresh(Runner(c))
        BY <2>2, <1>1 DEF Fresh, Placed
      <3>2. Effect(Runner(c)) /\ Holds(Runner(c))' /\ ~Waits(Runner(c))'
        BY <3>1, <2>4, <1>1, <1>2, Shared
      <3> HIDE DEF t, u
      <3> QED
        BY <2>1, <2>2, <2>4, <3>2, RunnerPlaced DEF Good, Effect
    <2> QED
      BY <1>5, <2>3, <2>4 DEF InitialMessage
  <1>6. CASE Created(c)
    <2> DEFINE t == [s EXCEPT !.phase = "open"]
    <2>1. Become(c, t) /\ UNCHANGED admission /\ s.phase = "creating"
      BY <1>6 DEF Created
    <2>2. /\ t.pc = s.pc /\ t.phase = "open"
          /\ Stopped(t) <=> Stopped(s)
      BY <1>1, <2>1 DEF Service, Stopped, Closing
    <2> HIDE DEF t
    <2> QED
      BY <2>1, <2>2, QuietGood DEF Alive
  <1>7. CASE CreateFails(c)
    <2> DEFINE t == [s EXCEPT !.phase = "absent", !.agent = FALSE]
    <2>1. /\ Become(c, t) /\ UNCHANGED admission
          /\ s.phase = "creating" /\ s.latest = 0
      BY <1>7 DEF CreateFails
    <2>2. /\ t.pc = s.pc /\ t.phase = "absent" /\ s.pc = "none"
          /\ Stopped(t) <=> Stopped(s)
      BY <1>1, <2>1 DEF Service, Stopped, Closing, Placed
    <2> HIDE DEF t
    <2> QED
      BY <2>1, <2>2, QuietGood DEF Alive
  <1>8. CASE CreatorReleases(c)
    <2>1. Effect(Creator(c)) /\ ~Waits(Creator(c))'
      BY <1>1, <1>2, <1>8, Released DEF CreatorReleases
    <2>2. service' = service
      BY <1>8 DEF CreatorReleases
    <2>3. /\ Holds(Runner(c)) => Holds(Runner(c))'
          /\ Waits(Runner(c))' => Waits(Runner(c))
          /\ Holds(Runner(c))' => Holds(Runner(c)) \/ s.pc = "waiting"
      BY <2>1, <1>1, <1>2 DEF Effect, KeepsOthers, Placed
    <2>4. Stopped(service[c])' = Stopped(service[c])
      BY <2>2 DEF Stopped, Closing
    <2>5. Placed(c)'
      BY <2>1, <2>2, <2>3, <2>4, <1>1 DEF Placed
    <2> QED
      BY <2>1, <2>2, <2>5, OthersPlaced DEF Good, Effect, Lives, Alive
  <1> QED
    BY <1>3, <1>4, <1>5, <1>6, <1>7, <1>8 DEF CreateStep

(* A chain is launched with a slot where there is none. *)
LEMMA LaunchGood ==
    ASSUME SlotsInv, NEW c \in Conversation, NEW s \in Service,
           service[c].phase \in {"open", "closing"}, service[c].pc = "none",
           s.phase = service[c].phase, s.latest = service[c].latest,
           TryAcquire(Runner(c)), Become(c, Launch(s))
    PROVE  Good
  <1>1. Fresh(Runner(c)) /\ AdmissionInv /\ Runner(c) \in Owner
    BY Owners DEF SlotsInv, Placed, Fresh
  <1>2. Effect(Runner(c)) /\ Holds(Runner(c))' /\ ~Waits(Runner(c))'
    BY <1>1, Taken
  <1>3. service[c].latest \in Nat
    BY ServiceFields DEF SlotsInv, Typed
  <1>4. /\ Launch(s).phase = s.phase /\ Launch(s).latest = s.latest
        /\ Launch(s).pc = "entry"
    BY DEF Service, Launch
  <1> QED
    BY <1>2, <1>3, <1>4, RunnerPlaced DEF Good, Effect

LEMMA PostGood ==
    ASSUME SlotsInv, NEW c \in Conversation, NEW m, NEW run, Post(c, m, run),
           service[c].phase \in {"open", "closing", "closed"}
    PROVE  Good
  <1> DEFINE s == [service[c] EXCEPT !.status = IF @ = "running" THEN @ ELSE "idle"]
             u == [s EXCEPT !.rerun = TRUE]
  <1>1. service[c] \in Service /\ Placed(c)
    BY DEF SlotsInv, Typed
  <1>2. /\ s \in Service
        /\ s.pc = service[c].pc /\ s.phase = service[c].phase
        /\ s.latest = service[c].latest
        /\ Stopped(s) <=> Stopped(service[c])
    BY <1>1 DEF Service, Stopped, Closing
  <1>3. /\ u.pc = s.pc /\ u.phase = s.phase
        /\ u.latest = s.latest
        /\ Stopped(u) <=> Stopped(s)
    <2> HIDE DEF s
    <2> QED
      BY <1>2 DEF Service, Stopped, Closing
  <1>4. \/ Become(c, s) /\ UNCHANGED admission
        \/ /\ ~Closing(s) /\ s.pc = "none"
           /\ TryAcquire(Runner(c)) /\ Become(c, Launch(s))
        \/ Become(c, u) /\ UNCHANGED admission
    BY DEF Post
  <1> HIDE DEF s, u
  <1>5. CASE Become(c, s) /\ UNCHANGED admission
    BY <1>1, <1>2, <1>5, QuietGood DEF Placed, Alive
  <1>6. CASE /\ ~Closing(s) /\ s.pc = "none"
             /\ TryAcquire(Runner(c)) /\ Become(c, Launch(s))
    BY <1>2, <1>6, LaunchGood DEF Closing
  <1>7. CASE Become(c, u) /\ UNCHANGED admission
    BY <1>1, <1>2, <1>3, <1>7, QuietGood DEF Placed, Alive
  <1> QED
    BY <1>4, <1>5, <1>6, <1>7

(* A stop makes the chain stale, and a waiting one leaves the queue. *)
LEMMA StopGood ==
    ASSUME SlotsInv, NEW c \in Conversation, NEW s \in Service,
           service[c].phase \in {"open", "closing"},
           s.phase \in {service[c].phase, "closing"},
           s.pc = service[c].pc, s.latest = service[c].latest,
           StopScheduledWork(c, s)
    PROVE  Good
  <1> DEFINE t == [s EXCEPT !.generation = s.generation + 1, !.rerun = FALSE]
  <1>1. Become(c, t)
    BY DEF StopScheduledWork
  <1>2. t.phase = s.phase /\ t.pc = s.pc /\ t.latest = s.latest
    BY DEF Service
  <1>3. service[c].latest \in Nat /\ Placed(c) /\ AdmissionInv
    BY ServiceFields DEF SlotsInv, Typed
  <1>4. /\ Effect(Runner(c)) /\ ~Waits(Runner(c))'
        /\ Holds(Runner(c))' = Holds(Runner(c))
    <2>1. CASE Waits(Runner(c))
      <3>1. Abort(Runner(c))
        BY <2>1 DEF StopScheduledWork
      <3> QED
        BY <3>1, <1>3, Aborted, Owners
    <2>2. CASE ~Waits(Runner(c))
      <3>1. UNCHANGED admission
        BY <2>2 DEF StopScheduledWork
      <3> QED
        BY <2>2, <3>1, <1>3, Untouched
    <2> QED
      BY <2>1, <2>2
  <1> HIDE DEF t
  <1> QED
    BY <1>1, <1>2, <1>3, <1>4, RunnerPlaced DEF Good, Effect, Placed

LEMMA ClientGood ==
    ASSUME SlotsInv, NEW c \in Conversation,
           ClientStep(c) \/ PauseApplied(c) \/ Closed(c), ~Create(c)
    PROVE  Good
  <1>1. service[c] \in Service /\ Placed(c)
    BY DEF SlotsInv, Typed
  <1>2. ASSUME NEW run \in BOOLEAN, SendMessage(c, run) PROVE Good
    <2> DEFINE t == [service[c] EXCEPT !.latest = service[c].latest + 1]
    <2>1. /\ Become(c, t) /\ UNCHANGED admission
          /\ service[c].phase \in {"open", "closing"}
      BY <1>2 DEF SendMessage
    <2>2. /\ t.pc = service[c].pc /\ t.phase = service[c].phase
          /\ Stopped(t) <=> Stopped(service[c])
      BY <1>1 DEF Service, Stopped, Closing
    <2> HIDE DEF t
    <2> QED
      BY <2>1, <2>2, QuietGood DEF Alive
  <1>3. ASSUME NEW m, ResendMessage(c, m) PROVE Good
    BY <1>3, PostGood DEF ResendMessage
  <1>4. CASE RequestRun(c)
    BY <1>1, <1>4, LaunchGood DEF RequestRun
  <1>5. CASE Pause(c)
    <2> DEFINE awaits == service[c].agent \/ service[c].pc = "preparing"
               s == [service[c] EXCEPT !.pauses = IF awaits THEN @ + 1 ELSE @]
    <2>1. /\ s \in Service /\ s.phase = service[c].phase
          /\ s.pc = service[c].pc /\ s.latest = service[c].latest
      BY <1>1 DEF Service
    <2>2. StopScheduledWork(c, s) /\ s.phase \in {"open", "closing"}
      BY <1>5 DEF Pause
    <2> HIDE DEF s
    <2> QED
      BY <2>1, <2>2, StopGood
  <1>6. CASE Close(c)
    <2> DEFINE s == [service[c] EXCEPT !.phase = "closing"]
    <2>1. /\ s \in Service /\ s.phase = "closing"
          /\ s.pc = service[c].pc /\ s.latest = service[c].latest
      BY <1>1 DEF Service
    <2>2. StopScheduledWork(c, s) /\ service[c].phase = "open"
      BY <1>6 DEF Close
    <2> HIDE DEF s
    <2> QED
      BY <2>1, <2>2, StopGood
  <1>7. CASE PauseApplied(c)
    <2> DEFINE t == [service[c] EXCEPT !.pauses = @ - 1, !.status = "paused"]
    <2>1. Become(c, t) /\ UNCHANGED admission
      BY <1>7 DEF PauseApplied
    <2>2. /\ t.pc = service[c].pc /\ t.phase = service[c].phase
          /\ t.latest = service[c].latest
          /\ Stopped(t) <=> Stopped(service[c])
      BY <1>1 DEF Service, Stopped, Closing
    <2> HIDE DEF t
    <2> QED
      BY <2>1, <2>2, <1>1, QuietGood DEF Placed, Alive
  <1>8. CASE Closed(c)
    <2> DEFINE t == [service[c] EXCEPT !.phase = "closed"]
    <2>1. /\ Become(c, t) /\ UNCHANGED admission
          /\ service[c].phase = "closing" /\ service[c].pc = "none"
      BY <1>8 DEF Closed
    <2>2. /\ t.pc = "none" /\ t.phase = "closed"
          /\ Stopped(t) <=> Stopped(service[c])
      BY <1>1, <2>1 DEF Service, Stopped, Closing
    <2> HIDE DEF t
    <2> QED
      BY <2>1, <2>2, QuietGood DEF Alive
  <1> QED
    BY <1>2, <1>3, <1>4, <1>5, <1>6, <1>7, <1>8 DEF ClientStep

LEMMA RequestGood ==
    ASSUME SlotsInv, RequestStep
    PROVE  Good
  <1>1. PICK r \in requests : Appended(r) \/ AppendFails(r)
    BY DEF RequestStep
  <1>2. /\ r.conversation \in Conversation
        /\ service[r.conversation].phase \in {"open", "closing", "closed"}
    BY DEF SlotsInv, Typed, Request, Alive
  <1>3. CASE Appended(r)
    BY <1>2, <1>3, PostGood DEF Appended
  <1>4. CASE AppendFails(r)
    <2>1. UNCHANGED admission /\ service' = service
      BY <1>4 DEF AppendFails
    <2>2. /\ AdmissionInv'
          /\ \A o : Holds(o)' = Holds(o) /\ Waits(o)' = Waits(o)
      BY <2>1, Untouched DEF SlotsInv, Effect
    <2>3. \A d \in Conversation : Placed(d)'
      BY <2>1, <2>2 DEF SlotsInv, Placed, Stopped, Closing
    <2> QED
      BY <2>1, <2>2, <2>3 DEF Good, Lives, Alive
  <1> QED
    BY <1>1, <1>3, <1>4

(* A step of a chain: what is left to show of it. *)
LEMMA ChainGood ==
    ASSUME SlotsInv, NEW c \in Conversation, service[c].pc # "none", NEW t,
           Become(c, t), Effect(Runner(c)),
           t.phase = service[c].phase, t.latest = service[c].latest,
           \/ /\ Holds(Runner(c))' /\ ~Waits(Runner(c))'
              /\ t.pc \notin {"none", "failing", "settled"}
           \/ /\ ~Holds(Runner(c))' /\ ~Waits(Runner(c))'
              /\ t.pc \notin {"preparing", "stepping", "thinking"}
           \/ /\ ~Holds(Runner(c))' /\ Waits(Runner(c))'
              /\ t.pc = "waiting" /\ ~Stopped(t)
    PROVE  Good
  <1>1. service[c].latest \in Nat
    BY ServiceFields DEF SlotsInv, Typed
  <1> QED
    BY <1>1, RunnerPlaced DEF Good, Effect

(* The chain lets go of a slot it may have. *)
LEMMA GivesBack ==
    ASSUME SlotsInv, NEW c \in Conversation, service[c].pc # "none", NEW t,
           ~Waits(Runner(c)), GiveBack(Runner(c)), Become(c, t),
           t.phase = service[c].phase, t.latest = service[c].latest,
           t.pc \notin {"preparing", "stepping", "thinking"}
    PROVE  Good
  <1>1. Effect(Runner(c)) /\ ~Holds(Runner(c))' /\ ~Waits(Runner(c))'
    BY GivenBack, Owners DEF SlotsInv
  <1> QED
    BY <1>1, ChainGood

(* The chain goes on with the slot it has. *)
LEMMA KeepsSlot ==
    ASSUME SlotsInv, NEW c \in Conversation, service[c].pc # "none", NEW t,
           Holds(Runner(c)), UNCHANGED admission, Become(c, t),
           t.phase = service[c].phase, t.latest = service[c].latest,
           t.pc \notin {"none", "failing", "settled"}
    PROVE  Good
  <1>1. Effect(Runner(c)) /\ Holds(Runner(c))'
    BY Untouched DEF SlotsInv
  <1>2. ~Waits(Runner(c))
    BY Owners DEF SlotsInv, AdmissionInv, OwnersDistinct
  <1>3. ~Waits(Runner(c))'
    BY <1>2, Untouched DEF SlotsInv
  <1> QED
    BY <1>1, <1>3, ChainGood

(* The chain goes on without one. *)
LEMMA StaysWithout ==
    ASSUME SlotsInv, NEW c \in Conversation, service[c].pc # "none", NEW t,
           ~Holds(Runner(c)), ~Waits(Runner(c)), UNCHANGED admission,
           Become(c, t),
           t.phase = service[c].phase, t.latest = service[c].latest,
           t.pc \notin {"preparing", "stepping", "thinking"}
    PROVE  Good
  <1>1. Effect(Runner(c)) /\ ~Holds(Runner(c))' /\ ~Waits(Runner(c))'
    BY Untouched DEF SlotsInv
  <1> QED
    BY <1>1, ChainGood

LEMMA PreparedFields ==
    ASSUME NEW s \in Service
    PROVE  /\ Prepared(s).phase = s.phase /\ Prepared(s).latest = s.latest
           /\ Prepared(s).pc = "preparing"
           /\ Launch(s).phase = s.phase /\ Launch(s).latest = s.latest
           /\ Launch(s).pc = "entry"
           /\ Idle(s).phase = s.phase /\ Idle(s).latest = s.latest
           /\ Idle(s).pc = "none"
  BY DEF Service, Prepared, Launch, Idle

LEMMA Parked ==
    ASSUME NEW s \in Service, NEW p \in {"settled", "waiting"}
    PROVE  LET t == [s EXCEPT !.pc = p]
           IN  /\ t.phase = s.phase /\ t.latest = s.latest /\ t.pc = p
               /\ Stopped(t) <=> Stopped(s)
  BY DEF Service, Stopped, Closing

LEMMA LoopGood ==
    ASSUME SlotsInv, NEW c \in Conversation,
           service[c].pc \in {"entry", "tail"}, Loop(c)
    PROVE  Good
  <1> DEFINE s == service[c]
             u == [s EXCEPT !.pc = "settled"]
             w == [s EXCEPT !.pc = "waiting"]
  <1>1. s \in Service /\ Placed(c) /\ AdmissionInv /\ Runner(c) \in Owner
    BY Owners DEF SlotsInv, Typed
  <1>2. ~Waits(Runner(c)) /\ s.pc # "none"
    BY <1>1 DEF Placed
  <1>3. /\ u.phase = s.phase /\ u.latest = s.latest /\ u.pc = "settled"
        /\ w.phase = s.phase /\ w.latest = s.latest /\ w.pc = "waiting"
        /\ Stopped(w) <=> Stopped(s)
    BY <1>1, Parked
  <1>4. \/ GiveBack(Runner(c)) /\ Become(c, u)
        \/ /\ ~Stopped(s) /\ ~Holds(Runner(c)) /\ Become(c, w)
           /\ TryAcquire(Runner(c)) \/ Enqueue(Runner(c))
        \/ Holds(Runner(c)) /\ UNCHANGED admission /\ Become(c, Prepared(s))
    BY DEF Loop
  <1> HIDE DEF u, w
  <1>5. CASE GiveBack(Runner(c)) /\ Become(c, u)
    BY <1>2, <1>3, <1>5, GivesBack
  <1>6. CASE /\ ~Stopped(s) /\ ~Holds(Runner(c)) /\ Become(c, w)
             /\ TryAcquire(Runner(c)) \/ Enqueue(Runner(c))
    <2>1. Fresh(Runner(c))
      BY <1>2, <1>6 DEF Fresh
    <2>2. CASE TryAcquire(Runner(c))
      <3>1. Effect(Runner(c)) /\ Holds(Runner(c))' /\ ~Waits(Runner(c))'
        BY <2>1, <2>2, <1>1, Taken
      <3> QED
        BY <3>1, <1>2, <1>3, <1>6, ChainGood
    <2>3. CASE Enqueue(Runner(c))
      <3>1. Effect(Runner(c)) /\ ~Holds(Runner(c))' /\ Waits(Runner(c))'
        BY <2>1, <2>3, <1>1, Enqueued
      <3> QED
        BY <3>1, <1>2, <1>3, <1>6, ChainGood
    <2> QED
      BY <1>6, <2>2, <2>3
  <1>7. CASE Holds(Runner(c)) /\ UNCHANGED admission /\ Become(c, Prepared(s))
    BY <1>1, <1>2, <1>7, PreparedFields, KeepsSlot
  <1> QED
    BY <1>4, <1>5, <1>6, <1>7

LEMMA ChainStepGood ==
    ASSUME SlotsInv, NEW c \in Conversation, ChainStep(c)
    PROVE  Good
  <1> DEFINE s == service[c]
             u == [s EXCEPT !.pc = "settled"]
  <1>1. s \in Service /\ Placed(c) /\ AdmissionInv /\ Runner(c) \in Owner
    BY Owners DEF SlotsInv, Typed
  <1>2. u.phase = s.phase /\ u.latest = s.latest /\ u.pc = "settled"
    BY <1>1, Parked
  <1>3. CASE Enter(c)
    BY <1>3, LoopGood DEF Enter
  <1>4. CASE Resume(c)
    <2>1. /\ s.pc = "waiting" /\ ~Waits(Runner(c))
          /\ \/ GiveBack(Runner(c)) /\ Become(c, u)
             \/ Holds(Runner(c)) /\ UNCHANGED admission /\ Become(c, Prepared(s))
      BY <1>4 DEF Resume
    <2> HIDE DEF u
    <2> QED
      BY <2>1, <1>1, <1>2, PreparedFields, GivesBack, KeepsSlot
  <1>5. CASE StartRun(c)
    <2> DEFINE t == [s EXCEPT !.agent = TRUE, !.seen = IF s.agent THEN @ ELSE 0]
               a == [t EXCEPT !.pc = "settled"]
               b == [t EXCEPT !.pc = "stepping",
                        !.status = IF @ \in {"idle", "error"} THEN "running"
                                   ELSE @]
    <2>1. t \in Service /\ t.phase = s.phase /\ t.latest = s.latest /\ t.pc = s.pc
      BY <1>1 DEF Service
    <2>2. /\ a.phase = s.phase /\ a.latest = s.latest /\ a.pc = "settled"
          /\ b.phase = s.phase /\ b.latest = s.latest /\ b.pc = "stepping"
      <3> HIDE DEF t
      <3> QED
        BY <2>1 DEF Service
    <2>3. /\ t.pc = "preparing"
          /\ \/ Release(Runner(c)) /\ Become(c, a)
             \/ UNCHANGED admission /\ Become(c, b)
      BY <1>5 DEF StartRun
    <2> HIDE DEF t, a, b
    <2>4. s.pc = "preparing" /\ Holds(Runner(c)) /\ ~Waits(Runner(c))
      BY <2>1, <2>3, <1>1 DEF Placed
    <2> QED
      BY <2>2, <2>3, <2>4, GivesBack, KeepsSlot DEF GiveBack
  <1>6. CASE BeginStep(c)
    <2> DEFINE t == [s EXCEPT !.pc = "thinking", !.seen = s.latest]
    <2>1. s.pc = "stepping" /\ Become(c, t) /\ UNCHANGED admission
      BY <1>6 DEF BeginStep
    <2>2. t.phase = s.phase /\ t.latest = s.latest /\ t.pc = "thinking"
      BY <1>1 DEF Service
    <2> HIDE DEF t
    <2> QED
      BY <2>1, <2>2, <1>1, KeepsSlot DEF Placed
  <1>7. CASE Stuck(c)
    <2> DEFINE t == [s EXCEPT !.status = "error"]
    <2>1. s.pc = "stepping" /\ Become(c, t) /\ UNCHANGED admission
      BY <1>7 DEF Stuck
    <2>2. t.phase = s.phase /\ t.latest = s.latest /\ t.pc = s.pc
      BY <1>1 DEF Service
    <2> HIDE DEF t
    <2> QED
      BY <2>1, <2>2, <1>1, KeepsSlot DEF Placed
  <1>8. ASSUME NEW f \in BOOLEAN, EndStep(c, f) PROVE Good
    <2> DEFINE limit == s.iteration + 1 >= MaxIterations /\ s.status = "running"
               t == [s EXCEPT !.pc = "stepping", !.iteration = @ + 1,
                        !.status = IF f THEN "finished"
                                   ELSE IF limit THEN "error" ELSE @]
    <2>1. s.pc = "thinking" /\ Become(c, t) /\ UNCHANGED admission
      BY <1>8 DEF EndStep
    <2>2. t.phase = s.phase /\ t.latest = s.latest /\ t.pc = "stepping"
      <3> HIDE DEF limit
      <3> QED
        BY <1>1 DEF Service
    <2> HIDE DEF t
    <2> QED
      BY <2>1, <2>2, <1>1, KeepsSlot DEF Placed
  <1>9. ASSUME NEW k \in BOOLEAN, FailRun(c, k) PROVE Good
    <2> DEFINE t == [s EXCEPT !.pc = "failing", !.rerun = FALSE,
                        !.iteration = 0, !.status = "error",
                        !.agent = s.agent /\ k,
                        !.pauses = IF s.pc = "preparing" THEN 0 ELSE @]
    <2>1. /\ s.pc \in {"preparing", "stepping", "thinking"}
          /\ Become(c, t) /\ Release(Runner(c))
      BY <1>9 DEF FailRun
    <2>2. t.phase = s.phase /\ t.latest = s.latest /\ t.pc = "failing"
      BY <1>1 DEF Service
    <2>3. ~Waits(Runner(c))
      BY <2>1, <1>1 DEF Placed
    <2> HIDE DEF t
    <2> QED
      BY <2>1, <2>2, <2>3, GivesBack DEF GiveBack
  <1>10. CASE EndRun(c)
    <2> DEFINE r == [s EXCEPT !.read = s.seen]
               t == [r EXCEPT !.pc = "tail", !.iteration = 0]
    <2>1. r \in Service /\ r.phase = s.phase /\ r.latest = s.latest /\ r.pc = s.pc
      BY <1>1 DEF Service
    <2>2. t.phase = s.phase /\ t.latest = s.latest /\ t.pc = "tail"
      <3> HIDE DEF r
      <3> QED
        BY <2>1 DEF Service
    <2>3. /\ r.pc = "stepping" /\ Become(c, t)
          /\ Release(Runner(c)) \/ UNCHANGED admission
      BY <1>10 DEF EndRun
    <2> HIDE DEF r, t
    <2>4. s.pc = "stepping" /\ Holds(Runner(c)) /\ ~Waits(Runner(c))
      BY <2>1, <2>3, <1>1 DEF Placed
    <2> QED
      BY <2>2, <2>3, <2>4, GivesBack, KeepsSlot DEF GiveBack
  <1>11. CASE EndTail(c)
    <2>1. /\ s.pc = "tail"
          /\ Loop(c) \/ (GiveBack(Runner(c)) /\ Become(c, u))
      BY <1>11 DEF EndTail
    <2>2. ~Waits(Runner(c))
      BY <2>1, <1>1 DEF Placed
    <2> HIDE DEF u
    <2> QED
      BY <2>1, <2>2, <1>2, LoopGood, GivesBack
  <1>12. CASE FailTail(c)
    <2>1. /\ s.pc \in {"tail", "failing"}
          /\ GiveBack(Runner(c)) /\ Become(c, u)
      BY <1>12 DEF FailTail
    <2>2. ~Waits(Runner(c))
      BY <2>1, <1>1 DEF Placed
    <2> HIDE DEF u
    <2> QED
      BY <2>1, <2>2, <1>2, GivesBack
  <1>13. CASE EndFailure(c)
    <2> DEFINE t == [s EXCEPT !.pc = "settled", !.rerun = FALSE]
    <2>1. s.pc = "failing" /\ Become(c, t) /\ UNCHANGED admission
      BY <1>13 DEF EndFailure
    <2>2. t.phase = s.phase /\ t.latest = s.latest /\ t.pc = "settled"
      BY <1>1 DEF Service
    <2> HIDE DEF t
    <2> QED
      BY <2>1, <2>2, <1>1, StaysWithout DEF Placed
  <1>14. CASE Settle(c)
    <2>1. /\ s.pc = "settled" /\ UNCHANGED admission
          /\ Become(c, Launch(s)) \/ Become(c, Idle(s))
      BY <1>14 DEF Settle
    <2>2. ~Holds(Runner(c)) /\ ~Waits(Runner(c))
      BY <2>1, <1>1 DEF Placed
    <2> QED
      BY <2>1, <2>2, <1>1, PreparedFields, StaysWithout
  <1> QED
    BY <1>3, <1>4, <1>5, <1>6, <1>7, <1>8, <1>9, <1>10, <1>11, <1>12, <1>13,
       <1>14 DEF ChainStep

LEMMA SlotsStep ==
    ASSUME SlotsInv, [Next]_vars
    PROVE  SlotsInv' /\ [AdmissionNext]_admission
  <1>1. Typed'
    BY TypesStep DEF SlotsInv
  <1>2. CASE Next
    <2>1. Good
      BY <1>2, RequestGood, CreateGood, ClientGood, ChainStepGood
      DEF Next, ClientStep
    <2>2. \A r \in requests' : Alive(r.conversation)'
      <3>1. \A r \in requests' : r \in requests \/ Alive(r.conversation)
        <4>1. CASE RequestStep
          BY <4>1 DEF RequestStep, Appended, AppendFails
        <4>2. ASSUME NEW c \in Conversation,
                     CreateStep(c) \/ ChainStep(c) \/ PauseApplied(c) \/ Closed(c)
              PROVE  requests' = requests
          <5>1. CASE CreateStep(c)
            BY <5>1 DEF CreateStep, Initialize, InitialMessage, Created,
                        CreateFails, CreatorReleases
          <5>2. CASE ChainStep(c)
            BY <5>2 DEF ChainStep, Enter, Resume, StartRun, BeginStep, Stuck,
                        EndStep, FailRun, EndRun, EndTail, FailTail,
                        EndFailure, Settle
          <5> QED
            BY <4>2, <5>1, <5>2 DEF PauseApplied, Closed
        <4>3. ASSUME NEW c \in Conversation, NEW run, SendMessage(c, run)
              PROVE  \A r \in requests' : r \in requests \/ Alive(r.conversation)
          BY <4>3 DEF SendMessage, Alive
        <4>4. ASSUME NEW c \in Conversation, ClientStep(c),
                     \A run \in BOOLEAN : ~SendMessage(c, run)
              PROVE  requests' = requests
          BY <4>4 DEF ClientStep, Create, ResendMessage, RequestRun, Pause, Close
        <4> QED
          BY <1>2, <4>1, <4>2, <4>3, <4>4 DEF Next
      <3>2. \A r \in requests' : r.conversation \in Conversation
        BY <1>1 DEF Typed, Request
      <3> QED
        BY <2>1, <3>1, <3>2 DEF Good, Lives, SlotsInv
    <2> QED
      BY <1>1, <2>1, <2>2 DEF Good, SlotsInv
  <1>3. CASE UNCHANGED vars
    <2>1. /\ UNCHANGED admission
          /\ service' = service /\ requests' = requests
      BY <1>3 DEF vars, admission
    <2>2. /\ AdmissionInv'
          /\ \A o : Holds(o)' = Holds(o) /\ Waits(o)' = Waits(o)
      BY <2>1, Untouched DEF SlotsInv, Effect
    <2>3. \A d \in Conversation : Placed(d)'
      BY <2>1, <2>2 DEF SlotsInv, Placed, Stopped, Closing
    <2> QED
      BY <1>1, <2>1, <2>2, <2>3 DEF SlotsInv, Alive
  <1> QED
    BY <1>2, <1>3

LEMMA SlotsInitially == Init => SlotsInv
  <1> SUFFICES ASSUME Init PROVE SlotsInv
    OBVIOUS
  <1>1. Typed /\ AdmissionInv
    BY TypesInitially, AdmissionInitially DEF Init
  <1>2. \A o : ~Holds(o) /\ ~Waits(o)
    BY DEF Init, AdmissionInit, Holds, Waits
  <1>3. \A c \in Conversation : Placed(c)
    BY <1>2 DEF Init, Placed
  <1> QED
    BY <1>1, <1>3 DEF Init, SlotsInv

LEMMA SlotsAlways == Spec => []SlotsInv
  <1>1. SlotsInv /\ [Next]_vars => SlotsInv'
    BY SlotsStep
  <1> QED
    BY <1>1, SlotsInitially, PTL DEF Spec

(* Types: conversations, requests and the pool stay well formed through every *)
(* handler and every step of a chain (eventService.ts, runAdmission.ts).      *)
THEOREM TypesSafe == Spec => []TypeOK
  <1>1. SlotsInv => TypeOK
    BY DEF SlotsInv, AdmissionInv, Typed, TypeOK
  <1> QED
    BY <1>1, SlotsAlways, PTL

(* Work is done under a slot and under nothing else, whatever breaks a chain *)
(* off (runAndPublish).                                                      *)
THEOREM SlotsSafe == Spec => [](AdmissionInv /\ SlotsMatchWork)
  <1>1. SlotsInv => AdmissionInv /\ SlotsMatchWork
    BY DEF SlotsInv, SlotsMatchWork, Placed
  <1> QED
    BY <1>1, SlotsAlways, PTL

(* A closed conversation does nothing more (close, whenIdle).                *)
THEOREM ClosingSafe == Spec => []ClosedIsQuiet
  <1>1. SlotsInv => ClosedIsQuiet
    BY DEF SlotsInv, ClosedIsQuiet, Placed
  <1> QED
    BY <1>1, SlotsAlways, PTL

(* The run chains use the pool as it is meant to be used: they implement the *)
(* specification of the pool alone, so what holds of that holds here.        *)
THEOREM ImplementsAdmission == Spec => AdmissionSpec
  <1>1. Init => AdmissionInit
    BY DEF Init
  <1>2. SlotsInv /\ [Next]_vars => [AdmissionNext]_admission
    BY SlotsStep
  <1> QED
    BY <1>1, <1>2, SlotsAlways, PTL DEF Spec, AdmissionSpec
-------------------------------------------------------------------------------
(* Pauses.  A conversation that was asked to pause has no chain or one of an *)
(* older generation, which cannot set the status to running; and one whose   *)
(* pause has taken effect is not running.                                    *)

Restful(s, halted) ==
    /\ s.pc \in {"stepping", "thinking"} => s.agent
    /\ s.started <= s.generation
    /\ halted # "no" => s.pc = "none" \/ s.started < s.generation
    /\ halted = "yes" =>
          ~(s.pc \in {"stepping", "thinking"} /\ s.status = "running")

PauseInv == \A c \in Conversation : Restful(service[c], history[c].halted)

(* A step of c is to leave it restful, and to start no step of the agent     *)
(* against a pause.                                                          *)
Rests(c) ==
    /\ Restful(service[c], history[c].halted)'
    /\ history[c].halted = "yes" /\ service'[c].pc = "thinking" =>
          service[c].pc = "thinking" \/ history'[c].halted # "yes"

LEMMA OthersRest ==
    ASSUME PauseInv, NEW c \in Conversation, Rests(c),
           \A d \in Conversation : d # c => /\ service'[d] = service[d]
                                            /\ history'[d] = history[d]
    PROVE  \A d \in Conversation : Rests(d)
  BY DEF PauseInv, Rests, Restful

(* History does not change, or no longer holds a pause, or is only settled.  *)
LEMMA ServiceRests ==
    ASSUME Typed, PauseInv, NEW c \in Conversation, NEW t, Become(c, t),
           NEW h, history'[c] = h,
           \A d \in Conversation : d # c => history'[d] = history[d],
           Restful(t, h.halted),
           t.pc = "thinking" => \/ service[c].pc = "thinking"
                                \/ history[c].halted # "yes"
                                \/ h.halted # "yes"
    PROVE  \A d \in Conversation : Rests(d)
  <1>1. /\ service'[c] = t
        /\ \A d \in Conversation : d # c => service'[d] = service[d]
    BY Becomes
  <1>2. Rests(c)
    BY <1>1 DEF Rests
  <1> QED
    BY <1>1, <1>2, OthersRest

LEMMA HaltedFields ==
    ASSUME Typed, NEW c \in Conversation
    PROVE  /\ Settled(history[c]).halted = history[c].halted
           /\ \A m, sound : Accepted(c, m, sound) =>
                 /\ history'[c].halted = "no"
                 /\ \A d \in Conversation : d # c => history'[d] = history[d]
  <1>1. history[c] \in History
    BY DEF Typed
  <1>2. Settled(history[c]).halted = history[c].halted
    BY <1>1 DEF History, Settled
  <1>3. ASSUME NEW m, NEW sound, Accepted(c, m, sound)
        PROVE  /\ history'[c].halted = "no"
               /\ \A d \in Conversation : d # c => history'[d] = history[d]
    <2> DEFINE h == [history[c] EXCEPT
                        !.accepted = @ \/ m > history[c].known,
                        !.owed = @ \/ (sound /\ m > history[c].known),
                        !.halted = "no"]
    <2>1. h.halted = "no"
      BY <1>1 DEF History
    <2>2. Record(c, h)
      BY <1>3 DEF Accepted
    <2> HIDE DEF h
    <2> QED
      BY <2>1, <2>2, Recorded
  <1> QED
    BY <1>2, <1>3

LEMMA AcceptedRests ==
    ASSUME Typed, PauseInv, NEW c \in Conversation, NEW t, Become(c, t),
           NEW m, NEW sound, Accepted(c, m, sound),
           Restful(t, "no")
    PROVE  \A d \in Conversation : Rests(d)
  <1>1. PICK h : history'[c] = h
    OBVIOUS
  <1>2. /\ h.halted = "no"
        /\ \A d \in Conversation : d # c => history'[d] = history[d]
    BY <1>1, HaltedFields
  <1> QED
    BY <1>1, <1>2, ServiceRests

LEMMA CreateRests ==
    ASSUME SlotsInv, PauseInv, NEW c \in Conversation, CreateStep(c) \/ Create(c)
    PROVE  \A d \in Conversation : Rests(d)
  <1> DEFINE s == service[c]
  <1>1. /\ s \in Service /\ Typed /\ Restful(s, history[c].halted) /\ Placed(c)
    BY DEF SlotsInv, Typed, PauseInv
  <1>2. ASSUME NEW t, Become(c, t), history' = history,
               t.pc = s.pc, t.started = s.started,
               t.generation = s.generation, t.status = s.status,
               s.pc # "none" => t.agent = s.agent \/ t.agent
        PROVE  \A d \in Conversation : Rests(d)
    <2>1. Restful(t, history[c].halted)
      BY <1>1, <1>2 DEF Restful
    <2> QED
      BY <2>1, <1>1, <1>2, ServiceRests
  <1>3. CASE Create(c)
    BY <1>1, <1>2, <1>3 DEF Create, Service
  <1>4. CASE Initialize(c)
    BY <1>1, <1>2, <1>4 DEF Initialize, Service
  <1>5. CASE Created(c)
    BY <1>1, <1>2, <1>5 DEF Created, Service
  <1>6. CASE CreateFails(c)
    BY <1>1, <1>2, <1>6 DEF CreateFails, Service, Placed
  <1>7. CASE CreatorReleases(c)
    BY <1>7 DEF CreatorReleases, PauseInv, Rests
  <1>8. ASSUME NEW run \in BOOLEAN, InitialMessage(c, run)
        PROVE  \A d \in Conversation : Rests(d)
    <2> DEFINE u == [s EXCEPT !.latest = 1]
               t == [u EXCEPT !.pc = "entry", !.started = u.generation]
    <2>1. /\ u \in Service
          /\ u.pc = s.pc /\ u.started = s.started /\ u.agent = s.agent
          /\ u.generation = s.generation /\ u.status = s.status
      BY <1>1 DEF Service
    <2>2. t.pc = "entry" /\ t.started = t.generation /\ t.generation \in Nat
      <3> HIDE DEF u
      <3> QED
        BY <2>1 DEF Service
    <2>3. \/ Become(c, u) /\ UNCHANGED history
          \/ Become(c, t) /\ Accepted(c, 1, TRUE)
      BY <1>8 DEF InitialMessage
    <2> HIDE DEF u, t
    <2>4. Restful(t, "no")
      BY <2>2 DEF Restful
    <2> QED
      BY <2>1, <2>3, <2>4, <1>1, <1>2, AcceptedRests
  <1> QED
    BY <1>3, <1>4, <1>5, <1>6, <1>7, <1>8 DEF CreateStep

LEMMA PostRests ==
    ASSUME Typed, PauseInv, NEW c \in Conversation, NEW m, NEW run, Post(c, m, run)
    PROVE  \A d \in Conversation : Rests(d)
  <1> DEFINE s == [service[c] EXCEPT !.status = IF @ = "running" THEN @ ELSE "idle"]
             u == [s EXCEPT !.rerun = TRUE]
  <1>1. /\ service[c] \in Service
        /\ Restful(service[c], history[c].halted)
    BY DEF Typed, PauseInv
  <1>2. /\ s \in Service
        /\ s.pc = service[c].pc /\ s.agent = service[c].agent
        /\ s.started = service[c].started
        /\ s.generation = service[c].generation
        /\ s.status = "running" => service[c].status = "running"
    BY <1>1 DEF Service
  <1> HIDE DEF s
  <1>3. /\ u.pc = s.pc /\ u.agent = s.agent /\ u.started = s.started
        /\ u.generation = s.generation /\ u.status = s.status
    BY <1>2 DEF Service
  <1>4. /\ Launch(s).pc = "entry" /\ Launch(s).started = Launch(s).generation
        /\ Launch(s).generation \in Nat
    BY <1>2 DEF Service, Launch
  <1>5. \/ Become(c, s) /\ UNCHANGED history
        \/ Become(c, Launch(s)) /\ Accepted(c, m, TRUE)
        \/ /\ Become(c, u)
           /\ Accepted(c, m, ~Stopped(s) /\ s.pc # "failing")
    BY DEF Post, s
  <1> HIDE DEF u
  <1>6. /\ Restful(s, history[c].halted)
        /\ Restful(u, "no")
        /\ Restful(Launch(s), "no")
    BY <1>1, <1>2, <1>3, <1>4 DEF Restful
  <1>7. CASE Become(c, s) /\ UNCHANGED history
    BY <1>2, <1>6, <1>7, ServiceRests
  <1> QED
    BY <1>5, <1>6, <1>7, AcceptedRests

LEMMA ClientRests ==
    ASSUME SlotsInv, PauseInv, NEW c \in Conversation,
           ClientStep(c) \/ PauseApplied(c) \/ Closed(c), ~Create(c)
    PROVE  \A d \in Conversation : Rests(d)
  <1> DEFINE s == service[c]
  <1>1. /\ s \in Service /\ Typed /\ Restful(s, history[c].halted) /\ Placed(c)
        /\ history[c] \in History
    BY DEF SlotsInv, Typed, PauseInv
  <1>2. s.generation \in Nat /\ s.started \in Nat
    BY <1>1, ServiceFields
  <1>3. ASSUME NEW t, Become(c, t), history' = history,
               t.pc = s.pc, t.started = s.started,
               t.generation = s.generation, t.status = s.status,
               t.agent = s.agent
        PROVE  \A d \in Conversation : Rests(d)
    <2>1. Restful(t, history[c].halted)
      BY <1>1, <1>3 DEF Restful
    <2> QED
      BY <2>1, <1>1, <1>3, ServiceRests
  <1>4. ASSUME NEW run \in BOOLEAN, SendMessage(c, run)
        PROVE  \A d \in Conversation : Rests(d)
    BY <1>1, <1>3, <1>4 DEF SendMessage, Service
  <1>5. ASSUME NEW m, ResendMessage(c, m)
        PROVE  \A d \in Conversation : Rests(d)
    BY <1>1, <1>5, PostRests DEF ResendMessage
  <1>6. CASE RequestRun(c)
    <2> DEFINE h == [history[c] EXCEPT !.halted = "no"]
    <2>1. h.halted = "no"
      BY <1>1 DEF History
    <2>2. /\ Launch(s).pc = "entry" /\ Launch(s).started = Launch(s).generation
          /\ Launch(s).generation \in Nat
      BY <1>1 DEF Service, Launch
    <2>3. Become(c, Launch(s)) /\ Record(c, h)
      BY <1>6 DEF RequestRun
    <2> HIDE DEF h
    <2>4. Restful(Launch(s), "no")
      BY <2>2 DEF Restful
    <2> QED
      BY <2>1, <2>2, <2>3, <2>4, <1>1, Recorded, ServiceRests
  <1>7. ASSUME NEW u \in Service, StopScheduledWork(c, u),
               u.pc = s.pc, u.started = s.started, u.agent = s.agent,
               u.generation = s.generation, u.status = s.status,
               NEW h, Record(c, h),
               h.halted = "yes" => h.halted = history[c].halted \/ ~s.agent
        PROVE  \A d \in Conversation : Rests(d)
    <2> DEFINE t == [u EXCEPT !.generation = u.generation + 1, !.rerun = FALSE]
    <2>1. /\ t.pc = s.pc /\ t.started = s.started /\ t.agent = s.agent
          /\ t.generation = s.generation + 1 /\ t.status = s.status
      BY <1>7 DEF Service
    <2>2. Become(c, t)
      BY <1>7 DEF StopScheduledWork
    <2> HIDE DEF t
    <2>3. Restful(t, h.halted)
      BY <2>1, <1>1, <1>2, <1>7 DEF Restful
    <2> QED
      BY <2>1, <2>2, <2>3, <1>1, <1>7, Recorded, ServiceRests
  <1>8. CASE Pause(c)
    <2> DEFINE awaits == s.agent \/ s.pc = "preparing"
               u == [s EXCEPT !.pauses = IF awaits THEN @ + 1 ELSE @]
               h == [Settled(history[c]) EXCEPT
                        !.halted = IF u.pauses > 0 THEN "asked" ELSE "yes"]
    <2>1. StopScheduledWork(c, u) /\ Record(c, h)
      BY <1>8 DEF Pause
    <2>2. /\ u \in Service
          /\ u.pc = s.pc /\ u.started = s.started /\ u.agent = s.agent
          /\ u.generation = s.generation /\ u.status = s.status
          /\ s.agent => u.pauses > 0
      BY <1>1 DEF Service
    <2>3. Settled(history[c]) \in History
      BY <1>1, HistoryTypes
    <2>4. h.halted = "yes" => ~s.agent
      <3> HIDE DEF u
      <3> QED
        BY <2>2, <2>3 DEF History
    <2> HIDE DEF u, h
    <2> QED
      BY <2>1, <2>2, <2>4, <1>7
  <1>9. CASE Close(c)
    <2> DEFINE u == [s EXCEPT !.phase = "closing"]
    <2>1. StopScheduledWork(c, u) /\ Record(c, Settled(history[c]))
      BY <1>9 DEF Close
    <2>2. /\ u \in Service
          /\ u.pc = s.pc /\ u.started = s.started /\ u.agent = s.agent
          /\ u.generation = s.generation /\ u.status = s.status
      BY <1>1 DEF Service
    <2> HIDE DEF u
    <2> QED
      BY <2>1, <2>2, <1>1, <1>7, HaltedFields
  <1>10. CASE PauseApplied(c)
    <2> DEFINE t == [s EXCEPT !.pauses = @ - 1, !.status = "paused"]
               h == [Settled(history[c]) EXCEPT
                        !.halted = IF @ = "asked" THEN "yes" ELSE @]
    <2>1. Become(c, t) /\ Record(c, h)
      BY <1>10 DEF PauseApplied
    <2>2. /\ t.pc = s.pc /\ t.started = s.started /\ t.agent = s.agent
          /\ t.generation = s.generation /\ t.status = "paused"
      BY <1>1 DEF Service
    <2>3. Settled(history[c]) \in History
      BY <1>1, HistoryTypes
    <2>4. h.halted # "no" => history[c].halted # "no"
      BY <2>3, <1>1, HaltedFields DEF History
    <2> HIDE DEF t, h
    <2>5. Restful(t, h.halted)
      BY <2>2, <2>4, <1>1 DEF Restful
    <2> QED
      BY <2>1, <2>2, <2>5, <1>1, Recorded, ServiceRests
  <1>11. CASE Closed(c)
    BY <1>1, <1>3, <1>11 DEF Closed, Service
  <1> QED
    BY <1>4, <1>5, <1>6, <1>8, <1>9, <1>10, <1>11 DEF ClientStep

LEMMA RequestRests ==
    ASSUME Typed, PauseInv, RequestStep
    PROVE  \A d \in Conversation : Rests(d)
  <1>1. PICK r \in requests : Appended(r) \/ AppendFails(r)
    BY DEF RequestStep
  <1>2. r.conversation \in Conversation
    BY DEF Typed, Request
  <1>3. CASE AppendFails(r)
    BY <1>3 DEF AppendFails, PauseInv, Rests
  <1> QED
    BY <1>1, <1>2, <1>3, PostRests DEF Appended

(* A chain that is not stopped belongs to a conversation that was not halted *)
(* since, so only such a chain sets the status to running.                   *)
LEMMA ChainRests ==
    ASSUME SlotsInv, PauseInv, NEW c \in Conversation, ChainStep(c)
    PROVE  \A d \in Conversation : Rests(d)
  <1> DEFINE s == service[c]
  <1>1. /\ s \in Service /\ Typed /\ Restful(s, history[c].halted)
        /\ history[c] \in History
    BY DEF SlotsInv, Typed, PauseInv
  <1>2. s.generation \in Nat /\ s.started \in Nat
    BY <1>1, ServiceFields
  <1>3. Settled(history[c]).halted = history[c].halted
    BY <1>1, HaltedFields
  (* A step that leaves the agent between its steps, or without a run. *)
  <1>4. ASSUME NEW t, Become(c, t),
               history' = history \/ Record(c, Settled(history[c])),
               s.pc # "none", t.pc # "none",
               t.started = s.started, t.generation = s.generation,
               \/ t.pc \notin {"stepping", "thinking"}
               \/ /\ t.pc = "stepping" /\ t.agent
                  /\ \/ t.status # "running"
                     \/ history[c].halted = "no"
                     \/ s.pc \in {"stepping", "thinking"} /\ s.status = "running"
        PROVE  \A d \in Conversation : Rests(d)
    <2>1. Restful(t, history[c].halted)
      BY <1>1, <1>4 DEF Restful
    <2>2. /\ history'[c].halted = history[c].halted
          /\ \A d \in Conversation : d # c => history'[d] = history[d]
      BY <1>1, <1>3, <1>4, Recorded
    <2> QED
      BY <2>1, <2>2, <1>1, <1>4, ServiceRests
  <1>5. [s EXCEPT !.pc = "settled"].started = s.started
        /\ [s EXCEPT !.pc = "settled"].generation = s.generation
        /\ [s EXCEPT !.pc = "settled"].pc = "settled"
        /\ [s EXCEPT !.pc = "waiting"].started = s.started
        /\ [s EXCEPT !.pc = "waiting"].generation = s.generation
        /\ [s EXCEPT !.pc = "waiting"].pc = "waiting"
        /\ Prepared(s).started = s.started
        /\ Prepared(s).generation = s.generation
        /\ Prepared(s).pc = "preparing"
    BY <1>1 DEF Service, Prepared
  <1>6. ASSUME Loop(c), s.pc # "none", history' = history
        PROVE  \A d \in Conversation : Rests(d)
    BY <1>4, <1>5, <1>6 DEF Loop
  <1>7. CASE Enter(c)
    BY <1>6, <1>7 DEF Enter
  <1>8. CASE Resume(c)
    BY <1>4, <1>5, <1>8 DEF Resume
  <1>9. CASE StartRun(c)
    <2> DEFINE u == [s EXCEPT !.agent = TRUE, !.seen = IF s.agent THEN @ ELSE 0]
               a == [u EXCEPT !.pc = "settled"]
               b == [u EXCEPT !.pc = "stepping",
                        !.status = IF @ \in {"idle", "error"} THEN "running"
                                   ELSE @]
    <2>1. /\ u \in Service /\ u.agent = TRUE /\ u.pc = s.pc
          /\ u.started = s.started /\ u.generation = s.generation
      BY <1>1 DEF Service
    <2>2. /\ a.started = u.started /\ a.generation = u.generation
          /\ a.pc = "settled"
          /\ b.started = u.started /\ b.generation = u.generation
          /\ b.pc = "stepping" /\ b.agent = TRUE
      <3> HIDE DEF u
      <3> QED
        BY <2>1 DEF Service
    <2>3. /\ u.pc = "preparing" /\ history' = history
          /\ Become(c, a) \/ (~Stopped(u) /\ Become(c, b))
      BY <1>9 DEF StartRun
    <2> HIDE DEF u, a, b
    <2>4. CASE Become(c, a)
      BY <2>1, <2>2, <2>3, <2>4, <1>4
    <2>5. CASE ~Stopped(u) /\ Become(c, b)
      <3>1. history[c].halted = "no"
        BY <2>1, <2>3, <2>5, <1>1, <1>2 DEF Stopped, Restful
      <3> QED
        BY <3>1, <2>1, <2>2, <2>3, <2>5, <1>4
    <2> QED
      BY <2>3, <2>4, <2>5
  <1>10. CASE BeginStep(c)
    <2> DEFINE t == [s EXCEPT !.pc = "thinking", !.seen = s.latest]
               h == [Settled(history[c]) EXCEPT !.known = s.latest]
    <2>1. /\ Become(c, t) /\ Record(c, h)
          /\ s.pc = "stepping" /\ s.status = "running"
      BY <1>10 DEF BeginStep
    <2>2. /\ t.pc = "thinking" /\ t.started = s.started /\ t.agent = s.agent
          /\ t.generation = s.generation /\ t.status = s.status
      BY <1>1 DEF Service
    <2>3. Settled(history[c]) \in History
      BY <1>1, HistoryTypes
    <2>4. h.halted = history[c].halted
      BY <2>3, <1>3 DEF History
    <2> HIDE DEF t, h
    <2>5. history[c].halted # "yes"
      BY <2>1, <1>1 DEF Restful
    <2>6. Restful(t, h.halted)
      BY <2>1, <2>2, <2>4, <1>1 DEF Restful
    <2> QED
      BY <2>1, <2>4, <2>5, <2>6, <1>1, Recorded, ServiceRests
  <1>11. CASE Stuck(c)
    <2>1. /\ [s EXCEPT !.status = "error"].started = s.started
          /\ [s EXCEPT !.status = "error"].generation = s.generation
          /\ [s EXCEPT !.status = "error"].pc = s.pc
          /\ [s EXCEPT !.status = "error"].agent = s.agent
          /\ [s EXCEPT !.status = "error"].status = "error"
      BY <1>1 DEF Service
    <2>2. /\ s.pc = "stepping" /\ Become(c, [s EXCEPT !.status = "error"])
          /\ Record(c, Settled(history[c]))
      BY <1>11 DEF Stuck
    <2>3. s.agent
      BY <2>2, <1>1 DEF Restful
    <2> QED
      BY <2>1, <2>2, <2>3, <1>4
  <1>12. ASSUME NEW f \in BOOLEAN, EndStep(c, f)
         PROVE  \A d \in Conversation : Rests(d)
    <2> DEFINE limit == s.iteration + 1 >= MaxIterations /\ s.status = "running"
               t == [s EXCEPT !.pc = "stepping", !.iteration = @ + 1,
                        !.status = IF f THEN "finished"
                                   ELSE IF limit THEN "error" ELSE @]
    <2>1. s.pc = "thinking" /\ Become(c, t) /\ history' = history
      BY <1>12 DEF EndStep
    <2>2. /\ t.pc = "stepping" /\ t.started = s.started /\ t.agent = s.agent
          /\ t.generation = s.generation
          /\ t.status = "running" => s.status = "running"
      <3> HIDE DEF limit
      <3> QED
        BY <1>1 DEF Service
    <2> HIDE DEF t
    <2>3. s.agent
      BY <2>1, <1>1 DEF Restful
    <2> QED
      BY <2>1, <2>2, <2>3, <1>4
  <1>13. ASSUME NEW k \in BOOLEAN, FailRun(c, k)
         PROVE  \A d \in Conversation : Rests(d)
    <2> DEFINE t == [s EXCEPT !.pc = "failing", !.rerun = FALSE,
                        !.iteration = 0, !.status = "error",
                        !.agent = s.agent /\ k,
                        !.pauses = IF s.pc = "preparing" THEN 0 ELSE @]
    <2>1. /\ s.pc \in {"preparing", "stepping", "thinking"}
          /\ Become(c, t) /\ Record(c, Settled(history[c]))
      BY <1>13 DEF FailRun
    <2>2. t.pc = "failing" /\ t.started = s.started /\ t.generation = s.generation
      BY <1>1 DEF Service
    <2> HIDE DEF t
    <2> QED
      BY <2>1, <2>2, <1>4
  <1>14. CASE EndRun(c)
    <2> DEFINE r == [s EXCEPT !.read = s.seen]
               t == [r EXCEPT !.pc = "tail", !.iteration = 0]
    <2>1. /\ r \in Service /\ r.pc = s.pc /\ r.started = s.started
          /\ r.generation = s.generation
      BY <1>1 DEF Service
    <2>2. t.pc = "tail" /\ t.started = r.started /\ t.generation = r.generation
      <3> HIDE DEF r
      <3> QED
        BY <2>1 DEF Service
    <2>3. r.pc = "stepping" /\ Become(c, t) /\ history' = history
      BY <1>14 DEF EndRun
    <2> HIDE DEF r, t
    <2> QED
      BY <2>1, <2>2, <2>3, <1>4
  <1>15. CASE EndTail(c)
    BY <1>4, <1>5, <1>6, <1>15 DEF EndTail
  <1>16. CASE FailTail(c)
    BY <1>4, <1>5, <1>16 DEF FailTail
  <1>17. CASE EndFailure(c)
    <2> DEFINE t == [s EXCEPT !.pc = "settled", !.rerun = FALSE]
    <2>1. s.pc = "failing" /\ Become(c, t) /\ history' = history
      BY <1>17 DEF EndFailure
    <2>2. t.pc = "settled" /\ t.started = s.started /\ t.generation = s.generation
      BY <1>1 DEF Service
    <2> HIDE DEF t
    <2> QED
      BY <2>1, <2>2, <1>4
  <1>18. CASE Settle(c)
    <2>1. /\ s.pc = "settled" /\ history' = history
          /\ \/ ~Stopped(s) /\ Become(c, Launch(s))
             \/ Become(c, Idle(s))
      BY <1>18 DEF Settle
    <2>2. /\ Launch(s).pc = "entry" /\ Launch(s).started = s.generation
          /\ Launch(s).generation = s.generation
          /\ Idle(s).pc = "none" /\ Idle(s).started = 0
          /\ Idle(s).generation = s.generation
      BY <1>1 DEF Service, Launch, Idle
    <2>3. ~Stopped(s) => history[c].halted = "no"
      BY <2>1, <1>1, <1>2 DEF Stopped, Restful
    <2>4. /\ Restful(Idle(s), history[c].halted)
          /\ ~Stopped(s) => Restful(Launch(s), history[c].halted)
      BY <2>2, <2>3, <1>2 DEF Restful
    <2> QED
      BY <2>1, <2>2, <2>4, <1>1, ServiceRests
  <1> QED
    BY <1>7, <1>8, <1>9, <1>10, <1>11, <1>12, <1>13, <1>14, <1>15, <1>16,
       <1>17, <1>18 DEF ChainStep

LEMMA PauseStep ==
    ASSUME SlotsInv, PauseInv, [Next]_vars
    PROVE  \A c \in Conversation : Rests(c)
  <1>1. CASE Next
    BY <1>1, RequestRests, CreateRests, ClientRests, ChainRests
    DEF Next, ClientStep, SlotsInv
  <1>2. CASE UNCHANGED vars
    BY <1>2 DEF vars, PauseInv, Rests
  <1> QED
    BY <1>1, <1>2

LEMMA PauseInitially == Init => PauseInv
  BY DEF Init, PauseInv, Restful

(* Once a pause has taken effect the agent begins no step until a run is     *)
(* asked for again (runAndPublish, LocalConversation.run).                   *)
THEOREM PauseSafe == Spec => PauseHolds
  <1>1. SlotsInv /\ PauseInv /\ [Next]_vars => PauseInv'
    BY PauseStep DEF PauseInv, Rests
  <1>2. SlotsInv /\ PauseInv /\ [Next]_vars =>
           [\A c \in Conversation :
               history[c].halted = "yes" /\ service'[c].pc = "thinking"
               => service[c].pc = "thinking" \/ history'[c].halted # "yes"]_vars
    BY PauseStep DEF Rests
  <1> QED
    BY <1>1, <1>2, PauseInitially, SlotsAlways, PTL DEF Spec, PauseHolds
================================================================================
