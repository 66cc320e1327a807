------------------------------ MODULE RunAdmission ------------------------------
(***************************************************************************)
(* The capacity pool of the agent server (runAdmission.ts): a number of    *)
(* slots, a queue of runs that wait for one, and reservations that several *)
(* owners may share, which return their slot when the last one lets go.    *)
(*                                                                         *)
(* An owner is one RunSlot handle, or one call that waits for a handle.  A *)
(* reservation is the set of owners whose handles share it.                *)
(***************************************************************************)
EXTENDS Naturals, FiniteSets, SequencesExt

CONSTANTS
    Owner,     \* handles, and calls waiting for one
    MaxRuns    \* the `maximum' of the constructor

ASSUME RunAdmissionAssumption == MaxRuns \in Nat \ {0}

VARIABLES
    available,   \* free slots
    waiters,     \* owners waiting in acquire, first come first served
    held         \* the reservations whose handles are not all released

admission == <<available, waiters, held>>

AdmissionTypeOK ==
    /\ available \in Nat
    /\ waiters \in Seq(Owner)
    /\ held \subseteq SUBSET Owner

Holds(o) == \E r \in held : o \in r

Waits(o) == \E i \in 1..Len(waiters) : waiters[i] = o

Reservation(o) == CHOOSE r \in held : o \in r
-------------------------------------------------------------------------------
AdmissionInit ==
    /\ available = MaxRuns
    /\ waiters = <<>>
    /\ held = {}

(* tryAcquire, and acquire when a slot is free.  Without a free slot         *)
(* tryAcquire throws and changes nothing.                                    *)
TryAcquire(o) ==
    /\ available > 0
    /\ available' = available - 1
    /\ held' = held \cup {{o}}
    /\ UNCHANGED waiters

(* acquire without a free slot. *)
Enqueue(o) ==
    /\ available = 0
    /\ waiters' = Append(waiters, o)
    /\ UNCHANGED <<available, held>>

(* The abort listener of a waiter.  It is removed when the waiter is served. *)
Abort(o) ==
    /\ \E i \in 1..Len(waiters) :
          waiters[i] = o /\ waiters' = RemoveAt(waiters, i)
    /\ UNCHANGED <<available, held>>

(* RunSlot.share: a second handle, p, on the reservation of o. *)
Share(o, p) ==
    /\ Holds(o)
    /\ held' = (held \ {Reservation(o)}) \cup {Reservation(o) \cup {p}}
    /\ UNCHANGED <<available, waiters>>

(* The slot of a reservation that has ended goes to the first waiter. *)
Freed(rest) ==
    \/ /\ waiters = <<>>
       /\ available' = available + 1
       /\ held' = rest
       /\ UNCHANGED waiters
    \/ /\ waiters # <<>>
       /\ held' = rest \cup {{Head(waiters)}}
       /\ waiters' = Tail(waiters)
       /\ UNCHANGED available

(* RunSlot.release of a handle that was not released before. *)
Release(o) ==
    /\ Holds(o)
    /\ LET others == Reservation(o) \ {o}
           rest   == held \ {Reservation(o)}
       IN  \/ others = {} /\ Freed(rest)
           \/ /\ others # {}
              /\ held' = rest \cup {others}
              /\ UNCHANGED <<available, waiters>>

(* An owner stands for a fresh handle or a fresh call. *)
Fresh(o) == ~Holds(o) /\ ~Waits(o)

AdmissionNext ==
    \E o \in Owner :
        \/ Fresh(o) /\ (TryAcquire(o) \/ Enqueue(o))
        \/ Abort(o)
        \/ \E p \in Owner : Fresh(p) /\ Share(o, p)
        \/ Release(o)

AdmissionSpec == AdmissionInit /\ [][AdmissionNext]_admission
-------------------------------------------------------------------------------
(* Slots are neither lost nor made: each is free or stands for exactly one   *)
(* reservation, however often that was shared, aborted or handed on.         *)
SlotsConserved == IsFiniteSet(held) /\ available + Cardinality(held) = MaxRuns

(* Nobody waits beside a free slot, so a later call never overtakes a        *)
(* waiter (acquire asks for a slot before it waits, release serves waiters). *)
NoIdleSlot == waiters # <<>> => available = 0

(* An owner has one handle or one place in the queue, and no reservation is  *)
(* left without a handle that could release it.                              *)
OwnersDistinct ==
    /\ \A r \in held : r # {}
    /\ \A r, s \in held : r # s => r \cap s = {}
    /\ \A i, j \in 1..Len(waiters) : waiters[i] = waiters[j] => i = j
    /\ \A o \in Owner : ~(Holds(o) /\ Waits(o))

AdmissionInv ==
    AdmissionTypeOK /\ SlotsConserved /\ NoIdleSlot /\ OwnersDistinct
================================================================================
