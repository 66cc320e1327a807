------------------------ MODULE ConversationLeaseProofs ------------------------
(***************************************************************************)
(* Mutual exclusion and fencing of the lease, for any servers and hosts,   *)
(* stalls and crashes, until the conversation is deleted.                  *)
(***************************************************************************)
EXTENDS ConversationLease, TLAPS

Busy == \A t \in Thread : job[t].at # "rest" => job[t].op # "none"

(* Whoever is inside the lock has made its file. *)
LockMade == deletes = 0 => \A t \in Thread : Inside(t) => lock

(* A claim that is about to be written is still permitted. *)
ClaimsDecided ==
    deletes = 0 =>
        \A t \in Thread :
            job[t].at = "write" /\ job[t].op = "claim" =>
                ~Held(t[1]) /\ job[t].gen = NextGeneration(t[1])

Inv == TypeOK /\ Busy /\ LockMade /\ OneInside /\ WritesFenced /\ ClaimsDecided
-------------------------------------------------------------------------------
LEMMA Initially == Init => Inv
<1> SUFFICES ASSUME Init PROVE Inv
  OBVIOUS
<1>1. \A t \in Thread : job[t].at = "rest"
  BY DEF Init, Rest
<1>2. TypeOK
  BY DEF Init, TypeOK, NoLease, Lease, Rest, Job
<1> QED
  BY <1>1, <1>2 DEF Inv, Busy, LockMade, OneInside, WritesFenced, ClaimsDecided, Inside

(* A thread that begins an operation, or ends one it has not begun inside    *)
(* the lock, disturbs nobody.                                                *)
LEMMA OutsidePreserves ==
    ASSUME Inv, NEW t \in Thread, NEW j \in Job,
           j.at \in {"rest", "lock"}, j.at # "rest" => j.op # "none",
           ~Inside(t), job' = [job EXCEPT ![t] = j],
           UNCHANGED <<alive, lease, lock, counts>>,
           claimed' \in [Server -> Nat]
    PROVE  Inv'
<1>1. \A u \in Thread : job'[u] = IF u = t THEN j ELSE job[u]
  BY DEF Inv, TypeOK
<1>2. \A u \in Thread : u # t => Inside(u)' = Inside(u)
  BY <1>1 DEF Inside
<1>3. ~Inside(t)' /\ job'[t].at # "write"
  BY <1>1 DEF Inside
<1>4. TypeOK'
  BY DEF Inv, TypeOK, counts
<1>5. deletes' = deletes /\ lock' = lock /\ lease' = lease /\ alive' = alive
  BY DEF counts
<1>6. \A s \in Server : Held(s)' = Held(s) /\ NextGeneration(s)' = NextGeneration(s)
  BY <1>5 DEF Held, SeenDead, NextGeneration
<1>7. WritesFenced' /\ ClaimsDecided'
  <2> SUFFICES ASSUME deletes = 0, NEW u \in Thread, job'[u].at = "write"
               PROVE  /\ job'[u].op # "claim" => Owns(u[1], job[u].gen)'
                      /\ job'[u].op = "claim" =>
                            ~Held(u[1])' /\ job'[u].gen = NextGeneration(u[1])'
    BY <1>5 DEF WritesFenced, ClaimsDecided
  <2>1. job'[u] = job[u] /\ u[1] \in Server
    BY <1>1, <1>3 DEF Thread
  <2> QED
    BY <1>5, <1>6, <2>1 DEF Inv, WritesFenced, ClaimsDecided, Owns
<1> QED
  BY <1>1, <1>2, <1>3, <1>4, <1>5, <1>7 DEF Inv, Busy, LockMade, OneInside

LEMMA BeginPreserves ==
    ASSUME Inv, NEW s \in Server, NEW th \in {"main", "timer"},
           NEW op \in {"claim", "renew", "save", "release"}, NEW gen \in Nat,
           Begin(<<s, th>>, op, gen), UNCHANGED <<alive, lease, lock, counts>>,
           claimed' \in [Server -> Nat]
    PROVE  Inv'
<1> DEFINE j == [op |-> op, at |-> "lock", gen |-> gen]
<1>1. <<s, th>> \in Thread /\ j \in Job
  BY DEF Thread, Job
<1>2. ~Inside(<<s, th>>) /\ job' = [job EXCEPT ![<<s, th>>] = j]
  BY DEF Begin, Inside, Rest
<1> QED
  BY <1>1, <1>2, OutsidePreserves

LEMMA StartPreserves ==
    ASSUME Inv, NEW s \in Server,
           StartClaim(s) \/ StartSave(s) \/ StartRenew(s) \/ StartRelease(s)
    PROVE  Inv'
<1>1. claimed[s] \in Nat /\ claimed \in [Server -> Nat]
  BY DEF Inv, TypeOK
<1>2. claimed' \in [Server -> Nat] /\ UNCHANGED <<alive, lease, lock, counts>>
  BY <1>1 DEF StartClaim, StartSave, StartRenew, StartRelease
<1> QED
  BY <1>1, <1>2, BeginPreserves DEF StartClaim, StartSave, StartRenew, StartRelease

(* After a deletion nothing but the types is claimed any more. *)
LEMMA DeletePreserves ==
    ASSUME Inv, NEW s \in Server, Delete(s)
    PROVE  Inv'
<1>1. deletes' # 0
  BY DEF Delete, Inv, TypeOK
<1>2. <<s, "main">> \in Thread /\ claimed[s] \in Nat
  BY DEF Thread, Inv, TypeOK
<1> DEFINE j == [op |-> "release", at |-> "lock", gen |-> claimed[s]]
<1>3. j \in Job /\ job' = [job EXCEPT ![<<s, "main">>] = j]
  BY <1>2 DEF Delete, Begin, Job
<1>4. TypeOK'
  <2>1. claimed' \in [Server -> Nat] /\ job' \in [Thread -> Job]
    BY <1>3 DEF Delete, Inv, TypeOK
  <2>2. lease' \in Lease /\ lock' \in BOOLEAN
    BY DEF Delete, NoLease, Lease
  <2> QED
    BY <2>1, <2>2 DEF Delete, Inv, TypeOK
<1>5. Busy'
  BY <1>2, <1>3 DEF Inv, TypeOK, Busy
<1> QED
  BY <1>1, <1>4, <1>5 DEF Inv, LockMade, OneInside, WritesFenced, ClaimsDecided
-------------------------------------------------------------------------------
(* The lock. *)

LEMMA GiveUpPreserves ==
    ASSUME Inv, NEW t \in Thread, GiveUp(t)
    PROVE  Inv'
<1>1. Rest \in Job /\ Rest.at = "rest" /\ ~Inside(t)
  BY DEF Rest, Job, GiveUp, Inside
<1>2. /\ job' = [job EXCEPT ![t] = Rest]
      /\ UNCHANGED <<alive, lease, lock, counts>> /\ claimed' \in [Server -> Nat]
  BY DEF GiveUp, LockAfterFailure, Inv, TypeOK
<1> QED
  BY <1>1, <1>2, OutsidePreserves

(* A step of one thread that leaves the lease alone and is inside before or  *)
(* after it: the others are outside.                                         *)
LEMMA InsidePreserves ==
    ASSUME Inv, NEW t \in Thread, NEW j \in Job, j.at # "rest" => j.op # "none",
           job' = [job EXCEPT ![t] = j], UNCHANGED <<alive, lease, counts>>,
           lock' \in BOOLEAN, claimed' \in [Server -> Nat],
           deletes = 0 => \A u \in Thread : u # t => ~Inside(u),
           deletes = 0 /\ j.at \in {"check", "write", "leave"} => lock',
           j.at = "write" /\ j.op # "claim" => Owns(t[1], j.gen),
           j.at = "write" /\ j.op = "claim" =>
               ~Held(t[1]) /\ j.gen = NextGeneration(t[1])
    PROVE  Inv'
<1>1. \A u \in Thread : job'[u] = IF u = t THEN j ELSE job[u]
  BY DEF Inv, TypeOK
<1>2. TypeOK'
  BY DEF Inv, TypeOK, counts
<1>3. deletes' = deletes /\ lease' = lease /\ alive' = alive
  BY DEF counts
<1>4. deletes = 0 => \A u \in Thread : u # t => ~Inside(u)'
  BY <1>1 DEF Inside
<1>5. LockMade' /\ OneInside'
  BY <1>1, <1>3, <1>4 DEF LockMade, OneInside, Inside
<1>6. WritesFenced' /\ ClaimsDecided'
  <2> SUFFICES ASSUME deletes = 0, NEW u \in Thread, job'[u].at = "write"
               PROVE  /\ job'[u].op # "claim" => Owns(u[1], job[u].gen)'
                      /\ job'[u].op = "claim" =>
                            ~Held(u[1])' /\ job'[u].gen = NextGeneration(u[1])'
    BY <1>3 DEF WritesFenced, ClaimsDecided, Owns
  <2>1. u = t /\ job'[u] = j
    BY <1>1, <1>4 DEF Inside
  <2> QED
    BY <1>3, <2>1 DEF Owns, Held, SeenDead, NextGeneration
<1> QED
  BY <1>1, <1>2, <1>5, <1>6 DEF Inv, Busy

LEMMA AloneInside ==
    ASSUME Inv, NEW t \in Thread, Inside(t), deletes = 0
    PROVE  lock /\ \A u \in Thread : u # t => ~Inside(u)
BY DEF Inv, LockMade, OneInside

LEMMA EnterPreserves ==
    ASSUME Inv, NEW t \in Thread, Enter(t)
    PROVE  Inv'
<1> DEFINE j == [job[t] EXCEPT !.at = "check"]
<1>1. job[t] \in Job /\ job[t].at = "lock" /\ ~lock
  BY DEF Enter, MayEnter, Inv, TypeOK
<1>2. j \in Job /\ j.at = "check" /\ j.op = job[t].op /\ j.op # "none"
  BY <1>1 DEF Job, Inv, Busy
<1>3. deletes = 0 => \A u \in Thread : ~Inside(u)
  BY <1>1 DEF Inv, LockMade
<1>4. /\ job' = [job EXCEPT ![t] = j] /\ UNCHANGED <<alive, lease, counts>>
      /\ lock' = TRUE /\ claimed' \in [Server -> Nat]
  BY DEF Enter, Goto, Inv, TypeOK
<1> HIDE DEF j
<1> QED
  BY <1>2, <1>3, <1>4, InsidePreserves

LEMMA LeavePreserves ==
    ASSUME Inv, NEW t \in Thread, Leave(t)
    PROVE  Inv'
<1>1. job[t] \in Job /\ Inside(t) /\ t[1] \in Server
  BY DEF Leave, Inv, TypeOK, Inside, Thread
<1>2. Rest \in Job /\ Rest.at = "rest"
  BY DEF Rest, Job
<1>3. /\ job' = [job EXCEPT ![t] = Rest] /\ UNCHANGED <<alive, lease, counts>>
      /\ lock' = FALSE
  BY DEF Leave
<1>4. claimed' \in [Server -> Nat]
  BY <1>1 DEF Leave, Inv, TypeOK, Job
<1> QED
  BY <1>1, <1>2, <1>3, <1>4, AloneInside, InsidePreserves

LEMMA CheckClaimPreserves ==
    ASSUME Inv, NEW t \in Thread, CheckClaim(t)
    PROVE  Inv'
<1>1. /\ job[t] \in Job /\ Inside(t) /\ t[1] \in Server /\ job[t].op = "claim"
      /\ lock \in BOOLEAN /\ claimed \in [Server -> Nat] /\ lease \in Lease
  BY DEF CheckClaim, Inv, TypeOK, Inside, Thread
<1>2. NextGeneration(t[1]) \in Nat
  BY <1>1 DEF NextGeneration, Lease
<1>3. /\ UNCHANGED <<alive, lease, counts>> /\ lock' = lock /\ claimed' = claimed
  BY DEF CheckClaim
<1>4. CASE Held(t[1])
  <2> DEFINE j == [job[t] EXCEPT !.at = "leave"]
  <2>1. job' = [job EXCEPT ![t] = j]
    BY <1>4 DEF CheckClaim, Goto
  <2>2. j \in Job /\ j.at = "leave" /\ j.op = "claim"
    BY <1>1 DEF Job
  <2> HIDE DEF j
  <2> QED
    BY <1>1, <1>3, <2>1, <2>2, AloneInside, InsidePreserves
<1>5. CASE ~Held(t[1])
  <2> DEFINE j == [job[t] EXCEPT !.at = "write", !.gen = NextGeneration(t[1])]
  <2>1. job' = [job EXCEPT ![t] = j]
    BY <1>5 DEF CheckClaim
  <2>2. j \in Job /\ j.at = "write" /\ j.op = "claim" /\ j.gen = NextGeneration(t[1])
    BY <1>1, <1>2 DEF Job
  <2> HIDE DEF j
  <2> QED
    BY <1>1, <1>3, <1>5, <2>1, <2>2, AloneInside, InsidePreserves
<1> QED
  BY <1>4, <1>5

LEMMA CheckOwnerPreserves ==
    ASSUME Inv, NEW t \in Thread, CheckOwner(t)
    PROVE  Inv'
<1> DEFINE at == IF Owns(t[1], job[t].gen) THEN "write" ELSE "leave"
           j == [job[t] EXCEPT !.at = at]
<1>1. /\ job[t] \in Job /\ Inside(t) /\ job[t].op # "claim" /\ job[t].op # "none"
      /\ lock \in BOOLEAN /\ claimed \in [Server -> Nat]
  BY DEF CheckOwner, Inv, TypeOK, Inside, Busy
<1>2. /\ UNCHANGED <<alive, lease, counts>> /\ lock' = lock /\ claimed' = claimed
      /\ job' = [job EXCEPT ![t] = j]
  BY DEF CheckOwner, Goto
<1>3. /\ j \in Job /\ j.at = at /\ j.op = job[t].op /\ j.gen = job[t].gen
      /\ j.at \in {"write", "leave"}
  BY <1>1 DEF Job
<1>4. j.at = "write" => Owns(t[1], j.gen)
  BY <1>3
<1> HIDE DEF j, at
<1> QED
  BY <1>1, <1>2, <1>3, <1>4, AloneInside, InsidePreserves
-------------------------------------------------------------------------------
(* Steps that change the lease, or who is alive. *)

LEMMA WritePreserves ==
    ASSUME Inv, NEW t \in Thread, Write(t)
    PROVE  Inv'
<1> DEFINE j == [job[t] EXCEPT !.at = "leave"]
<1>1. /\ job[t] \in Job /\ Inside(t) /\ t[1] \in Server /\ job[t].op # "none"
      /\ lease \in Lease
  BY DEF Write, Inv, TypeOK, Inside, Busy, Thread
<1>2. j \in Job /\ j.at = "leave" /\ j.op = job[t].op
  BY <1>1 DEF Job
<1>3. /\ job' = [job EXCEPT ![t] = j]
      /\ alive' = alive /\ claimed' = claimed /\ lock' = lock
      /\ stalls' = stalls /\ crashes' = crashes /\ deletes' = deletes
  BY DEF Write, Goto, counts
<1> HIDE DEF j
<1>4. \A u \in Thread : job'[u] = IF u = t THEN j ELSE job[u]
  BY <1>3 DEF Inv, TypeOK
<1>5. lease' \in Lease
  BY <1>1 DEF Write, Lease, NoLease, Job
<1>6. TypeOK' /\ Busy'
  BY <1>1, <1>2, <1>3, <1>4, <1>5 DEF Inv, TypeOK, Busy
<1>7. deletes = 0 => lock /\ \A u \in Thread : u # t => ~Inside(u)'
  BY <1>1, <1>4, AloneInside DEF Inside
<1>8. deletes = 0 => \A u \in Thread : job'[u].at # "write"
  BY <1>2, <1>4, <1>7 DEF Inside
<1> QED
  BY <1>3, <1>6, <1>7, <1>8 DEF Inv, LockMade, OneInside, WritesFenced, ClaimsDecided

LEMMA ExpirePreserves ==
    ASSUME Inv, Expire
    PROVE  Inv'
<1>1. /\ alive' = alive /\ claimed' = claimed /\ lock' = lock /\ job' = job
      /\ crashes' = crashes /\ deletes' = deletes
      /\ stalls' \in Nat
  BY DEF Expire, Inv, TypeOK
<1>2. lease' \in Lease /\ lease'.owner = lease.owner /\ lease'.gen = lease.gen
      /\ ~lease'.fresh
  BY DEF Expire, Inv, TypeOK, Lease
<1>3. TypeOK'
  BY <1>1, <1>2 DEF Inv, TypeOK
<1> QED
  BY <1>1, <1>2, <1>3 DEF Inv, Busy, LockMade, OneInside, WritesFenced, ClaimsDecided,
     Inside, Owns, Held, NextGeneration

LEMMA CrashPreserves ==
    ASSUME Inv, NEW s \in Server, Crash(s)
    PROVE  Inv'
<1>1. /\ alive' \subseteq alive /\ lease' = lease /\ lock' = lock
      /\ stalls' = stalls /\ deletes' = deletes /\ crashes' \in Nat
      /\ claimed' \in [Server -> Nat]
  BY DEF Crash, Inv, TypeOK
<1>2. /\ job' \in [Thread -> Job]
      /\ \A t \in Thread : job'[t] = job[t] \/ job'[t] = Rest
  BY DEF Crash, Inv, TypeOK, Rest, Job
<1>3. TypeOK' /\ Busy'
  BY <1>1, <1>2 DEF Inv, TypeOK, Busy, Rest
<1>4. \A t \in Thread : Inside(t)' => Inside(t)
  BY <1>2 DEF Inside, Rest
<1>5. \A u \in Server : Held(u)' => Held(u)
  BY <1>1 DEF Held, SeenDead
<1>6. LockMade' /\ OneInside'
  BY <1>1, <1>4 DEF Inv, LockMade, OneInside
<1>7. WritesFenced' /\ ClaimsDecided'
  <2> SUFFICES ASSUME deletes = 0, NEW u \in Thread, job'[u].at = "write"
               PROVE  /\ job'[u].op # "claim" => Owns(u[1], job[u].gen)'
                      /\ job'[u].op = "claim" =>
                            ~Held(u[1])' /\ job'[u].gen = NextGeneration(u[1])'
    BY <1>1 DEF WritesFenced, ClaimsDecided
  <2>1. job'[u] = job[u] /\ u[1] \in Server
    BY <1>2 DEF Rest, Thread
  <2> QED
    BY <1>1, <1>5, <2>1 DEF Inv, WritesFenced, ClaimsDecided, Owns, NextGeneration
<1> QED
  BY <1>3, <1>6, <1>7 DEF Inv
-------------------------------------------------------------------------------
LEMMA NextPreserves ==
    ASSUME Inv, [Next]_vars
    PROVE  Inv'
<1>1. ASSUME NEW t \in Thread, Step(t) PROVE Inv'
  BY <1>1, EnterPreserves, GiveUpPreserves, CheckClaimPreserves, CheckOwnerPreserves,
     WritePreserves, LeavePreserves DEF Step
<1>2. ASSUME NEW s \in Server,
             StartClaim(s) \/ StartSave(s) \/ StartRenew(s) \/ StartRelease(s)
             \/ Delete(s) \/ Crash(s)
      PROVE  Inv'
  BY <1>2, StartPreserves, DeletePreserves, CrashPreserves
<1>3. CASE Expire
  BY <1>3, ExpirePreserves
<1>4. CASE UNCHANGED vars
  BY <1>4 DEF vars, counts, Inv, TypeOK, Busy, LockMade, OneInside, WritesFenced,
     ClaimsDecided, Inside, Owns, Held, SeenDead, NextGeneration
<1> QED
  BY <1>1, <1>2, <1>3, <1>4 DEF Next

(* The inductive invariant holds in every reachable state (withLock).        *)
THEOREM Invariance == Spec => []Inv
<1>1. Init => Inv
  BY Initially
<1>2. Inv /\ [Next]_vars => Inv'
  BY NextPreserves
<1> QED
  BY <1>1, <1>2, PTL DEF Spec

(* The lock file admits one thread of one server at a time (withLock).       *)
THEOREM MutualExclusion == Spec => []OneInside
BY Invariance, PTL DEF Inv

(* A guarded write happens under the very lease that permitted it            *)
(* (guardedWrite, renew, release).                                           *)
THEOREM Fencing == Spec => []WritesFenced
BY Invariance, PTL DEF Inv

LEMMA TakeoverStep ==
    ASSUME Inv, [Next]_vars, deletes = 0, lease.owner # Nobody,
           lease'.owner \notin {Nobody, lease.owner}
    PROVE  (~lease.fresh \/ lease.owner \notin alive) /\ lease'.gen > lease.gen
<1>1. PICK t \in Thread : Write(t)
  <2>1. lease' # lease /\ lease'.owner # lease.owner /\ lease'.owner # Nobody
    OBVIOUS
  <2>2. ~Expire
    BY <2>1 DEF Expire, Inv, TypeOK, Lease
  <2>3. ASSUME NEW s \in Server PROVE ~Delete(s)
    BY <2>1 DEF Delete, NoLease
  <2>4. ASSUME NEW s \in Server
        PROVE  ~(StartClaim(s) \/ StartSave(s) \/ StartRenew(s) \/ StartRelease(s)
                 \/ Crash(s))
    BY <2>1 DEF StartClaim, StartSave, StartRenew, StartRelease, Crash
  <2>5. ASSUME NEW t \in Thread
        PROVE  ~(Enter(t) \/ GiveUp(t) \/ CheckClaim(t) \/ CheckOwner(t) \/ Leave(t))
    BY <2>1 DEF Enter, GiveUp, CheckClaim, CheckOwner, Leave
  <2>6. ~UNCHANGED vars
    BY <2>1 DEF vars
  <2> QED
    BY <2>2, <2>3, <2>4, <2>5, <2>6 DEF Next, Step
<1>2. job[t].at = "write" /\ job[t].op # "none" /\ job[t].op \in
          {"none", "claim", "renew", "save", "release"}
  BY <1>1 DEF Write, Inv, Busy, TypeOK, Job
<1>3. job[t].op = "claim"
  BY <1>1, <1>2 DEF Write, Inv, WritesFenced, Owns, NoLease
<1>4. /\ ~Held(t[1]) /\ job[t].gen = NextGeneration(t[1])
      /\ lease'.owner = t[1] /\ lease'.gen = job[t].gen
  BY <1>1, <1>2, <1>3 DEF Write, Inv, ClaimsDecided
<1> QED
  BY <1>4 DEF Held, SeenDead, NextGeneration, Inv, TypeOK, Lease

(* A live owner loses its lease only if it let it expire, and to a higher    *)
(* generation (claim).                                                       *)
THEOREM TakeoverSafe == Spec => TakeoverIsJustified
<1>1. Inv /\ [Next]_vars =>
        [deletes = 0 /\ lease.owner # Nobody /\ lease'.owner \notin {Nobody, lease.owner}
            => /\ ~lease.fresh \/ lease.owner \notin alive
               /\ lease'.gen > lease.gen]_vars
  BY TakeoverStep
<1> QED
  BY <1>1, Invariance, PTL DEF Spec, TakeoverIsJustified
================================================================================
