--------------------------- MODULE ConversationLease ---------------------------
(***************************************************************************)
(* The lease by which one of several agent servers owns a stored           *)
(* conversation (conversationLease.ts, and its use in                      *)
(* conversationService.ts).  The lease is a file; every operation on it    *)
(* holds a lock, which is a file too and does not say whose it is.  A      *)
(* server does one thing at a time with a conversation, beside the timer   *)
(* that renews its lease.                                                  *)
(***************************************************************************)
EXTENDS Naturals, FiniteSets

CONSTANTS
    Server,      \* processes: one that restarts is another
    Remote,      \* the servers on a host of their own
    Nobody,      \* the owner of a lease that does not exist
    MaxStalls,   \* bound on leases that a live owner lets expire
    MaxCrashes,  \* bound on crashes
    MaxDeletes   \* bound on deletions of the conversation

ASSUME LeaseAssumption ==
    /\ Nobody \notin Server /\ Remote \subseteq Server
    /\ MaxStalls \in Nat /\ MaxCrashes \in Nat /\ MaxDeletes \in Nat

VARIABLES
    alive,     \* servers that run
    claimed,   \* the generation that a server believes it holds, 0 for none
    lease,     \* owner_lease.json
    lock,      \* whether .owner_lease.lock exists
    job,       \* what each thread of each server does with the lease
    stalls, crashes, deletes

counts == <<stalls, crashes, deletes>>
vars == <<alive, claimed, lease, lock, job, counts>>

Thread == Server \X {"main", "timer"}

Lease == [owner : Server \cup {Nobody}, gen : Nat, fresh : BOOLEAN]

NoLease == [owner |-> Nobody, gen |-> 0, fresh |-> FALSE]

(* at: waiting for the lock, then inside it: before the payload is read,     *)
(* before the write that it permits, before the lock is removed.             *)
Job == [op : {"none", "claim", "renew", "save", "release"},
        at : {"rest", "lock", "check", "write", "leave"}, gen : Nat]

Rest == [op |-> "none", at |-> "rest", gen |-> 0]

TypeOK ==
    /\ alive \subseteq Server
    /\ claimed \in [Server -> Nat]
    /\ lease \in Lease
    /\ lock \in BOOLEAN
    /\ job \in [Thread -> Job]
    /\ stalls \in Nat /\ crashes \in Nat /\ deletes \in Nat

Inside(t) == job[t].at \in {"check", "write", "leave"}

Goto(t, at) == job' = [job EXCEPT ![t].at = at]
-------------------------------------------------------------------------------
(* What a server begins. *)

Begin(t, op, gen) ==
    /\ t[1] \in alive /\ job[t] = Rest
    /\ job' = [job EXCEPT ![t] = [op |-> op, at |-> "lock", gen |-> gen]]

(* claimLease: a server that believes it has the conversation does not claim. *)
StartClaim(s) ==
    /\ claimed[s] = 0
    /\ Begin(<<s, "main">>, "claim", 0)
    /\ UNCHANGED <<alive, claimed, lease, lock, counts>>

StartSave(s) ==
    /\ claimed[s] # 0
    /\ Begin(<<s, "main">>, "save", claimed[s])
    /\ UNCHANGED <<alive, claimed, lease, lock, counts>>

(* The timer.  It does not ask whether its last renewal has come to an end,  *)
(* but two at a time do no more than one.                                    *)
StartRenew(s) ==
    /\ claimed[s] # 0
    /\ Begin(<<s, "timer">>, "renew", claimed[s])
    /\ UNCHANGED <<alive, claimed, lease, lock, counts>>

StartRelease(s) ==
    /\ claimed[s] # 0
    /\ Begin(<<s, "main">>, "release", claimed[s])
    /\ claimed' = [claimed EXCEPT ![s] = 0]
    /\ UNCHANGED <<alive, lease, lock, counts>>

(* deleteConversation removes the directory, lease and lock with it, whoever *)
(* holds them, and then releases.                                            *)
Delete(s) ==
    /\ claimed[s] # 0 /\ deletes < MaxDeletes
    /\ Begin(<<s, "main">>, "release", claimed[s])
    /\ claimed' = [claimed EXCEPT ![s] = 0]
    /\ lease' = NoLease /\ lock' = FALSE
    /\ deletes' = deletes + 1
    /\ UNCHANGED <<alive, stalls, crashes>>
-------------------------------------------------------------------------------
(* The lock (acquireLock, withLock). *)

MayEnter(t) == job[t].at = "lock" /\ ~lock

Enter(t) ==
    /\ MayEnter(t)
    /\ lock' = TRUE
    /\ Goto(t, "check")
    /\ UNCHANGED <<alive, claimed, lease, counts>>

LockCleared == FALSE        \* wrong: `finally' covers the acquisition as well

LockAfterFailure == lock

(* The deadline.  It ends the operation with an error. *)
GiveUp(t) ==
    /\ job[t].at = "lock" /\ lock
    /\ lock' = LockAfterFailure
    /\ job' = [job EXCEPT ![t] = Rest]
    /\ UNCHANGED <<alive, claimed, lease, counts>>

Leave(t) ==
    /\ job[t].at = "leave"
    /\ lock' = FALSE
    /\ job' = [job EXCEPT ![t] = Rest]
    /\ claimed' = [claimed EXCEPT ![t[1]] =
                     IF job[t].op = "claim" THEN job[t].gen ELSE @]
    /\ UNCHANGED <<alive, lease, counts>>
-------------------------------------------------------------------------------
(* Inside the lock. *)

SameHost(s, u) == s = u \/ {s, u} \cap Remote = {}

(* ownerIsDead: only a process of the same host can be asked for. *)
SeenDead(s, u) == SameHost(s, u) /\ u \notin alive

Owns(s, gen) == lease.owner = s /\ lease.gen = gen

HeldUnlessDead(s) ==        \* wrong: nobody looks at the time
    lease.owner \notin {Nobody, s} /\ ~SeenDead(s, lease.owner)

Held(s) ==
    lease.owner \notin {Nobody, s} /\ lease.fresh /\ ~SeenDead(s, lease.owner)

NextGeneration(s) == IF lease.owner = s THEN lease.gen ELSE lease.gen + 1

CheckClaim(t) ==
    /\ job[t].at = "check" /\ job[t].op = "claim"
    /\ IF Held(t[1]) THEN Goto(t, "leave")
       ELSE job' = [job EXCEPT ![t].at = "write", ![t].gen = NextGeneration(t[1])]
    /\ UNCHANGED <<alive, claimed, lease, lock, counts>>

CheckOwner(t) ==
    /\ job[t].at = "check" /\ job[t].op # "claim"
    /\ Goto(t, IF Owns(t[1], job[t].gen) THEN "write" ELSE "leave")
    /\ UNCHANGED <<alive, claimed, lease, lock, counts>>

Write(t) ==
    /\ job[t].at = "write"
    /\ lease' = CASE job[t].op \in {"claim", "renew"} ->
                       [owner |-> t[1], gen |-> job[t].gen, fresh |-> TRUE]
                  [] job[t].op = "save" -> lease
                  [] job[t].op = "release" -> NoLease
    /\ Goto(t, "leave")
    /\ UNCHANGED <<alive, claimed, lock, counts>>
-------------------------------------------------------------------------------
(* Time and failure. *)

(* A live owner lets its lease expire when it is stalled for long enough.    *)
Expire ==
    /\ lease.fresh
    /\ IF lease.owner \in alive
       THEN stalls < MaxStalls /\ stalls' = stalls + 1 ELSE UNCHANGED stalls
    /\ lease' = [lease EXCEPT !.fresh = FALSE]
    /\ UNCHANGED <<alive, claimed, lock, job, crashes, deletes>>

(* A lock that the server holds stays behind. *)
Crash(s) ==
    /\ s \in alive /\ crashes < MaxCrashes
    /\ crashes' = crashes + 1
    /\ alive' = alive \ {s}
    /\ claimed' = [claimed EXCEPT ![s] = 0]
    /\ job' = [t \in Thread |-> IF t[1] = s THEN Rest ELSE job[t]]
    /\ UNCHANGED <<lease, lock, stalls, deletes>>
-------------------------------------------------------------------------------
Init ==
    /\ alive = Server
    /\ claimed = [s \in Server |-> 0]
    /\ lease = NoLease /\ lock = FALSE
    /\ job = [t \in Thread |-> Rest]
    /\ stalls = 0 /\ crashes = 0 /\ deletes = 0

Step(t) == Enter(t) \/ GiveUp(t) \/ CheckClaim(t) \/ CheckOwner(t) \/ Write(t) \/ Leave(t)

Next ==
    \/ \E t \in Thread : Step(t)
    \/ \E s \in Server :
          StartClaim(s) \/ StartSave(s) \/ StartRenew(s) \/ StartRelease(s)
          \/ Delete(s) \/ Crash(s)
    \/ Expire

Spec == Init /\ [][Next]_vars

(* What is inside the lock gets out, nobody waits for ever while the lock is *)
(* free again and again, a server without the conversation is asked for it   *)
(* again (the relay repeats its call), and time passes.                      *)
Fairness ==
    /\ \A t \in Thread :
          WF_vars(CheckClaim(t) \/ CheckOwner(t) \/ Write(t) \/ Leave(t)) /\ SF_vars(Enter(t))
    /\ \A s \in Server : SF_vars(StartClaim(s))
    /\ WF_vars(Expire)

FairSpec == Spec /\ Fairness
-------------------------------------------------------------------------------
(* The lock admits one thread at a time, though its file names no holder and *)
(* whoever leaves removes it (withLock) - until a deletion removes it.       *)
OneInside ==
    deletes = 0 => \A t, u \in Thread : Inside(t) /\ Inside(u) => t = u

(* What a guarded write was permitted by is still so when it happens: the    *)
(* lease may expire and others may want it in between, but none takes it     *)
(* over (guardedWrite, renew, release).                                      *)
WritesFenced ==
    deletes = 0 =>
        \A t \in Thread :
            job[t].at = "write" /\ job[t].op # "claim" => Owns(t[1], job[t].gen)

(* A live owner loses its lease to another only if it let it expire, and the *)
(* successor's tenure has a higher number: a renewal cannot come between the *)
(* look at the lease and the takeover, nor can a late one undo it.           *)
TakeoverIsJustified ==
    [][deletes = 0 /\ lease.owner # Nobody /\ lease'.owner \notin {Nobody, lease.owner}
        => /\ ~lease.fresh \/ lease.owner \notin alive
           /\ lease'.gen > lease.gen]_vars

(* The conversation of a server that died goes to another that wants it,     *)
(* unless the crash left the lock behind, which nothing removes.             *)
DeadOwnerReplaced ==
    \A s \in Server :
        lease.owner = s /\ s \notin alive ~>
            \/ lease.owner # s
            \/ lock /\ \A t \in Thread : ~Inside(t)
            \/ \A u \in alive : claimed[u] # 0
================================================================================
