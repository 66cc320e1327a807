------------------------------- MODULE WorkQueue -------------------------------
(***************************************************************************)
(* What the store of the relay promises of each of its queues, whatever    *)
(* the claims, retries, crashes, sweeps and repairs: rows join at the end, *)
(* only the first row that is not resolved is ever worked on or repaired,  *)
(* and a row that is resolved stays so.                                    *)
(***************************************************************************)
EXTENDS Naturals, Sequences

CONSTANT Name

VARIABLE queue    \* by name, how each of its rows stands, in order

First(q, n) == \A k \in 1..(n - 1) : q[k] = "resolved"

(* A claim ends with a retry, in need of an operator, or for good.           *)
MayBecome(standing) ==
    CASE standing = "open"     -> {"claimed"}
      [] standing = "claimed"  -> {"open", "blocked", "resolved"}
      [] standing = "blocked"  -> {"open", "resolved"}
      [] standing = "resolved" -> {}

(* What one transaction of the store may do to a queue.                      *)
Step(q, r) ==
    /\ Len(r) \in Len(q)..(Len(q) + 1)
    /\ \A n \in DOMAIN q : r[n] # q[n] => First(q, n) /\ r[n] \in MayBecome(q[n])
    /\ \A n \in DOMAIN r \ DOMAIN q : r[n] = "open"

Init == queue = [k \in Name |-> <<>>]

(* A sweep is one transaction on all the queues.                             *)
Next ==
    /\ DOMAIN queue' = Name
    /\ \A k \in Name : Step(queue[k], queue'[k])

Spec == Init /\ [][Next]_queue
================================================================================
