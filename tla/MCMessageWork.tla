---------------------------- MODULE MCMessageWork ----------------------------
(* Instances of MessageWork for TLC. *)
EXTENDS MessageWork, TLC

CONSTANTS BaseBackoff, CapBackoff

(* RetryPolicy.backoffMs without jitter. *)
BackoffTable ==
    [a \in 1..MaxAttempts |-> Min({CapBackoff, BaseBackoff * 2 ^ (a - 1)})]

Symmetry ==
    Permutations(Lane) \cup Permutations(IntakeKey) \cup Permutations(EventKey)
================================================================================
