---------------------------- MODULE MCGroupRoute ----------------------------
(* Small instances of GroupRoute for TLC. *)
EXTENDS GroupRoute

CONSTANTS m1, m2, r1, r2

MCItems == {m1, m2}
MCRequests == {r1, r2}

\* Both requests prefer m1, or r2 puts m2 first (PreferPassthrough).
SameOrder == [r \in Requests |-> [i \in Items |-> IF i = m1 THEN 1 ELSE 2]]
ClientOrder ==
    [r \in Requests |-> [i \in Items |-> IF (i = m1) = (r = r1) THEN 1 ELSE 2]]

OneAttempt == [k \in ErrorKinds |-> 1]
InfraFirst == [k \in ErrorKinds |-> IF k = "infra" THEN 1 ELSE 2]
=============================================================================
