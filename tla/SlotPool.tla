------------------------------ MODULE SlotPool ------------------------------
(***************************************************************************)
(* What a limit on concurrency promises, whatever keeps it: each pool has  *)
(* the set of those who hold one of its slots; one who holds none asks     *)
(* under a limit, takes a slot of a pool with fewer holders than that, and *)
(* gives it back once.                                                     *)
(***************************************************************************)
EXTENDS Integers, FiniteSets

CONSTANTS
    Takers,     \* those who take slots
    Pools,      \* the pools
    Asked       \* the limits they may ask under

VARIABLES
    held,       \* per pool its holders
    asked       \* per user the limit it asks under

Holding(u) == \E p \in Pools : u \in held[p]

Init ==
    /\ held = [p \in Pools |-> {}]
    /\ asked \in [Takers -> Asked]

Ask(u, n) ==
    /\ ~Holding(u)
    /\ asked' = [asked EXCEPT ![u] = n]
    /\ UNCHANGED held

Take(u, p) ==
    /\ ~Holding(u)
    /\ Cardinality(held[p]) < asked[u]
    /\ held' = [held EXCEPT ![p] = @ \cup {u}]
    /\ UNCHANGED asked

Give(u, p) ==
    /\ u \in held[p]
    /\ held' = [held EXCEPT ![p] = @ \ {u}]
    /\ UNCHANGED asked

Next ==
    \E u \in Takers :
        \/ \E n \in Asked : Ask(u, n)
        \/ \E p \in Pools : Take(u, p) \/ Give(u, p)

Spec == Init /\ [][Next]_<<held, asked>>
=============================================================================
