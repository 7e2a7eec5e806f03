----------------------------- MODULE MCWriters -----------------------------
EXTENDS Writers

CONSTANTS h1, h2, h3, a1, a2

ThreeRequests == {h1, h2, h3}
TwoAddresses == {a1, a2}
\* An address that was evicted and comes back takes three calls, the rest takes two.
Calls == [w \in {"errors", "conversations", "stats"} |->
             IF w = "stats" THEN ThreeRequests ELSE {h1, h2}]
\* The client that calls first calls again after the other.
Clients == [h \in ThreeRequests |-> IF h = h2 THEN a2 ELSE a1]
=============================================================================
