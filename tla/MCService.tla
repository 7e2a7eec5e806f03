----------------------------- MODULE MCService -----------------------------
(* Two requests with an API key that has one of three settings, two rounds *)
(* on a channel with two keys, two calls of the panel, two updates, two    *)
(* models whose use is counted.                                            *)
EXTENDS Service

CONSTANTS r1, r2, a1, a2, c1, c2, k1, k2, m1, m2

MCClients == {r1, r2}
MCRounds == {a1, a2}
MCCalls == {c1, c2}
MCKeys == <<k1, k2>>

\* A key with both limits, one with others that expires, one without limits, one disabled.
MCSettings ==
    {[enabled |-> TRUE, expireAt |-> 0, slots |-> 1, rpm |-> 2],
     [enabled |-> TRUE, expireAt |-> 1, slots |-> 2, rpm |-> 1],
     [enabled |-> TRUE, expireAt |-> 0, slots |-> 0, rpm |-> 0],
     [enabled |-> FALSE, expireAt |-> 0, slots |-> 0, rpm |-> 0]}

MCReports == {[input |-> 1, output |-> 2], [input |-> -1, output |-> 1], [input |-> 0, output |-> 0]}

\* Hours at which a row of the first is the last one inside, or the first one outside, of a
\* window; all fall in the middle of a day.
MCHours == {100000 + age : age \in {0, 23, 24, 720, 8759, 26279}}

MCModels == {m1, m2}

Symmetric ==
    {[x \in MCClients \cup MCRounds \cup MCCalls |->
        IF x \in MCClients THEN p[x] ELSE IF x \in MCRounds THEN q[x] ELSE s[x]] :
        p \in Permutations(MCClients), q \in Permutations(MCRounds), s \in Permutations(MCCalls)}
=============================================================================
