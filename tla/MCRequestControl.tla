-------------------------- MODULE MCRequestControl --------------------------
(* Small instances of RequestControl for TLC. *)
EXTENDS RequestControl, TLC

CONSTANTS r1, r2, a1, a2

MCRequests == {r1, r2}
OneRequest == {r1}
TwoAdmins == {a1, a2}
OneAdmin == {a1}
Streams == {r1}
NoStreams == {}
SameRequests == Permutations(MCRequests)
StopOrInterrupt == {"stop", "interrupt"}
History == {"stopAll", "clear"}
=============================================================================
