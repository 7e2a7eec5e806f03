--------------------------- MODULE MCChannelLimit ---------------------------
(* Small instances of ChannelLimit for TLC. *)
EXTENDS ChannelLimit

CONSTANTS a1, a2, a3, o1, o2, o3

MCAttempts == {a1, a2, a3}
TwoObjects == {o1, o2}
MCObjects == {o1, o2, o3}
AllLimits == {0, 1, 2}
=============================================================================
