----------------------------- MODULE RateWindow -----------------------------
(***************************************************************************)
(* The sliding window that both rate limits keep, per API key (keylimit)   *)
(* and per key of a channel (relay/channellimit.go): the times of the last *)
(* permits in the order in which they were recorded.  The time of a permit *)
(* is read before the lock is taken, so that the order need not be that of *)
(* the times.                                                              *)
(***************************************************************************)
EXTENDS Integers, Sequences, SequencesExt, FiniteSets

CONSTANTS
    Window,     \* rpmWindow, in ticks of the clock
    MaxLag      \* bound: how many ticks a caller waits between reading the clock and the lock

ASSUME WindowAssumption == Window \in Nat /\ MaxLag \in Nat /\ MaxLag < Window

\* Entries are dropped from the front until one is still inside the window.
InWindow(times, now) ==
    LET kept == SelectInSeq(times, LAMBDA t : t > now - Window)
    IN  IF kept = 0 THEN <<>> ELSE SubSeq(times, kept, Len(times))

\* When as many permits as are too many have left the window.
AdmitAt(times, rpm) == times[Len(times) - rpm + 1] + Window

\* Mutated: one permit more than the limit.
PermitOneMore(times, now, rpm) ==
    LET kept == InWindow(times, now)
    IN  IF Len(kept) > rpm
        THEN [given |-> FALSE, times |-> kept, at |-> AdmitAt(kept, rpm)]
        ELSE [given |-> TRUE, times |-> Append(kept, now), at |-> now]

\* A permit asked for at "now" under a limit "rpm": whether it is given, and what is on
\* record afterwards.
Permit(times, now, rpm) ==
    LET kept == InWindow(times, now)
    IN  IF Len(kept) >= rpm
        THEN [given |-> FALSE, times |-> kept, at |-> AdmitAt(kept, rpm)]
        ELSE [given |-> TRUE, times |-> Append(kept, now), at |-> now]

\* How many of the permits given at the real times "given" fall into the ticks before "now"
\* for which the limit can be relied upon: the window less what the callers may lag behind.
Recent(given, now) == Cardinality({i \in DOMAIN given : given[i] > now - (Window - MaxLag)})
=============================================================================
