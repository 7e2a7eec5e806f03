------------------------------- MODULE Service -------------------------------
(***************************************************************************)
(* Five parts of the process next to the forwarding of requests that share *)
(* no state with each other: the limits of an API key, the keys of a       *)
(* channel, the administrator's account, the update of the executable and  *)
(* the statistics of usage.  A behaviour is one of one of them, the others *)
(* staying as they are.  What a part promises is about its own variables   *)
(* only, so that a behaviour of all five at once keeps it if each of its   *)
(* parts does.                                                             *)
(***************************************************************************)
EXTENDS KeyLimits, KeyChoice, Account, SelfUpdate, UsageBuckets

VARIABLE part   \* the part this behaviour is about

Parts == {"limits", "keys", "account", "update", "usage"}

vars == <<part, klVars, kcVars, acVars, suVars, ubVars>>

\* What a part leaves open at first is left open in its own behaviours only.
Init ==
    /\ part \in Parts
    /\ KlInit
    /\ KcInit
    /\ AcInit
    /\ SuInit
    /\ UbInit
    /\ part # "limits" => klKey = CHOOSE setting \in Settings : TRUE
    /\ part # "update" => suUnfit = {}

LimitsStep ==
    /\ part = "limits"
    /\ KlNext
    /\ UNCHANGED <<part, kcVars, acVars, suVars, ubVars>>

KeysStep ==
    /\ part = "keys"
    /\ KcNext
    /\ UNCHANGED <<part, klVars, acVars, suVars, ubVars>>

AccountStep ==
    /\ part = "account"
    /\ AcNext
    /\ UNCHANGED <<part, klVars, kcVars, suVars, ubVars>>

UpdateStep ==
    /\ part = "update"
    /\ SuNext
    /\ UNCHANGED <<part, klVars, kcVars, acVars, ubVars>>

UsageStep ==
    /\ part = "usage"
    /\ UbNext
    /\ UNCHANGED <<part, klVars, kcVars, acVars, suVars>>

Next == LimitsStep \/ KeysStep \/ AccountStep \/ UpdateStep \/ UsageStep

Spec == Init /\ [][Next]_vars

\* Whoever takes a slot, of an API key or of a channel, gives it back exactly once, on every
\* way out but one (keylimit.go:77 and upstream.go:30, :66): a request that panics between
\* taking the slot of a channel and attaching its answer keeps it (handler.go:145).
SlotsReturned == KlSlotsReturned /\ KcSlotsReturned

\* Neither rate limit lets through more than it says, although the time of a permit is read
\* before the lock is taken (keylimit.go:109, channellimit.go:161), and what removes expired
\* cooldowns never removes one in force (keyselect.go:67).
LimitsHold == KlRateHolds /\ KcRateHolds /\ CooldownsKept

\* A verified version can always be started or put back, and only an unverified one gives way
\* to it (update/core.go:163, :246): until an update begins on a version that is not verified
\* yet, which replaces the copy of the last verified one.
UpdateSafe == []VersionKept /\ RollBackJustified

\* Whatever was recorded, expired and cleaned up, the figures, the trend and the map of the
\* panel are of the same rows (usage_bucket.go:108, :124, :386).
UsageKept == [](part = "usage" => UsageAddsUp) /\ CleaningUnseen
=============================================================================
