----------------------------- MODULE RouteState -----------------------------
(***************************************************************************)
(* The routing record of one failover group (internal/relay/route.go) and  *)
(* the transformations every code path applies to it while it holds        *)
(* routeMu: the circuit breaker of the members, the candidate that awaits  *)
(* its business confirmation, the affinity of the current member and the   *)
(* emergency slots.  Each operator maps a record to the record the Go      *)
(* function leaves behind, so that a state machine may use it on one group *)
(* or on a family of groups.                                               *)
(*                                                                         *)
(* Time is abstract.  A deadline is only ever compared with now, so a      *)
(* cooldown is absent ("none"), in the future ("cooling") or in the past   *)
(* ("expired"); affinity and the emergency block are in force or not.      *)
(* Levels saturate at MaxLevel: they only lengthen the next cooldown.      *)
(***************************************************************************)
EXTENDS Integers, FiniteSets

CONSTANTS
    Items,                  \* the members of the group
    NoItem,                 \* the zero GroupItem
    EmergencyItem,          \* RelayConfig.EmergencyItemID, or NoItem
    EmergencyMaxConcurrent, \* emergencyMaxConcurrent
    MaxAttempts,            \* max(MemberMaxAttempts, 1)
    AffinityOn,             \* MemberAffinitySeconds > 0
    MaxLevel                \* bound: levels saturate here

ASSUME NoItemAssumption == NoItem \notin Items
ASSUME EmergencyAssumption ==
    /\ EmergencyItem \in Items \cup {NoItem}
    /\ EmergencyMaxConcurrent \in Nat \ {0}
ASSUME LimitAssumption ==
    /\ MaxAttempts \in Nat \ {0}
    /\ MaxLevel \in Nat \ {0}
    /\ AffinityOn \in BOOLEAN

Cooldown == {"none", "cooling", "expired"}

\* The members EmergencyItemID and EmergencyActive of the Go struct are
\* derived: only the configured member is ever lent, so one count suffices.
Route == [current          : Items \cup {NoItem},
          probe            : Items \cup {NoItem},
          affinity         : BOOLEAN,
          armed            : BOOLEAN,
          cooldowns        : [Items -> Cooldown],
          levels           : [Items -> 0 .. MaxLevel],
          halfOpens        : SUBSET Items,
          strikes          : [Items -> 0 .. MaxAttempts - 1],
          emergencyCount   : 0 .. EmergencyMaxConcurrent,
          emergencyBlocked : BOOLEAN]

NewRoute == [current          |-> NoItem,
             probe            |-> NoItem,
             affinity         |-> FALSE,
             armed            |-> FALSE,
             cooldowns        |-> [i \in Items |-> "none"],
             levels           |-> [i \in Items |-> 0],
             halfOpens        |-> {},
             strikes          |-> [i \in Items |-> 0],
             emergencyCount   |-> 0,
             emergencyBlocked |-> FALSE]

-----------------------------------------------------------------------------
(* The probe claim and its two conclusions (prober.go).                    *)

CanClaim(rt, i) ==
    /\ rt.probe = NoItem
    /\ rt.cooldowns[i] = "expired"
    /\ i \notin rt.halfOpens

Claim(rt, S) == [rt EXCEPT !.halfOpens = @ \cup S]

NextLevel(l) == IF l < MaxLevel THEN l + 1 ELSE MaxLevel

\* Mutated: the level is forgotten, the cooldown stays.
RestoreLevelOnly(rt, i) == [rt EXCEPT !.levels[i] = 0, !.halfOpens = @ \ {i}]

RestoreItem(rt, i) ==
    [rt EXCEPT !.cooldowns[i] = "none", !.levels[i] = 0, !.halfOpens = @ \ {i}]

\* Mutated: the claims of the failed members stay.
ReopenKeepsClaims(rt, S) ==
    [rt EXCEPT !.cooldowns = [i \in Items |-> IF i \in S THEN "cooling" ELSE @[i]]]

ReopenItems(rt, S) ==
    [rt EXCEPT
        !.levels    = [i \in Items |-> IF i \in S THEN NextLevel(@[i]) ELSE @[i]],
        !.cooldowns = [i \in Items |-> IF i \in S THEN "cooling" ELSE @[i]],
        !.halfOpens = @ \ S]

\* Mutated: the claims of the members that lost the race stay.
NominateKeepsClaims(rt, S, winner) == [rt EXCEPT !.probe = winner]

\* recoverExpiredItems names its winner the candidate and drops the claims
\* of the members whose probes were cancelled.
Nominate(rt, S, winner) ==
    [rt EXCEPT !.halfOpens = @ \ (S \ {winner}), !.probe = winner]

-----------------------------------------------------------------------------
(* Emergency slots (route.go).                                             *)

EmergencyHeld(rt, i) == i = EmergencyItem /\ rt.emergencyCount > 0

CanClaimEmergency(rt, exclude, enabled) ==
    /\ EmergencyItem \in enabled
    /\ EmergencyItem # exclude
    /\ rt.emergencyCount < EmergencyMaxConcurrent
    /\ EmergencyItem \notin rt.halfOpens
    /\ ~rt.emergencyBlocked

ClaimEmergency(rt) == [rt EXCEPT !.emergencyCount = @ + 1]

ReleaseEmergency(rt, i) ==
    IF EmergencyHeld(rt, i) THEN [rt EXCEPT !.emergencyCount = @ - 1] ELSE rt

-----------------------------------------------------------------------------
(* Selection: the candidates of one scan over the members (pickGroupItem). *)

\* Affinity keeps the current member unless the request has given it up.
AffineItem(rt, exclude, enabled) ==
    IF rt.affinity /\ rt.current # exclude /\ rt.current \in enabled
    THEN rt.current ELSE NoItem

ClosedItems(rt, exclude, enabled) ==
    {i \in enabled \ {exclude} : rt.cooldowns[i] = "none"}

ExpiredItems(rt, exclude, enabled) ==
    {i \in enabled \ {exclude} :
        rt.cooldowns[i] = "expired" /\ i \notin rt.halfOpens}

\* rank is the scan order of the request: the priority of the members, with
\* those of the client's protocol first under PreferPassthrough.
FirstOf(S, rank) == {i \in S : \A j \in S : rank[i] <= rank[j]}

Before(S, i, rank) == {j \in S : rank[j] < rank[i]}

AllMembersInCooldown(rt, enabled) ==
    /\ enabled # {}
    /\ \A i \in enabled : rt.cooldowns[i] = "cooling"

-----------------------------------------------------------------------------
(* Reports of the requests on the member they used.                        *)

InRecovery(rt, i) == rt.probe = i \/ i \in rt.halfOpens

\* A business success confirms a member in recovery.
Confirm(rt, i) ==
    IF ~InRecovery(rt, i) THEN rt
    ELSE LET restored == RestoreItem(rt, i)
             moves == rt.current = NoItem \/ ~rt.affinity
         IN  [restored EXCEPT
                !.probe = NoItem,
                !.emergencyBlocked = @ /\ i # EmergencyItem,
                !.current = IF moves THEN i ELSE @,
                !.affinity = @ /\ ~moves]

StartAffinity(rt, i) ==
    IF rt.current = i /\ rt.armed
    THEN [rt EXCEPT !.armed = FALSE, !.affinity = @ \/ AffinityOn] ELSE rt

RecordSuccess(rt, i) ==
    LET confirmed == Confirm([rt EXCEPT !.strikes[i] = 0], i)
    IN  IF EmergencyHeld(rt, i) THEN ReleaseEmergency(confirmed, i)
        ELSE StartAffinity(confirmed, i)

\* Mutated: the affinity outlives its member.
LeaveCurrentAffine(rt, i) ==
    IF rt.current = i THEN [rt EXCEPT !.current = NoItem, !.armed = TRUE] ELSE rt

\* Giving up the current member ends its affinity and arms the next one.
LeaveCurrent(rt, i) ==
    IF rt.current = i
    THEN [rt EXCEPT !.current = NoItem, !.affinity = FALSE, !.armed = TRUE]
    ELSE rt

\* reached: the failure count has met the threshold of its error type.
RecordFailure(rt, i, reached) ==
    LET rejected == [rt EXCEPT
            !.halfOpens = @ \ {i},
            !.probe = NoItem,
            !.levels[i] = IF reached THEN NextLevel(@) ELSE @,
            !.cooldowns[i] = IF reached THEN "cooling" ELSE "none"]
        tripped == [rt EXCEPT
            !.cooldowns[i] = "cooling",
            !.emergencyBlocked = @ \/ EmergencyHeld(rt, i)]
        settled == IF InRecovery(rt, i) THEN LeaveCurrent(rejected, i)
                   ELSE IF reached THEN LeaveCurrent(tripped, i)
                   ELSE rt
    IN  ReleaseEmergency(settled, i)

\* Whether the request must choose another member at once.
MustReselect(rt, i, reached) == InRecovery(rt, i) \/ reached

\* A failure found after the response was committed to the client.
RecordPostCommitFailure(rt, i) ==
    IF rt.cooldowns[i] # "none" THEN rt
    ELSE IF rt.strikes[i] + 1 < MaxAttempts
         THEN [rt EXCEPT !.strikes[i] = @ + 1]
         ELSE [rt EXCEPT !.strikes[i] = 0, !.cooldowns[i] = "cooling"]

\* Mutated: the candidate is not given up.
ReleaseHoldKeepsCandidate(rt, i) == [rt EXCEPT !.halfOpens = @ \ {i}]

ReleaseHold(rt, i) ==
    [rt EXCEPT !.halfOpens = @ \ {i},
               !.probe = IF @ = i THEN NoItem ELSE @]

\* Mutated: only the emergency slot is returned.
ReleaseSlotOnly(rt, i) == ReleaseEmergency(rt, i)

\* An attempt that ends with no conclusion about its member.
ReleaseProbe(rt, i) ==
    IF InRecovery(rt, i) THEN ReleaseHold(rt, i) ELSE ReleaseEmergency(rt, i)

ResetCooldown(rt) ==
    [rt EXCEPT !.cooldowns = [i \in Items |-> "none"],
               !.levels    = [i \in Items |-> 0],
               !.strikes   = [i \in Items |-> 0],
               !.emergencyBlocked = FALSE]
=============================================================================
