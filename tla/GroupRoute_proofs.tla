-------------------------- MODULE GroupRoute_proofs --------------------------
(***************************************************************************)
(* GroupRoute keeps its type, neither the candidate of the group nor a     *)
(* member in HALF_OPEN is ever without an owner, affinity has a member and *)
(* a level falls only with its cooldown, for any set of members and of     *)
(* requests, any thresholds and any number of rounds.                      *)
(***************************************************************************)
EXTENDS GroupRoute, TLAPS

-----------------------------------------------------------------------------
(* The routing record: what its transformations do to its type, to the     *)
(* members in HALF_OPEN and to the candidate.                              *)

\* The new group's record is a routing record.
LEMMA NewRouteType == NewRoute \in Route
  BY NoItemAssumption, EmergencyAssumption, LimitAssumption
  DEF NewRoute, Route, Cooldown

\* A claim keeps the type.
LEMMA ClaimType ==
  ASSUME NEW rt \in Route, NEW S \in SUBSET Items
  PROVE  Claim(rt, S) \in Route
  BY DEF Claim, Route

\* Levels saturate at their bound.
LEMMA NextLevelType ==
  ASSUME NEW l \in 0 .. MaxLevel
  PROVE  NextLevel(l) \in 0 .. MaxLevel
  BY LimitAssumption DEF NextLevel

\* Restoring a member keeps the type.
LEMMA RestoreType ==
  ASSUME NEW rt \in Route, NEW i \in Items
  PROVE  RestoreItem(rt, i) \in Route
<1>1. [rt.cooldowns EXCEPT ![i] = "none"] \in [Items -> Cooldown]
  BY DEF Route, Cooldown
<1>2. [rt.levels EXCEPT ![i] = 0] \in [Items -> 0 .. MaxLevel]
  BY LimitAssumption DEF Route
<1> QED BY <1>1, <1>2 DEF RestoreItem, Route

\* Reopening members keeps the type.
LEMMA ReopenType ==
  ASSUME NEW rt \in Route, NEW S \in SUBSET Items
  PROVE  ReopenItems(rt, S) \in Route
  BY NextLevelType DEF ReopenItems, Route, Cooldown

\* Naming a candidate keeps the type.
LEMMA NominateType ==
  ASSUME NEW rt \in Route, NEW S \in SUBSET Items, NEW i \in Items
  PROVE  Nominate(rt, S, i) \in Route
  BY DEF Nominate, Route

\* Returning an emergency slot keeps the type.
LEMMA ReleaseEmergencyType ==
  ASSUME NEW rt \in Route, NEW i \in Items
  PROVE  ReleaseEmergency(rt, i) \in Route
  BY EmergencyAssumption DEF ReleaseEmergency, EmergencyHeld, Route

\* Taking an emergency slot below the bound keeps the type.
LEMMA ClaimEmergencyType ==
  ASSUME NEW rt \in Route, rt.emergencyCount < EmergencyMaxConcurrent
  PROVE  ClaimEmergency(rt) \in Route
  BY EmergencyAssumption DEF ClaimEmergency, Route

\* Clearing the cooldowns keeps the type.
LEMMA ResetType ==
  ASSUME NEW rt \in Route
  PROVE  ResetCooldown(rt) \in Route
<1>1. [i \in Items |-> "none"] \in [Items -> Cooldown]
  BY DEF Cooldown
<1>2. [i \in Items |-> 0] \in [Items -> 0 .. MaxLevel]
  BY LimitAssumption
<1>3. [i \in Items |-> 0] \in [Items -> 0 .. MaxAttempts - 1]
  BY LimitAssumption
<1> QED BY <1>1, <1>2, <1>3 DEF ResetCooldown, Route

-----------------------------------------------------------------------------
(* A round that ends settles its member: nothing the round was the owner   *)
(* of is left to it.                                                       *)

Settled(rt, i, rt2) ==
    /\ rt2 \in Route
    /\ rt2.halfOpens \subseteq rt.halfOpens \ {i}
    /\ rt2.probe \in {rt.probe, NoItem} \ {i}

\* Releasing the hold on a member settles it.
LEMMA ReleaseHoldSettles ==
  ASSUME NEW rt \in Route, NEW i \in Items
  PROVE  Settled(rt, i, ReleaseHold(rt, i))
  BY NoItemAssumption DEF Settled, ReleaseHold, Route

\* Returning an emergency slot touches neither claims nor candidate.
LEMMA ReleaseEmergencyKeeps ==
  ASSUME NEW rt \in Route, NEW i \in Items
  PROVE  /\ ReleaseEmergency(rt, i).halfOpens = rt.halfOpens
         /\ ReleaseEmergency(rt, i).probe = rt.probe
  BY DEF ReleaseEmergency, Route

\* An attempt without a conclusion settles its member.
LEMMA ReleaseProbeSettles ==
  ASSUME NEW rt \in Route, NEW i \in Items
  PROVE  Settled(rt, i, ReleaseProbe(rt, i))
<1>1. CASE InRecovery(rt, i)
  BY <1>1, ReleaseHoldSettles DEF ReleaseProbe
<1>2. CASE ~InRecovery(rt, i)
  BY <1>2, ReleaseEmergencyType, ReleaseEmergencyKeeps
  DEF ReleaseProbe, InRecovery, Settled, Route
<1> QED BY <1>1, <1>2

\* Leaving the current member touches neither claims nor candidate.
LEMMA LeaveCurrentKeeps ==
  ASSUME NEW rt \in Route, NEW i \in Items
  PROVE  /\ LeaveCurrent(rt, i) \in Route
         /\ LeaveCurrent(rt, i).halfOpens = rt.halfOpens
         /\ LeaveCurrent(rt, i).probe = rt.probe
  BY DEF LeaveCurrent, Route

\* Starting affinity touches neither claims nor candidate.
LEMMA StartAffinityKeeps ==
  ASSUME NEW rt \in Route, NEW i \in Items
  PROVE  /\ StartAffinity(rt, i) \in Route
         /\ StartAffinity(rt, i).halfOpens = rt.halfOpens
         /\ StartAffinity(rt, i).probe = rt.probe
  BY LimitAssumption DEF StartAffinity, Route

\* A confirmation settles the member it confirms.
LEMMA ConfirmSettles ==
  ASSUME NEW rt \in Route, NEW i \in Items
  PROVE  Settled(rt, i, Confirm(rt, i))
<1>1. CASE ~InRecovery(rt, i)
  BY <1>1 DEF Confirm, InRecovery, Settled, Route
<1>2. CASE InRecovery(rt, i)
  <2> DEFINE restored == RestoreItem(rt, i)
  <2>1. restored \in Route /\ restored.halfOpens = rt.halfOpens \ {i}
    BY RestoreType DEF RestoreItem, Route
  <2> HIDE DEF restored
  <2> DEFINE moves == rt.current = NoItem \/ ~rt.affinity
             blocked == restored.emergencyBlocked /\ i # EmergencyItem
             affine == restored.affinity /\ ~moves
             current == IF moves THEN i ELSE restored.current
  <2>2. Confirm(rt, i) =
          [restored EXCEPT !.probe = NoItem, !.emergencyBlocked = blocked,
                           !.current = current, !.affinity = affine]
    BY <1>2 DEF Confirm, restored
  <2>3. blocked \in BOOLEAN /\ affine \in BOOLEAN
    OBVIOUS
  <2>4. current \in Items \cup {NoItem}
    BY <2>1 DEF Route
  <2> HIDE DEF moves, blocked, affine, current
  <2>5. Confirm(rt, i) \in Route
    BY <2>1, <2>2, <2>3, <2>4 DEF Route
  <2>6. /\ Confirm(rt, i).probe = NoItem
        /\ Confirm(rt, i).halfOpens = rt.halfOpens \ {i}
    BY <2>1, <2>2 DEF Route
  <2> QED BY <2>5, <2>6, NoItemAssumption DEF Settled
<1> QED BY <1>1, <1>2

\* A reported success settles its member.
LEMMA RecordSuccessSettles ==
  ASSUME NEW rt \in Route, NEW i \in Items
  PROVE  Settled(rt, i, RecordSuccess(rt, i))
<1> DEFINE cleared == [rt EXCEPT !.strikes[i] = 0]
           confirmed == Confirm(cleared, i)
<1>1. [rt.strikes EXCEPT ![i] = 0] \in [Items -> 0 .. MaxAttempts - 1]
  BY LimitAssumption DEF Route
<1>2. cleared \in Route /\ cleared.halfOpens = rt.halfOpens /\ cleared.probe = rt.probe
  BY <1>1 DEF Route
<1> HIDE DEF cleared
<1>3. Settled(rt, i, confirmed)
  BY <1>2, ConfirmSettles DEF Settled
<1>4. RecordSuccess(rt, i) = IF EmergencyHeld(rt, i)
        THEN ReleaseEmergency(confirmed, i) ELSE StartAffinity(confirmed, i)
  BY DEF RecordSuccess, cleared
<1> HIDE DEF confirmed
<1> QED
  BY <1>3, <1>4, ReleaseEmergencyType, ReleaseEmergencyKeeps, StartAffinityKeeps
  DEF Settled

\* A reported failure settles its member, tripped or not.
LEMMA RecordFailureSettles ==
  ASSUME NEW rt \in Route, NEW i \in Items, NEW reached \in BOOLEAN
  PROVE  Settled(rt, i, RecordFailure(rt, i, reached))
<1> DEFINE rejected == [rt EXCEPT
              !.halfOpens = @ \ {i},
              !.probe = NoItem,
              !.levels[i] = IF reached THEN NextLevel(@) ELSE @,
              !.cooldowns[i] = IF reached THEN "cooling" ELSE "none"]
           tripped == [rt EXCEPT
              !.cooldowns[i] = "cooling",
              !.emergencyBlocked = @ \/ EmergencyHeld(rt, i)]
           settled == IF InRecovery(rt, i) THEN LeaveCurrent(rejected, i)
                      ELSE IF reached THEN LeaveCurrent(tripped, i)
                      ELSE rt
<1>1. [rt.levels EXCEPT ![i] = IF reached THEN NextLevel(@) ELSE @]
        \in [Items -> 0 .. MaxLevel]
  BY NextLevelType DEF Route
<1>2. [rt.cooldowns EXCEPT ![i] = IF reached THEN "cooling" ELSE "none"]
        \in [Items -> Cooldown]
  BY DEF Route, Cooldown
<1>3. Settled(rt, i, rejected)
  BY <1>1, <1>2, NoItemAssumption DEF Settled, Route
<1>4. EmergencyHeld(rt, i) \in BOOLEAN
  BY DEF EmergencyHeld
<1>5. [rt.cooldowns EXCEPT ![i] = "cooling"] \in [Items -> Cooldown]
  BY DEF Route, Cooldown
<1>6. /\ tripped \in Route
      /\ tripped.halfOpens = rt.halfOpens /\ tripped.probe = rt.probe
  BY <1>4, <1>5 DEF Route
<1>7. RecordFailure(rt, i, reached) = ReleaseEmergency(settled, i)
  BY DEF RecordFailure
<1> HIDE DEF rejected, tripped
<1>8. Settled(rt, i, settled)
  BY <1>3, <1>6, LeaveCurrentKeeps DEF Settled, InRecovery, Route
<1> HIDE DEF settled
<1> QED
  BY <1>7, <1>8, ReleaseEmergencyType, ReleaseEmergencyKeeps DEF Settled

\* A failure after the commit touches neither claims nor candidate.
LEMMA PostCommitFailureKeeps ==
  ASSUME NEW rt \in Route, NEW i \in Items
  PROVE  /\ RecordPostCommitFailure(rt, i) \in Route
         /\ RecordPostCommitFailure(rt, i).halfOpens = rt.halfOpens
         /\ RecordPostCommitFailure(rt, i).probe = rt.probe
<1>1. rt.strikes[i] \in 0 .. MaxAttempts - 1
  BY DEF Route
<1>2. ASSUME rt.strikes[i] + 1 < MaxAttempts
      PROVE  [rt.strikes EXCEPT ![i] = @ + 1] \in [Items -> 0 .. MaxAttempts - 1]
  BY <1>1, <1>2, LimitAssumption DEF Route
<1>3. [rt.strikes EXCEPT ![i] = 0] \in [Items -> 0 .. MaxAttempts - 1]
  BY LimitAssumption DEF Route
<1>4. [rt.cooldowns EXCEPT ![i] = "cooling"] \in [Items -> Cooldown]
  BY DEF Route, Cooldown
<1> QED BY <1>2, <1>3, <1>4 DEF RecordPostCommitFailure, Route

-----------------------------------------------------------------------------
(* What the operators do to the affinity and to the levels of the backoff. *)

\* Affinity has a member to stay with.
Anchored(rt) == rt.affinity => rt.current # NoItem

\* A level that falls falls to zero, together with its cooldown.
LevelsKept(rt, rt2) ==
    \A j \in Items : rt2.levels[j] < rt.levels[j] =>
        rt2.levels[j] = 0 /\ rt2.cooldowns[j] = "none"

\* A step of the record that keeps both.
Sound(rt, rt2) == (Anchored(rt) => Anchored(rt2)) /\ LevelsKept(rt, rt2)

\* Levels are numbers, and the next one is no lower.
LEMMA LevelRises ==
  ASSUME NEW rt \in Route, NEW j \in Items
  PROVE  rt.levels[j] \in Nat /\ ~(rt.levels[j] < rt.levels[j])
         /\ ~(NextLevel(rt.levels[j]) < rt.levels[j])
<1>1. rt.levels[j] \in 0 .. MaxLevel
  BY DEF Route
<1> QED BY <1>1, LimitAssumption DEF NextLevel

\* A record that differs elsewhere only.
LEMMA ElsewhereSound ==
  ASSUME NEW rt \in Route, NEW rt2, rt2.levels = rt.levels, Anchored(rt) => Anchored(rt2)
  PROVE  Sound(rt, rt2)
  BY LevelRises DEF Sound, LevelsKept

\* Claims and their releases.
LEMMA HoldsSound ==
  ASSUME NEW rt \in Route, NEW i \in Items, NEW S \in SUBSET Items
  PROVE  /\ Sound(rt, rt)
         /\ Sound(rt, Claim(rt, S))
         /\ Sound(rt, Nominate(rt, S, i))
         /\ Sound(rt, ReleaseHold(rt, i))
         /\ Sound(rt, ClaimEmergency(rt))
         /\ Sound(rt, ReleaseEmergency(rt, i))
         /\ Sound(rt, ReleaseProbe(rt, i))
<1>1. ASSUME NEW rt2, rt2.levels = rt.levels, rt2.affinity = rt.affinity, rt2.current = rt.current
      PROVE  Sound(rt, rt2)
  BY <1>1, ElsewhereSound DEF Anchored
<1>2. Sound(rt, rt)
  BY <1>1
<1>3. Sound(rt, Claim(rt, S))
  <2> DEFINE rt2 == Claim(rt, S)
  <2>1. rt2.levels = rt.levels /\ rt2.affinity = rt.affinity /\ rt2.current = rt.current
    BY DEF Claim, Route
  <2>2. Sound(rt, rt2)
    <3> HIDE DEF rt2
    <3> QED BY <1>1, <2>1
  <2> QED BY <2>2
<1>4. Sound(rt, Nominate(rt, S, i))
  <2> DEFINE rt2 == Nominate(rt, S, i)
  <2>1. rt2.levels = rt.levels /\ rt2.affinity = rt.affinity /\ rt2.current = rt.current
    BY DEF Nominate, Route
  <2>2. Sound(rt, rt2)
    <3> HIDE DEF rt2
    <3> QED BY <1>1, <2>1
  <2> QED BY <2>2
<1>5. Sound(rt, ReleaseHold(rt, i))
  <2> DEFINE rt2 == ReleaseHold(rt, i)
  <2>1. rt2.levels = rt.levels /\ rt2.affinity = rt.affinity /\ rt2.current = rt.current
    BY DEF ReleaseHold, Route
  <2>2. Sound(rt, rt2)
    <3> HIDE DEF rt2
    <3> QED BY <1>1, <2>1
  <2> QED BY <2>2
<1>6. Sound(rt, ClaimEmergency(rt))
  BY <1>1 DEF ClaimEmergency, Route
<1>7. Sound(rt, ReleaseEmergency(rt, i))
  BY <1>1 DEF ReleaseEmergency, Route
<1> QED BY <1>2, <1>3, <1>4, <1>5, <1>6, <1>7 DEF ReleaseProbe

\* The conclusions of a probe.
LEMMA RestoreSound ==
  ASSUME NEW rt \in Route, NEW i \in Items
  PROVE  Sound(rt, RestoreItem(rt, i))
<1>1. \A j \in Items : j # i => RestoreItem(rt, i).levels[j] = rt.levels[j]
  BY DEF RestoreItem, Route
<1>2. RestoreItem(rt, i).levels[i] = 0 /\ RestoreItem(rt, i).cooldowns[i] = "none"
  BY DEF RestoreItem, Route
<1>3. Anchored(rt) => Anchored(RestoreItem(rt, i))
  BY DEF RestoreItem, Anchored, Route
<1> QED BY <1>1, <1>2, <1>3, LevelRises DEF Sound, LevelsKept

LEMMA ReopenSound ==
  ASSUME NEW rt \in Route, NEW S \in SUBSET Items
  PROVE  Sound(rt, ReopenItems(rt, S))
<1>1. \A j \in Items : ReopenItems(rt, S).levels[j] \in {rt.levels[j], NextLevel(rt.levels[j])}
  BY DEF ReopenItems, Route
<1>2. Anchored(rt) => Anchored(ReopenItems(rt, S))
  BY DEF ReopenItems, Anchored, Route
<1> QED BY <1>1, <1>2, LevelRises DEF Sound, LevelsKept

\* The administrator's reset.
LEMMA ResetSound ==
  ASSUME NEW rt \in Route
  PROVE  Sound(rt, ResetCooldown(rt))
  BY DEF ResetCooldown, Anchored, Route, Sound, LevelsKept

\* A reported success: the member is confirmed, and may become the current
\* one, before its affinity starts.
LEMMA RecordSuccessSound ==
  ASSUME NEW rt \in Route, NEW i \in Items
  PROVE  Sound(rt, RecordSuccess(rt, i))
<1> DEFINE cleared == [rt EXCEPT !.strikes[i] = 0]
           confirmed == Confirm(cleared, i)
<1>1. [rt.strikes EXCEPT ![i] = 0] \in [Items -> 0 .. MaxAttempts - 1]
  BY LimitAssumption DEF Route
<1>2. /\ cleared \in Route /\ cleared.levels = rt.levels
      /\ cleared.affinity = rt.affinity /\ cleared.current = rt.current
  BY <1>1 DEF Route
<1>3. RecordSuccess(rt, i) = IF EmergencyHeld(rt, i)
        THEN ReleaseEmergency(confirmed, i) ELSE StartAffinity(confirmed, i)
  BY DEF RecordSuccess
<1> HIDE DEF cleared
<1>4. confirmed \in Route
  BY <1>2, ConfirmSettles DEF Settled
<1>5. Sound(rt, confirmed)
  <2>1. CASE ~InRecovery(cleared, i)
    BY <1>2, <2>1, ElsewhereSound DEF Confirm, Anchored
  <2>2. CASE InRecovery(cleared, i)
    <3> DEFINE restored == RestoreItem(cleared, i)
               moves == cleared.current = NoItem \/ ~cleared.affinity
    <3>1. /\ restored \in Route
          /\ restored.affinity = cleared.affinity /\ restored.current = cleared.current
      BY <1>2, RestoreType DEF RestoreItem, Route
    <3>2. /\ confirmed.levels = restored.levels /\ confirmed.cooldowns = restored.cooldowns
          /\ confirmed.affinity = (restored.affinity /\ ~moves)
          /\ confirmed.current = IF moves THEN i ELSE restored.current
      <4> HIDE DEF moves
      <4>1. confirmed = [restored EXCEPT
                !.probe = NoItem,
                !.emergencyBlocked = @ /\ i # EmergencyItem,
                !.current = IF moves THEN i ELSE @,
                !.affinity = @ /\ ~moves]
        BY <2>2 DEF Confirm, moves
      <4> HIDE DEF restored, confirmed
      <4> QED BY <3>1, <4>1 DEF Route
    <3>3. LevelsKept(cleared, restored)
      BY <1>2, RestoreSound DEF Sound
    <3>4. Anchored(confirmed)
      BY <3>1, <3>2, NoItemAssumption DEF Anchored
    <3> HIDE DEF confirmed, restored
    <3> QED BY <1>2, <3>2, <3>3, <3>4 DEF Sound, LevelsKept
  <2> QED BY <2>1, <2>2
<1> HIDE DEF confirmed
<1>6. ReleaseEmergency(confirmed, i) = confirmed
      \/ ReleaseEmergency(confirmed, i) = [confirmed EXCEPT !.emergencyCount = @ - 1]
  BY DEF ReleaseEmergency
<1>7. Sound(rt, ReleaseEmergency(confirmed, i))
  BY <1>4, <1>5, <1>6 DEF Sound, LevelsKept, Anchored, Route
<1>8. Sound(rt, StartAffinity(confirmed, i))
  <2> DEFINE started == StartAffinity(confirmed, i)
  <2>1. /\ started.levels = confirmed.levels /\ started.cooldowns = confirmed.cooldowns
        /\ started.current = confirmed.current
        /\ started.affinity => confirmed.affinity \/ confirmed.current = i
    BY <1>4 DEF StartAffinity, Route
  <2>2. LevelsKept(rt, started)
    <3> HIDE DEF started
    <3> QED BY <1>5, <2>1 DEF Sound, LevelsKept
  <2>3. Anchored(rt) => Anchored(started)
    <3> HIDE DEF started
    <3>1. Anchored(rt) => Anchored(confirmed)
      BY <1>5 DEF Sound
    <3>2. Anchored(confirmed) => Anchored(started)
      BY <2>1, NoItemAssumption DEF Anchored
    <3> QED BY <3>1, <3>2
  <2> QED BY <2>2, <2>3 DEF Sound
<1> QED BY <1>3, <1>7, <1>8

\* A reported failure.
LEMMA RecordFailureSound ==
  ASSUME NEW rt \in Route, NEW i \in Items, NEW reached \in BOOLEAN
  PROVE  Sound(rt, RecordFailure(rt, i, reached))
<1> DEFINE rejected == [rt EXCEPT
              !.halfOpens = @ \ {i},
              !.probe = NoItem,
              !.levels[i] = IF reached THEN NextLevel(@) ELSE @,
              !.cooldowns[i] = IF reached THEN "cooling" ELSE "none"]
           tripped == [rt EXCEPT
              !.cooldowns[i] = "cooling",
              !.emergencyBlocked = @ \/ EmergencyHeld(rt, i)]
           settled == IF InRecovery(rt, i) THEN LeaveCurrent(rejected, i)
                      ELSE IF reached THEN LeaveCurrent(tripped, i)
                      ELSE rt
<1>1. /\ \A j \in Items : rejected.levels[j] \in {rt.levels[j], NextLevel(rt.levels[j])}
      /\ rejected.affinity = rt.affinity /\ rejected.current = rt.current
  BY DEF Route
<1>2. tripped.levels = rt.levels /\ tripped.affinity = rt.affinity /\ tripped.current = rt.current
  BY DEF Route
<1>3. RecordFailure(rt, i, reached) = ReleaseEmergency(settled, i)
  BY DEF RecordFailure
<1>4. ASSUME NEW rt2 \in {rejected, tripped}
      PROVE  /\ LeaveCurrent(rt2, i).levels = rt2.levels
             /\ Anchored(rt2) => Anchored(LeaveCurrent(rt2, i))
  BY <1>4 DEF LeaveCurrent, Anchored, Route
<1> HIDE DEF rejected, tripped
<1>5. /\ \A j \in Items : settled.levels[j] \in {rt.levels[j], NextLevel(rt.levels[j])}
      /\ Anchored(rt) => Anchored(settled)
  BY <1>1, <1>2, <1>4 DEF Anchored
<1> HIDE DEF settled
<1>6. /\ ReleaseEmergency(settled, i).levels = settled.levels
      /\ ReleaseEmergency(settled, i).affinity = settled.affinity
      /\ ReleaseEmergency(settled, i).current = settled.current
  BY DEF ReleaseEmergency
<1> QED BY <1>3, <1>5, <1>6, LevelRises DEF Sound, LevelsKept, Anchored

\* A failure after the commit leaves the levels and the affinity alone.
LEMMA PostCommitFailureSound ==
  ASSUME NEW rt \in Route, NEW i \in Items
  PROVE  Sound(rt, RecordPostCommitFailure(rt, i))
<1>1. LET rt2 == RecordPostCommitFailure(rt, i)
      IN  rt2.levels = rt.levels /\ rt2.affinity = rt.affinity /\ rt2.current = rt.current
  BY DEF RecordPostCommitFailure, Route
<1> QED BY <1>1, ElsewhereSound DEF Anchored

-----------------------------------------------------------------------------
(* Types.                                                                  *)

\* The initial states are well typed.
LEMMA InitType == Init => TypeOK
  BY NewRouteType, RoundsAssumption
  DEF Init, TypeOK, Places, Origins, NoFailures, ErrorKinds

\* A round that starts leaves the request's locals well typed.
LEMMA StartRoundType ==
  ASSUME TypeOK, NEW r \in Requests, NEW i \in Items, NEW origin \in Origins,
         StartRound(r, i, origin)
  PROVE  /\ pc' \in [Requests -> Places]
         /\ item' \in [Requests -> Items \cup {NoItem}]
         /\ via' \in [Requests -> Origins]
  BY DEF TypeOK, StartRound, Goto, Places

\* A round that ends leaves the request's locals well typed.
LEMMA EndRoundType ==
  ASSUME TypeOK, NEW r \in Requests, NEW place \in Places, EndRound(r, place)
  PROVE  /\ pc' \in [Requests -> Places]
         /\ item' \in [Requests -> Items \cup {NoItem}]
         /\ via' \in [Requests -> Origins]
  BY DEF TypeOK, EndRound, Goto, Origins

\* Forgetting the locals keeps their types.
LEMMA ForgetType ==
  ASSUME TypeOK, NEW r \in Requests, Forget(r)
  PROVE  /\ batch' \in [Requests -> SUBSET Items]
         /\ exclude' \in [Requests -> Items \cup {NoItem}]
         /\ rounds' \in [Requests -> 0 .. MaxRounds]
         /\ failures' \in [Requests -> [ErrorKinds -> [Items -> Nat]]]
         /\ refused' \in [Requests -> SUBSET Items]
<1>1. NoFailures \in [ErrorKinds -> [Items -> Nat]]
  BY DEF NoFailures
<1> QED BY <1>1, RoundsAssumption DEF TypeOK, Forget

\* A pass through the loop stays within the bound on the rounds.
LEMMA PickType ==
  ASSUME TypeOK, NEW r \in Requests, Pick(r)
  PROVE  /\ rounds' \in [Requests -> 0 .. MaxRounds]
         /\ enabled' \subseteq Items
         /\ exclude' \in [Requests -> Items \cup {NoItem}]
         /\ failures' \in [Requests -> [ErrorKinds -> [Items -> Nat]]]
         /\ refused' \in [Requests -> SUBSET Items]
  BY RoundsAssumption DEF TypeOK, Pick

\* The counts of probe goroutines stay natural numbers.
LEMMA StartProbesType ==
  ASSUME TypeOK, NEW S \in SUBSET Items, StartProbes(S)
  PROVE  probes' \in [Items -> Nat]
  BY DEF TypeOK, StartProbes

\* A round or a stream is on a member of the group.
LEMMA RoundOnMember ==
  ASSUME TypeOK, NEW r \in Requests, pc[r] \in {"round", "stream"}
  PROVE  item[r] \in Items
  BY DEF TypeOK

\* A failure that is counted keeps the counters natural numbers.
LEMMA CountedType ==
  ASSUME TypeOK, NEW r \in Requests, NEW kind \in ErrorKinds, item[r] \in Items,
         CountFailure(r, kind)
  PROVE  failures' \in [Requests -> [ErrorKinds -> [Items -> Nat]]]
<1> DEFINE n == IF Reaches(r, kind) THEN failures[r][kind][item[r]]
                ELSE failures[r][kind][item[r]] + 1
<1>1. n \in Nat
  BY DEF TypeOK
<1>2. failures' = [failures EXCEPT ![r][kind][item[r]] = n]
  BY DEF CountFailure
<1> HIDE DEF n
<1> QED BY <1>1, <1>2 DEF TypeOK

\* Selection, recovery and the emergency claim keep the type.
LEMMA SelectType ==
  ASSUME TypeOK, NEW r \in Requests, Select(r)
  PROVE  TypeOK'
<1> USE DEF Places, Origins
<1>1. CASE PickBehindCandidate(r)
  BY <1>1, PickType DEF PickBehindCandidate, TypeOK, Goto
<1>2. CASE PickAffine(r)
  <2>1. AffineItem(route, exclude[r], enabled) \in Items
    BY <1>2 DEF PickAffine, AffineItem, TypeOK, Route
  <2> QED BY <1>2, <2>1, PickType, NoItemAssumption
          DEF PickAffine, TypeOK, StartRound, Goto
<1>3. CASE PickClosed(r)
  <2> PICK i \in FirstOf(ClosedItems(route, exclude[r], enabled), Rank[r]) :
        LET passed  == Before(ExpiredItems(route, exclude[r], enabled), i, Rank[r])
            claimed == {j \in passed : CanClaim(route, j)}
        IN  /\ route' = [Claim(route, claimed) EXCEPT !.current = i]
            /\ StartProbes(claimed)
            /\ StartRound(r, i, "closed")
    BY <1>3 DEF PickClosed
  <2> DEFINE passed  == Before(ExpiredItems(route, exclude[r], enabled), i, Rank[r])
             claimed == {j \in passed : CanClaim(route, j)}
  <2>1. i \in Items /\ claimed \in SUBSET Items
    BY DEF FirstOf, ClosedItems, Before, ExpiredItems, TypeOK
  <2>2. Pick(r) /\ batch' = batch
    BY <1>3 DEF PickClosed, Scans
  <2> HIDE DEF claimed
  <2>3. route' \in Route
    <3>1. Claim(route, claimed) \in Route
      BY <2>1, ClaimType DEF TypeOK
    <3> QED BY <2>1, <3>1 DEF Route, claimed
  <2>4. probes' \in [Items -> Nat]
    BY <2>1, StartProbesType DEF claimed
  <2> QED BY <2>1, <2>2, <2>3, <2>4, PickType, NoItemAssumption
          DEF TypeOK, StartRound, Goto
<1>4. CASE PickRecovery(r)
  <2> DEFINE expired == ExpiredItems(route, exclude[r], enabled)
  <2>1. expired \in SUBSET Items
    BY DEF ExpiredItems, TypeOK
  <2>2. route' \in Route
    BY <1>4, <2>1, ClaimType DEF PickRecovery, TypeOK
  <2> QED BY <1>4, <2>1, <2>2, PickType DEF PickRecovery, Scans, TypeOK, Goto
<1>5. CASE PickNothing(r)
  BY <1>5, PickType DEF PickNothing, Scans, TypeOK, Goto
<1>6. CASE RecoveryWon(r)
  <2>1. batch[r] \in SUBSET Items
    BY DEF TypeOK
  <2>2. PICK winner \in batch[r] : /\ route' = Nominate(route, batch[r], winner)
                                   /\ StartRound(r, winner, "candidate")
    BY <1>6 DEF RecoveryWon
  <2>3. route' \in Route
    BY <2>1, <2>2, NominateType DEF TypeOK
  <2> QED BY <1>6, <2>1, <2>2, <2>3, NoItemAssumption
          DEF RecoveryWon, TypeOK, StartRound, Goto
<1>7. CASE RecoveryLost(r)
  <2>1. batch[r] \in SUBSET Items
    BY DEF TypeOK
  <2>2. route' \in Route
    BY <1>7, <2>1, ReopenType DEF RecoveryLost, TypeOK
  <2> QED BY <1>7, <2>2 DEF RecoveryLost, TypeOK, Goto
<1>8. CASE TakeEmergency(r)
  <2>1. EmergencyItem \in Items /\ route' \in Route
    BY <1>8, ClaimEmergencyType DEF TakeEmergency, CanClaimEmergency, TypeOK
  <2> QED BY <1>8, <2>1, NoItemAssumption DEF TakeEmergency, TypeOK, StartRound, Goto
<1>9. CASE NoEmergency(r)
  BY <1>9 DEF NoEmergency, local, TypeOK, Goto
<1>10. CASE SeeAllCooling(r)
  BY <1>10 DEF SeeAllCooling, local, TypeOK, Goto
<1>11. CASE ClearCooldowns(r)
  BY <1>11, ResetType DEF ClearCooldowns, local, TypeOK, Goto
<1>12. CASE WaitForMember(r)
  BY <1>12 DEF WaitForMember, TypeOK, Goto
<1> QED
  BY <1>1, <1>2, <1>3, <1>4, <1>5, <1>6, <1>7, <1>8, <1>9, <1>10, <1>11, <1>12
  DEF Select

\* Ending a round with a well typed record keeps the type.
LEMMA EndType ==
  ASSUME TypeOK, NEW r \in Requests, NEW place \in {"loop", "done", "panicked"},
         EndRound(r, place)
  PROVE  \A q \in Requests : pc'[q] \in {"round", "stream"} => item'[q] # NoItem
  BY DEF TypeOK, EndRound, Goto

\* Ending a request with a well typed record keeps the type.
LEMMA FinishType ==
  ASSUME TypeOK, NEW r \in Requests, NEW place \in {"done", "panicked"},
         Finish(r, place), route' \in Route, UNCHANGED <<enabled, probes>>
  PROVE  TypeOK'
  BY EndRoundType, ForgetType, EndType DEF Finish, TypeOK, Places

\* The outcomes of a round keep the type.
LEMMA ConcludeType ==
  ASSUME TypeOK, NEW r \in Requests, Conclude(r)
  PROVE  TypeOK'
<1> USE DEF Places
<1>1. pc[r] = "round" /\ UNCHANGED <<enabled, probes>>
  BY DEF Conclude, RetryRound, AbandonRound, CancelRound, Refused, FailRound,
         SucceedRound, InRound
<1>2. item[r] \in Items /\ route \in Route
  BY <1>1, RoundOnMember DEF TypeOK
<1>3. CASE RetryRound(r)
  <2>1. route' \in Route
    BY <1>2, <1>3, ReleaseProbeSettles DEF RetryRound, Settled
  <2> QED BY <1>1, <1>3, <2>1, EndRoundType, EndType DEF RetryRound, TypeOK
<1>4. CASE AbandonRound(r)
  <2>1. route' \in Route
    BY <1>2, <1>4, ReleaseProbeSettles DEF AbandonRound, Settled
  <2> QED BY <1>1, <1>4, <2>1, EndRoundType, EndType DEF AbandonRound, TypeOK
<1>5. CASE CancelRound(r)
  <2>1. route' \in Route
    BY <1>2, <1>5, ReleaseProbeSettles DEF CancelRound, Settled
  <2> QED BY <1>1, <1>5, <2>1, FinishType DEF CancelRound
<1>6. ASSUME NEW kind \in ErrorKinds, Refused(r, kind)
      PROVE  TypeOK'
  <2>1. Reaches(r, kind) \in BOOLEAN
    BY DEF Reaches
  <2>2. route' \in Route
    BY <1>2, <1>6, <2>1, RecordFailureSettles DEF Refused, Settled
  <2>3. CASE Finish(r, "done")
    BY <1>1, <2>2, <2>3, FinishType
  <2>4. CASE /\ refused' = [refused EXCEPT ![r] = @ \cup {item[r]}]
             /\ CountFailure(r, kind)
             /\ exclude' = [exclude EXCEPT ![r] = item[r]]
             /\ EndRound(r, "loop")
             /\ UNCHANGED <<batch, rounds>>
    <3>1. failures' \in [Requests -> [ErrorKinds -> [Items -> Nat]]]
      BY <1>2, <2>4, CountedType
    <3> QED BY <1>1, <1>2, <2>2, <2>4, <3>1, EndRoundType, EndType DEF TypeOK
  <2> QED BY <1>6, <2>3, <2>4 DEF Refused
<1>7. ASSUME NEW kind \in ErrorKinds, FailRound(r, kind)
      PROVE  TypeOK'
  <2> DEFINE reached == Reaches(r, kind)
             next == IF MustReselect(route, item[r], reached) THEN item[r] ELSE NoItem
  <2>1. reached \in BOOLEAN /\ next \in Items \cup {NoItem}
    BY <1>2 DEF Reaches
  <2>2. route' \in Route
    BY <1>2, <1>7, <2>1, RecordFailureSettles DEF FailRound, Settled
  <2>3. failures' \in [Requests -> [ErrorKinds -> [Items -> Nat]]]
    BY <1>2, <1>7, CountedType DEF FailRound
  <2>4. /\ exclude' = [exclude EXCEPT ![r] = next]
        /\ EndRound(r, "loop")
        /\ UNCHANGED <<batch, rounds, refused>>
    BY <1>7 DEF FailRound
  <2> HIDE DEF next
  <2> QED BY <1>1, <2>1, <2>2, <2>3, <2>4, EndRoundType, EndType DEF TypeOK
<1>8. ASSUME NEW place \in {"stream", "done"}, SucceedRound(r, place)
      PROVE  TypeOK'
  <2>1. route' \in Route
    BY <1>2, <1>8, RecordSuccessSettles DEF SucceedRound, Settled
  <2>2. CASE place = "done"
    BY <1>1, <1>8, <2>1, <2>2, FinishType DEF SucceedRound
  <2>3. CASE place = "stream"
    <3>1. /\ pc' = [pc EXCEPT ![r] = "stream"]
          /\ via' = [via EXCEPT ![r] = "none"]
          /\ Forget(r) /\ item' = item
      BY <1>8, <2>3 DEF SucceedRound, Goto
    <3> QED BY <1>1, <1>2, <2>1, <3>1, ForgetType, NoItemAssumption DEF TypeOK, Origins
  <2> QED BY <2>2, <2>3
<1> QED BY <1>3, <1>4, <1>5, <1>6, <1>7, <1>8 DEF Conclude

\* The outcomes of a forwarded stream keep the type.
LEMMA DeliverType ==
  ASSUME TypeOK, NEW r \in Requests, Deliver(r)
  PROVE  TypeOK'
<1>1. pc[r] = "stream" /\ UNCHANGED <<enabled, probes>> /\ Finish(r, "done")
  BY DEF Deliver, EndStream, FailStream, StopStream, InStream
<1>2. item[r] \in Items /\ route \in Route
  BY <1>1, RoundOnMember DEF TypeOK
<1>3. route' \in Route
  BY <1>2, PostCommitFailureKeeps, ReleaseProbeSettles
  DEF Deliver, EndStream, FailStream, StopStream, Settled
<1> QED BY <1>1, <1>3, FinishType

\* Giving up a request keeps the type.
LEMMA GiveUpType ==
  ASSUME TypeOK, NEW r \in Requests, GiveUp(r)
  PROVE  TypeOK'
  BY FinishType DEF GiveUp, TypeOK

\* A panic of the handler keeps the type.
LEMMA PanicType ==
  ASSUME TypeOK, NEW r \in Requests, Panic(r)
  PROVE  TypeOK'
<1>1. item[r] \in Items /\ route \in Route
  BY RoundOnMember DEF Panic, TypeOK
<1>2. route' \in Route
  BY <1>1, ReleaseHoldSettles DEF Panic, Settled
<1> QED BY <1>2, FinishType DEF Panic

\* The conclusion of a probe goroutine keeps the type.
LEMMA ProbeType ==
  ASSUME TypeOK, NEW i \in Items, NEW succeeded \in BOOLEAN,
         ProbeConcludes(i, succeeded)
  PROVE  TypeOK'
<1>1. probes' \in [Items -> Nat]
  BY DEF ProbeConcludes, TypeOK
<1>2. route' \in Route
  BY RestoreType, ReopenType DEF ProbeConcludes, TypeOK
<1> QED BY <1>1, <1>2 DEF ProbeConcludes, local, TypeOK

\* The background task, the administrator and time keep the type.
LEMMA EnvironmentType ==
  ASSUME TypeOK, Environment
  PROVE  TypeOK'
<1>1. CASE ProbeExpiredItems
  <2> DEFINE claimed == {i \in Items : CanClaim(route, i)}
  <2>1. claimed \in SUBSET Items
    OBVIOUS
  <2>2. route' \in Route /\ probes' \in [Items -> Nat]
    BY <1>1, <2>1, ClaimType, StartProbesType DEF ProbeExpiredItems, TypeOK
  <2> QED BY <1>1, <2>2 DEF ProbeExpiredItems, local, TypeOK
<1>2. CASE ResetGroupCooldown
  BY <1>2, ResetType DEF ResetGroupCooldown, local, TypeOK
<1>3. CASE AffinityExpires
  <2>1. route' \in Route
    BY <1>3 DEF AffinityExpires, TypeOK, Route
  <2> QED BY <1>3, <2>1 DEF AffinityExpires, local, TypeOK
<1>4. CASE EmergencyBlockExpires
  <2>1. route' \in Route
    BY <1>4 DEF EmergencyBlockExpires, TypeOK, Route
  <2> QED BY <1>4, <2>1 DEF EmergencyBlockExpires, local, TypeOK
<1>5. ASSUME NEW i \in Items, ToggleChannel(i)
      PROVE  TypeOK'
  BY <1>5 DEF ToggleChannel, local, TypeOK
<1>6. ASSUME NEW i \in Items, CooldownExpires(i)
      PROVE  TypeOK'
  <2>1. route' \in Route
    BY <1>6 DEF CooldownExpires, TypeOK, Route, Cooldown
  <2> QED BY <1>6, <2>1 DEF CooldownExpires, local, TypeOK
<1> QED BY <1>1, <1>2, <1>3, <1>4, <1>5, <1>6 DEF Environment

\* Every step keeps the type.
LEMMA NextType == TypeOK /\ [Next]_vars => TypeOK'
<1> SUFFICES ASSUME TypeOK, [Next]_vars
             PROVE  TypeOK'
  OBVIOUS
<1>1. ASSUME NEW r \in Requests, Request(r)
      PROVE  TypeOK'
  BY <1>1, GiveUpType, SelectType, ConcludeType, DeliverType, PanicType DEF Request
<1>2. ASSUME NEW i \in Items, Probe(i)
      PROVE  TypeOK'
  BY <1>2, ProbeType DEF Probe
<1>3. CASE Environment
  BY <1>3, EnvironmentType
<1>4. CASE UNCHANGED vars
  BY <1>4 DEF vars, TypeOK
<1> QED BY <1>1, <1>2, <1>3, <1>4 DEF Next, Terminated

\* Every variable keeps its type, and a round or a stream is always on some
\* member: the loop never sends or reports with the zero GroupItem.
THEOREM TypeCorrect == Spec => []TypeOK
<1> QED BY InitType, NextType, PTL DEF Spec

-----------------------------------------------------------------------------
(* Ownership: no step leaves the candidate, or a member in HALF_OPEN,      *)
(* without somebody who will conclude on it.                               *)

Owned == CandidateOwned /\ HalfOpenOwned

\* The steps of request r leave the other requests where they are.
OthersStay(r) ==
    \A q \in Requests \ {r} :
        pc'[q] = pc[q] /\ item'[q] = item[q] /\ batch'[q] = batch[q]

\* A step of one request changes the place of no other.
LEMMA RequestOthersStay ==
  ASSUME TypeOK, NEW r \in Requests, Request(r)
  PROVE  OthersStay(r)
<1>1. ASSUME Select(r) PROVE OthersStay(r)
  BY <1>1 DEF Select, PickBehindCandidate, PickAffine, PickClosed, PickRecovery,
     PickNothing, RecoveryWon, RecoveryLost, TakeEmergency, NoEmergency,
     SeeAllCooling, ClearCooldowns, WaitForMember, Scans, Pick, StartRound,
     Goto, local, OthersStay, TypeOK
<1>2. ASSUME GiveUp(r) \/ Deliver(r) \/ Panic(r) PROVE OthersStay(r)
  BY <1>2 DEF GiveUp, Deliver, EndStream, FailStream, StopStream, Panic,
     Finish, EndRound, Forget, Goto, OthersStay, TypeOK
<1>3. ASSUME Conclude(r) PROVE OthersStay(r)
  BY <1>3 DEF Conclude, RetryRound, AbandonRound, CancelRound, Refused, FailRound,
     SucceedRound, Finish, EndRound, Forget, Goto, OthersStay, TypeOK
<1> QED BY <1>1, <1>2, <1>3 DEF Request

\* Owner of the candidate, and owners of a member in HALF_OPEN.
Confirms(r, i) == pc[r] = "round" /\ item[r] = i
Recovers(r, i) == pc[r] = "batch" /\ i \in batch[r]
Attended(i) == probes[i] > 0 \/ \E r \in Requests : Recovers(r, i) \/ Confirms(r, i)

\* The two invariants, in terms of who owns what.
LEMMA OwnedAlt ==
  Owned <=> /\ route.probe # NoItem => \E r \in Requests : Confirms(r, route.probe)
            /\ \A i \in route.halfOpens : Attended(i)
  BY DEF Owned, CandidateOwned, HalfOpenOwned, Attended, Confirms, Recovers

\* The same of the state after a step.
LEMMA OwnedAltNext ==
  Owned' <=> /\ route'.probe # NoItem =>
                    \E r \in Requests : Confirms(r, route.probe)'
             /\ \A i \in route'.halfOpens : Attended(i)'
  BY DEF Owned, CandidateOwned, HalfOpenOwned, Attended, Confirms, Recovers

\* Only what r itself owned can lose its owner when r moves.
LEMMA OthersOwn ==
  ASSUME NEW r \in Requests, OthersStay(r), NEW q \in Requests \ {r}, NEW i \in Items
  PROVE  /\ Confirms(q, i) => Confirms(q, i)'
         /\ Recovers(q, i) => Recovers(q, i)'
  BY DEF OthersStay, Confirms, Recovers

\* The round of r ends and settles its member.
LEMMA SettledKeepsOwners ==
  ASSUME TypeOK, Owned, NEW r \in Requests, OthersStay(r), pc[r] = "round",
         Settled(route, item[r], route'), probes' = probes
  PROVE  Owned'
<1>1. route.halfOpens \subseteq Items /\ route.probe \in Items \cup {NoItem}
  BY DEF TypeOK, Route
<1>2. ASSUME route'.probe # NoItem
      PROVE  \E q \in Requests : Confirms(q, route.probe)'
  <2>1. route'.probe = route.probe /\ route.probe # item[r]
    BY <1>2 DEF Settled
  <2>2. PICK q \in Requests : Confirms(q, route.probe)
    BY <1>2, <2>1, OwnedAlt
  <2>3. q # r
    BY <2>1, <2>2 DEF Confirms
  <2>4. pc'[q] = pc[q] /\ item'[q] = item[q]
    BY <2>3 DEF OthersStay
  <2> QED BY <2>1, <2>2, <2>4 DEF Confirms
<1>3. ASSUME NEW i \in route'.halfOpens
      PROVE  Attended(i)'
  <2>1. i \in route.halfOpens /\ i # item[r] /\ i \in Items
    BY <1>1, <1>3 DEF Settled
  <2>2. CASE probes[i] > 0
    BY <2>2 DEF Attended
  <2>3. CASE \E q \in Requests : Recovers(q, i) \/ Confirms(q, i)
    <3>1. PICK q \in Requests : Recovers(q, i) \/ Confirms(q, i)
      BY <2>3
    <3>2. q # r
      BY <2>1, <3>1 DEF Confirms, Recovers
    <3> QED BY <2>1, <3>1, <3>2, OthersOwn DEF Attended
  <2> QED BY <2>1, <2>2, <2>3, OwnedAlt DEF Attended
<1> QED BY <1>2, <1>3, OwnedAltNext

\* r owns nothing and claims nothing.
LEMMA BystanderKeepsOwners ==
  ASSUME TypeOK, Owned, NEW r \in Requests, OthersStay(r),
         pc[r] \notin {"batch", "round"}, probes' = probes,
         route'.halfOpens \subseteq route.halfOpens,
         route'.probe \in {route.probe, NoItem}
  PROVE  Owned'
<1>1. route.halfOpens \subseteq Items /\ route.probe \in Items \cup {NoItem}
  BY DEF TypeOK, Route
<1>2. ASSUME route'.probe # NoItem
      PROVE  \E q \in Requests : Confirms(q, route.probe)'
  <2>1. PICK q \in Requests : Confirms(q, route.probe)
    BY <1>2, OwnedAlt
  <2>2. q # r
    BY <2>1 DEF Confirms
  <2>3. pc'[q] = pc[q] /\ item'[q] = item[q] /\ route'.probe = route.probe
    BY <1>2, <2>2 DEF OthersStay
  <2> QED BY <2>1, <2>3 DEF Confirms
<1>3. ASSUME NEW i \in route'.halfOpens
      PROVE  Attended(i)'
  <2>1. i \in route.halfOpens /\ i \in Items
    BY <1>1, <1>3
  <2>2. CASE probes[i] > 0
    BY <2>2 DEF Attended
  <2>3. CASE \E q \in Requests : Recovers(q, i) \/ Confirms(q, i)
    <3>1. PICK q \in Requests : Recovers(q, i) \/ Confirms(q, i)
      BY <2>3
    <3>2. q # r
      BY <3>1 DEF Confirms, Recovers
    <3> QED BY <2>1, <3>1, <3>2, OthersOwn DEF Attended
  <2> QED BY <2>1, <2>2, <2>3, OwnedAlt DEF Attended
<1> QED BY <1>2, <1>3, OwnedAltNext

\* Only the record and the probes move.
LEMMA RecordKeepsOwners ==
  ASSUME Owned, UNCHANGED <<pc, item, batch>>, route'.probe = route.probe,
         \A i \in route'.halfOpens :
            \/ probes'[i] > 0
            \/ i \in route.halfOpens /\ (probes[i] > 0 => probes'[i] > 0)
  PROVE  Owned'
<1>1. CandidateOwned'
  BY DEF Owned, CandidateOwned
<1>2. HalfOpenOwned'
  BY DEF Owned, HalfOpenOwned
<1> QED BY <1>1, <1>2 DEF Owned

\* Whatever selection claims or nominates has the request or a goroutine as owner.
LEMMA SelectOwned ==
  ASSUME TypeOK, Owned, NEW r \in Requests, Select(r), OthersStay(r)
  PROVE  Owned'
<1>0. route \in Route /\ route.halfOpens \subseteq Items /\ route.probe \in Items \cup {NoItem}
  BY DEF TypeOK, Route
<1>1. ASSUME \/ PickBehindCandidate(r) \/ PickAffine(r) \/ PickNothing(r)
             \/ TakeEmergency(r) \/ NoEmergency(r) \/ SeeAllCooling(r)
             \/ ClearCooldowns(r) \/ WaitForMember(r)
      PROVE  Owned'
  <2>1. pc[r] \notin {"batch", "round"} /\ probes' = probes
    BY <1>1 DEF PickBehindCandidate, PickAffine, PickNothing, Scans, Pick,
       TakeEmergency, NoEmergency, SeeAllCooling, ClearCooldowns, WaitForMember
  <2>2. route'.halfOpens = route.halfOpens /\ route'.probe = route.probe
    BY <1>0, <1>1 DEF PickBehindCandidate, PickAffine, PickNothing, TakeEmergency,
       NoEmergency, SeeAllCooling, ClearCooldowns, WaitForMember, ClaimEmergency,
       ResetCooldown, Route
  <2> QED BY <2>1, <2>2, BystanderKeepsOwners
<1>2. CASE PickClosed(r)
  <2>1. PICK i \in FirstOf(ClosedItems(route, exclude[r], enabled), Rank[r]) :
        LET passed  == Before(ExpiredItems(route, exclude[r], enabled), i, Rank[r])
            claimed == {j \in passed : CanClaim(route, j)}
        IN  /\ route' = [Claim(route, claimed) EXCEPT !.current = i]
            /\ StartProbes(claimed)
            /\ StartRound(r, i, "closed")
    BY <1>2 DEF PickClosed
  <2> DEFINE passed  == Before(ExpiredItems(route, exclude[r], enabled), i, Rank[r])
             claimed == {j \in passed : CanClaim(route, j)}
  <2>2. pc[r] = "loop" /\ route.probe = NoItem
    BY <1>2 DEF PickClosed, Scans, Pick
  <2>3. claimed \in SUBSET Items
    BY DEF Before, ExpiredItems, TypeOK
  <2>4. /\ route' = [Claim(route, claimed) EXCEPT !.current = i]
        /\ StartProbes(claimed)
    BY <2>1
  <2> HIDE DEF claimed
  <2>5. route'.probe = NoItem /\ route'.halfOpens = route.halfOpens \cup claimed
    BY <1>0, <2>2, <2>4 DEF Claim, Route
  <2>6. ASSUME NEW j \in route'.halfOpens
        PROVE  Attended(j)'
    <3>1. j \in Items
      BY <1>0, <2>3, <2>5
    <3>2. probes[j] \in Nat /\ probes'[j] = probes[j] + IF j \in claimed THEN 1 ELSE 0
      BY <2>4, <3>1 DEF StartProbes, TypeOK
    <3>3. CASE j \in claimed \/ probes[j] > 0
      BY <3>2, <3>3 DEF Attended
    <3>4. CASE j \notin claimed /\ ~(probes[j] > 0)
      <4>1. PICK q \in Requests : Recovers(q, j) \/ Confirms(q, j)
        BY <2>5, <3>4, OwnedAlt DEF Attended
      <4>2. q # r
        BY <2>2, <4>1 DEF Confirms, Recovers
      <4> QED BY <3>1, <4>1, <4>2, OthersOwn DEF Attended
    <3> QED BY <3>3, <3>4
  <2> QED BY <2>5, <2>6, OwnedAltNext
<1>3. CASE PickRecovery(r)
  <2> DEFINE expired == ExpiredItems(route, exclude[r], enabled)
             claimed == {j \in expired : CanClaim(route, j)}
  <2>1. /\ pc[r] = "loop" /\ route.probe = NoItem /\ probes' = probes
        /\ route' = Claim(route, claimed)
        /\ batch' = [batch EXCEPT ![r] = expired]
        /\ pc' = [pc EXCEPT ![r] = "batch"]
    BY <1>3 DEF PickRecovery, Scans, Pick, Goto
  <2>2. pc'[r] = "batch" /\ batch'[r] = expired
    BY <2>1 DEF TypeOK
  <2>3. claimed \subseteq expired /\ expired \subseteq Items
    BY DEF ExpiredItems, TypeOK
  <2> HIDE DEF claimed, expired
  <2>4. route'.probe = NoItem /\ route'.halfOpens = route.halfOpens \cup claimed
    BY <1>0, <2>1 DEF Claim, Route
  <2>5. ASSUME NEW j \in route'.halfOpens
        PROVE  Attended(j)'
    <3>1. CASE j \in claimed
      BY <2>2, <2>3, <3>1 DEF Attended, Recovers
    <3>2. CASE j \in route.halfOpens /\ probes[j] > 0
      BY <2>1, <3>2 DEF Attended
    <3>3. CASE j \in route.halfOpens /\ ~(probes[j] > 0)
      <4>1. PICK q \in Requests : Recovers(q, j) \/ Confirms(q, j)
        BY <3>3, OwnedAlt DEF Attended
      <4>2. q # r
        BY <2>1, <4>1 DEF Confirms, Recovers
      <4> QED BY <1>0, <3>3, <4>1, <4>2, OthersOwn DEF Attended
    <3> QED BY <2>4, <3>1, <3>2, <3>3
  <2> QED BY <2>4, <2>5, OwnedAltNext
<1>4. CASE RecoveryWon(r)
  <2>1. PICK winner \in batch[r] : /\ route' = Nominate(route, batch[r], winner)
                                   /\ StartRound(r, winner, "candidate")
    BY <1>4 DEF RecoveryWon
  <2>2. pc[r] = "batch" /\ probes' = probes /\ batch[r] \subseteq Items
    BY <1>4 DEF RecoveryWon, TypeOK
  <2>3. Confirms(r, winner)'
    BY <2>1 DEF StartRound, Goto, Confirms, TypeOK
  <2>4. /\ route'.probe = winner
        /\ route'.halfOpens = route.halfOpens \ (batch[r] \ {winner})
    BY <1>0, <2>1 DEF Nominate, Route
  <2>5. ASSUME NEW j \in route'.halfOpens
        PROVE  Attended(j)'
    <3>1. CASE j = winner
      BY <2>3, <3>1 DEF Attended
    <3>2. CASE probes[j] > 0
      BY <2>2, <3>2 DEF Attended
    <3>3. CASE j # winner /\ ~(probes[j] > 0)
      <4>1. j \in route.halfOpens /\ j \notin batch[r] /\ j \in Items
        BY <1>0, <2>4, <3>3
      <4>2. PICK q \in Requests : Recovers(q, j) \/ Confirms(q, j)
        BY <3>3, <4>1, OwnedAlt DEF Attended
      <4>3. q # r
        BY <2>2, <4>1, <4>2 DEF Confirms, Recovers
      <4> QED BY <4>1, <4>2, <4>3, OthersOwn DEF Attended
    <3> QED BY <3>1, <3>2, <3>3
  <2>6. \E q \in Requests : Confirms(q, route.probe)'
    BY <2>3, <2>4 DEF Confirms
  <2> QED BY <2>5, <2>6, OwnedAltNext
<1>5. CASE RecoveryLost(r)
  <2>1. pc[r] = "batch" /\ probes' = probes /\ route' = ReopenItems(route, batch[r])
    BY <1>5 DEF RecoveryLost
  <2>2. route'.probe = route.probe /\ route'.halfOpens = route.halfOpens \ batch[r]
    BY <1>0, <2>1 DEF ReopenItems, Route
  <2>3. ASSUME route'.probe # NoItem
        PROVE  \E q \in Requests : Confirms(q, route.probe)'
    <3>1. PICK q \in Requests : Confirms(q, route.probe)
      BY <2>2, <2>3, OwnedAlt
    <3>2. q # r
      BY <2>1, <3>1 DEF Confirms
    <3>3. pc'[q] = pc[q] /\ item'[q] = item[q]
      BY <3>2 DEF OthersStay
    <3> QED BY <2>2, <3>1, <3>3 DEF Confirms
  <2>4. ASSUME NEW j \in route'.halfOpens
        PROVE  Attended(j)'
    <3>1. CASE probes[j] > 0
      BY <2>1, <3>1 DEF Attended
    <3>2. CASE ~(probes[j] > 0)
      <4>1. PICK q \in Requests : Recovers(q, j) \/ Confirms(q, j)
        BY <2>2, <3>2, OwnedAlt DEF Attended
      <4>2. q # r
        BY <2>1, <2>2, <4>1 DEF Confirms, Recovers
      <4> QED BY <1>0, <2>2, <4>1, <4>2, OthersOwn DEF Attended
    <3> QED BY <3>1, <3>2
  <2> QED BY <2>3, <2>4, OwnedAltNext
<1> QED BY <1>1, <1>2, <1>3, <1>4, <1>5 DEF Select

\* A round that concludes gives up what it owned.
LEMMA ConcludeOwned ==
  ASSUME TypeOK, Owned, NEW r \in Requests, Conclude(r), OthersStay(r)
  PROVE  Owned'
<1>1. pc[r] = "round" /\ probes' = probes
  BY DEF Conclude, RetryRound, AbandonRound, CancelRound, Refused, FailRound,
         SucceedRound, InRound
<1>2. item[r] \in Items /\ route \in Route
  BY <1>1, RoundOnMember DEF TypeOK
<1>3. CASE RetryRound(r) \/ AbandonRound(r) \/ CancelRound(r)
  BY <1>1, <1>2, <1>3, ReleaseProbeSettles, SettledKeepsOwners
  DEF RetryRound, AbandonRound, CancelRound
<1>4. ASSUME NEW kind \in ErrorKinds, Refused(r, kind) \/ FailRound(r, kind)
      PROVE  Owned'
  <2> DEFINE reached == Reaches(r, kind)
  <2>1. reached \in BOOLEAN /\ route' = RecordFailure(route, item[r], reached)
    BY <1>4 DEF Refused, FailRound, Reaches
  <2> HIDE DEF reached
  <2>2. Settled(route, item[r], route')
    BY <1>2, <2>1, RecordFailureSettles
  <2> QED BY <1>1, <2>2, SettledKeepsOwners
<1>5. ASSUME NEW place \in {"stream", "done"}, SucceedRound(r, place)
      PROVE  Owned'
  BY <1>1, <1>2, <1>5, RecordSuccessSettles, SettledKeepsOwners DEF SucceedRound
<1> QED BY <1>3, <1>4, <1>5 DEF Conclude

\* A forwarded stream owns nothing and leaves every owner in place.
LEMMA DeliverOwned ==
  ASSUME TypeOK, Owned, NEW r \in Requests, GiveUp(r) \/ Deliver(r), OthersStay(r)
  PROVE  Owned'
<1>1. pc[r] \in {"loop", "stream"} /\ probes' = probes
  BY DEF GiveUp, Deliver, EndStream, FailStream, StopStream, InStream
<1>2. pc[r] = "stream" => item[r] \in Items
  BY RoundOnMember
<1>3. /\ route'.halfOpens \subseteq route.halfOpens
      /\ route'.probe \in {route.probe, NoItem}
  BY <1>2, PostCommitFailureKeeps, ReleaseProbeSettles
  DEF GiveUp, Deliver, EndStream, FailStream, StopStream, InStream, Settled, TypeOK
<1> QED BY <1>1, <1>3, BystanderKeepsOwners

\* A panicking handler gives up what it owned.
LEMMA PanicOwned ==
  ASSUME TypeOK, Owned, NEW r \in Requests, Panic(r), OthersStay(r)
  PROVE  Owned'
<1>1. /\ pc[r] \in {"round", "stream"} /\ probes' = probes
      /\ item[r] \in Items
      /\ Settled(route, item[r], route')
  BY RoundOnMember, ReleaseHoldSettles DEF Panic, TypeOK
<1> QED BY <1>1, SettledKeepsOwners, BystanderKeepsOwners DEF Settled

\* A probe goroutine that concludes gives up its claim.
LEMMA ProbeOwned ==
  ASSUME TypeOK, Owned, NEW i \in Items, NEW succeeded \in BOOLEAN,
         ProbeConcludes(i, succeeded)
  PROVE  Owned'
<1>1. UNCHANGED <<pc, item, batch>> /\ probes' = [probes EXCEPT ![i] = @ - 1]
  BY DEF ProbeConcludes, local
<1>2. route'.probe = route.probe /\ route'.halfOpens = route.halfOpens \ {i}
  BY DEF ProbeConcludes, RestoreItem, ReopenItems, TypeOK, Route
<1>3. \A j \in route'.halfOpens : j \in route.halfOpens /\ probes'[j] = probes[j]
  BY <1>1, <1>2 DEF TypeOK, Route
<1> QED BY <1>1, <1>2, <1>3, RecordKeepsOwners

\* The background task, the administrator and time orphan nothing.
LEMMA EnvironmentOwned ==
  ASSUME TypeOK, Owned, Environment
  PROVE  Owned'
<1>1. UNCHANGED <<pc, item, batch>>
  BY DEF Environment, ProbeExpiredItems, ResetGroupCooldown, AffinityExpires,
     EmergencyBlockExpires, ToggleChannel, CooldownExpires, local
<1>2. CASE ProbeExpiredItems
  <2> DEFINE claimed == {i \in Items : CanClaim(route, i)}
  <2>1. route' = Claim(route, claimed) /\ StartProbes(claimed)
    BY <1>2 DEF ProbeExpiredItems
  <2> HIDE DEF claimed
  <2>2. route'.probe = route.probe /\ route'.halfOpens = route.halfOpens \cup claimed
    BY <2>1 DEF Claim, TypeOK, Route
  <2>3. ASSUME NEW j \in route'.halfOpens
        PROVE  \/ probes'[j] > 0
               \/ j \in route.halfOpens /\ (probes[j] > 0 => probes'[j] > 0)
    <3>1. j \in Items
      BY <1>2, EnvironmentType DEF TypeOK, Route
    <3>2. probes[j] \in Nat /\ probes'[j] = probes[j] + IF j \in claimed THEN 1 ELSE 0
      BY <2>1, <3>1 DEF StartProbes, TypeOK
    <3> QED BY <2>2, <3>2
  <2> QED BY <1>1, <2>2, <2>3, RecordKeepsOwners
<1>3. CASE ~ProbeExpiredItems
  <2>1. probes' = probes
    BY <1>3 DEF Environment, ResetGroupCooldown, AffinityExpires,
       EmergencyBlockExpires, ToggleChannel, CooldownExpires
  <2>2. route'.probe = route.probe /\ route'.halfOpens = route.halfOpens
    <3>0. route \in Route
      BY DEF TypeOK
    <3>1. CASE ResetGroupCooldown
      BY <3>0, <3>1 DEF ResetGroupCooldown, ResetCooldown, Route
    <3>2. CASE AffinityExpires \/ EmergencyBlockExpires
      BY <3>0, <3>2 DEF AffinityExpires, EmergencyBlockExpires, Route
    <3>3. ASSUME NEW i \in Items, ToggleChannel(i) \/ CooldownExpires(i)
          PROVE  route'.probe = route.probe /\ route'.halfOpens = route.halfOpens
      BY <3>0, <3>3 DEF ToggleChannel, CooldownExpires, Route
    <3> QED BY <1>3, <3>1, <3>2, <3>3 DEF Environment
  <2> QED BY <1>1, <2>1, <2>2, RecordKeepsOwners
<1> QED BY <1>2, <1>3

\* Ownership is inductive relative to the type.
LEMMA NextOwned == TypeOK /\ Owned /\ [Next]_vars => Owned'
<1> SUFFICES ASSUME TypeOK, Owned, [Next]_vars
             PROVE  Owned'
  OBVIOUS
<1>1. ASSUME NEW r \in Requests, Request(r)
      PROVE  Owned'
  BY <1>1, RequestOthersStay, SelectOwned, ConcludeOwned, DeliverOwned, PanicOwned
  DEF Request
<1>2. ASSUME NEW i \in Items, Probe(i)
      PROVE  Owned'
  BY <1>2, ProbeOwned DEF Probe
<1>3. CASE Environment
  BY <1>3, EnvironmentOwned
<1>4. CASE UNCHANGED vars
  BY <1>4 DEF vars, local, Owned, CandidateOwned, HalfOpenOwned
<1> QED BY <1>1, <1>2, <1>3, <1>4 DEF Next, Terminated

\* Nothing is owned, and nothing needs to be, in the initial states.
LEMMA InitOwned == Init => Owned
  BY DEF Init, NewRoute, Owned, CandidateOwned, HalfOpenOwned

\* Candidates and members in HALF_OPEN always have an owner.
LEMMA OwnedAlways == Spec => []Owned
<1> QED BY InitOwned, NextOwned, TypeCorrect, PTL DEF Spec

\* While ProbeItemID is set some request is in the round that confirms,
\* rejects or releases that candidate: pickGroupItem never turns late
\* requests away on behalf of nobody.
THEOREM CandidateAlwaysOwned == Spec => []CandidateOwned
<1>1. Owned => CandidateOwned
  BY DEF Owned
<1> QED BY <1>1, OwnedAlways, PTL

\* A member marked HALF_OPEN is being probed by a goroutine or a recovery
\* batch, or a round is on it: no claim is ever left behind.
THEOREM HalfOpenAlwaysOwned == Spec => []HalfOpenOwned
<1>1. Owned => HalfOpenOwned
  BY DEF Owned
<1> QED BY <1>1, OwnedAlways, PTL

-----------------------------------------------------------------------------
(* The affinity and the levels, through every step of the record.          *)

\* A request's steps keep both.
LEMMA RequestSound ==
  ASSUME TypeOK, NEW r \in Requests, Request(r)
  PROVE  Sound(route, route')
<1> USE DEF TypeOK
<1>1. route \in Route /\ Sound(route, route)
  BY ElsewhereSound
<1>2. CASE GiveUp(r) \/ EndStream(r)
  BY <1>1, <1>2 DEF GiveUp, EndStream
<1>3. CASE PickBehindCandidate(r) \/ PickAffine(r) \/ PickNothing(r) \/ NoEmergency(r)
           \/ SeeAllCooling(r) \/ WaitForMember(r)
  BY <1>1, <1>3 DEF PickBehindCandidate, PickAffine, PickNothing, NoEmergency, SeeAllCooling,
     WaitForMember
<1>4. CASE PickClosed(r)
  <2> PICK i \in FirstOf(ClosedItems(route, exclude[r], enabled), Rank[r]) :
        LET passed  == Before(ExpiredItems(route, exclude[r], enabled), i, Rank[r])
            claimed == {j \in passed : CanClaim(route, j)}
        IN  route' = [Claim(route, claimed) EXCEPT !.current = i]
    BY <1>4 DEF PickClosed
  <2> DEFINE claimed == {j \in Before(ExpiredItems(route, exclude[r], enabled), i, Rank[r]) :
                            CanClaim(route, j)}
  <2>1. i \in Items
    BY DEF FirstOf, ClosedItems
  <2>2. route' = [Claim(route, claimed) EXCEPT !.current = i]
    OBVIOUS
  <2> HIDE DEF claimed
  <2>3. route'.levels = route.levels /\ route'.current = i
    BY <1>1, <2>2 DEF Claim, Route
  <2>4. Anchored(route')
    BY <2>1, <2>3, NoItemAssumption DEF Anchored
  <2> QED BY <1>1, <2>3, <2>4, ElsewhereSound
<1>5. CASE PickRecovery(r)
  <2> DEFINE claimed == {j \in ExpiredItems(route, exclude[r], enabled) : CanClaim(route, j)}
  <2>1. claimed \in SUBSET Items
    BY DEF ExpiredItems
  <2>2. route' = Claim(route, claimed)
    BY <1>5 DEF PickRecovery
  <2> HIDE DEF claimed
  <2>3. route'.levels = route.levels /\ (Anchored(route) => Anchored(route'))
    BY <1>1, <2>2 DEF Claim, Route, Anchored
  <2> QED BY <1>1, <2>3, ElsewhereSound
<1>6. CASE RecoveryWon(r)
  <2>1. PICK winner \in batch[r] : route' = Nominate(route, batch[r], winner)
    BY <1>6 DEF RecoveryWon
  <2> QED BY <1>1, <2>1, HoldsSound
<1>7. CASE RecoveryLost(r)
  <2>1. batch[r] \in SUBSET Items
    OBVIOUS
  <2> QED BY <1>1, <1>7, <2>1, ReopenSound DEF RecoveryLost
<1>8. CASE TakeEmergency(r)
  <2>1. route'.levels = route.levels /\ (Anchored(route) => Anchored(route'))
    BY <1>1, <1>8 DEF TakeEmergency, ClaimEmergency, Route, Anchored
  <2> QED BY <1>1, <2>1, ElsewhereSound
<1>9. CASE ClearCooldowns(r)
  BY <1>1, <1>9, ResetSound DEF ClearCooldowns
<1>10. CASE Conclude(r) \/ FailStream(r) \/ StopStream(r) \/ Panic(r)
  <2>1. pc[r] \in {"round", "stream"}
    BY <1>10 DEF Conclude, RetryRound, AbandonRound, CancelRound, FailRound, Refused,
       SucceedRound, InRound, FailStream, StopStream, InStream, Panic
  <2>2. item[r] \in Items
    BY <2>1, RoundOnMember
  <2>3. ASSUME NEW kind \in ErrorKinds, FailRound(r, kind) \/ Refused(r, kind)
        PROVE  \E reached \in BOOLEAN : route' = RecordFailure(route, item[r], reached)
    <3>1. Reaches(r, kind) \in BOOLEAN
      BY DEF Reaches
    <3>2. route' = RecordFailure(route, item[r], Reaches(r, kind))
      BY <2>3 DEF FailRound, Refused
    <3> QED BY <3>1, <3>2
  <2>4. \/ route' \in {ReleaseProbe(route, item[r]), RecordSuccess(route, item[r]),
                       RecordPostCommitFailure(route, item[r]), ReleaseHold(route, item[r])}
        \/ \E reached \in BOOLEAN : route' = RecordFailure(route, item[r], reached)
    BY <1>10, <2>3 DEF Conclude, RetryRound, AbandonRound, CancelRound, SucceedRound,
       FailStream, StopStream, Panic
  <2>5. CASE route' \in {ReleaseProbe(route, item[r]), ReleaseHold(route, item[r])}
    <3>1. Sound(route, ReleaseProbe(route, item[r])) /\ Sound(route, ReleaseHold(route, item[r]))
      BY <1>1, <2>2, HoldsSound
    <3> QED BY <2>5, <3>1
  <2>6. CASE route' = RecordSuccess(route, item[r])
    BY <1>1, <2>2, <2>6, RecordSuccessSound
  <2>7. CASE route' = RecordPostCommitFailure(route, item[r])
    BY <1>1, <2>2, <2>7, PostCommitFailureSound
  <2>8. CASE \E reached \in BOOLEAN : route' = RecordFailure(route, item[r], reached)
    BY <1>1, <2>2, <2>8, RecordFailureSound
  <2> QED BY <2>4, <2>5, <2>6, <2>7, <2>8
<1> QED BY <1>2, <1>3, <1>4, <1>5, <1>6, <1>7, <1>8, <1>9, <1>10
        DEF Request, Select, Deliver

\* So do probes, the background task, the administrator and time.
LEMMA NextSound == TypeOK /\ [Next]_vars => Sound(route, route')
<1> SUFFICES ASSUME TypeOK, [Next]_vars
             PROVE  Sound(route, route')
  OBVIOUS
<1>1. route \in Route /\ \A i \in Items : Sound(route, route)
  BY ElsewhereSound DEF TypeOK
<1>2. ASSUME NEW r \in Requests, Request(r)
      PROVE  Sound(route, route')
  BY <1>2, RequestSound
<1>3. ASSUME NEW i \in Items, Probe(i)
      PROVE  Sound(route, route')
  <2>1. route' \in {route, RestoreItem(route, i), ReopenItems(route, {i})}
    BY <1>3 DEF Probe, ProbeConcludes
  <2> QED BY <1>1, <2>1, RestoreSound, ReopenSound, ElsewhereSound
<1>4. CASE ProbeExpiredItems
  <2>1. route'.levels = route.levels /\ (Anchored(route) => Anchored(route'))
    BY <1>1, <1>4 DEF ProbeExpiredItems, Claim, Route, Anchored
  <2> QED BY <1>1, <2>1, ElsewhereSound
<1>5. CASE ResetGroupCooldown
  BY <1>1, <1>5, ResetSound DEF ResetGroupCooldown
<1>6. CASE AffinityExpires \/ EmergencyBlockExpires
           \/ \E i \in Items : ToggleChannel(i) \/ CooldownExpires(i)
  <2>1. route'.levels = route.levels /\ (Anchored(route) => Anchored(route'))
    BY <1>1, <1>6 DEF AffinityExpires, EmergencyBlockExpires, ToggleChannel, CooldownExpires,
       Route, Anchored
  <2> QED BY <1>1, <2>1, ElsewhereSound
<1>7. CASE UNCHANGED vars
  BY <1>1, <1>7, ElsewhereSound DEF vars
<1> QED BY <1>2, <1>3, <1>4, <1>5, <1>6, <1>7 DEF Next, Environment, Terminated

\* Whatever gives up the current member ends its affinity: a group never
\* keeps its requests on nobody (recordRouteFailureWithLimit, route.go:475).
THEOREM AffinityAlwaysAnchored == Spec => []AffinityHasCurrent
<1>1. Init => AffinityHasCurrent
  BY DEF Init, NewRoute, AffinityHasCurrent
<1>2. TypeOK /\ AffinityHasCurrent /\ [Next]_vars => AffinityHasCurrent'
  BY NextSound DEF Sound, Anchored, AffinityHasCurrent
<1> QED BY <1>1, <1>2, TypeCorrect, PTL DEF Spec

\* No interleaving of reports lowers the backoff of a member and leaves the
\* member OPEN.
THEOREM LevelFallsWithCooldown == Spec => LevelFallsOnlyOnRestore
<1>1. TypeOK /\ [Next]_vars =>
        [\A i \in Items : route'.levels[i] < route.levels[i] =>
            route'.levels[i] = 0 /\ route'.cooldowns[i] = "none"]_vars
  BY NextSound DEF Sound, LevelsKept
<1> QED BY <1>1, TypeCorrect, PTL DEF Spec, LevelFallsOnlyOnRestore
=============================================================================
