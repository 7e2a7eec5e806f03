----------------------------- MODULE GroupRoute -----------------------------
(***************************************************************************)
(* The failover loop of one group (internal/relay/handler.go) over the     *)
(* routing record all its requests share (route.go, prober.go): requests   *)
(* select a member, send the round upstream with the mutex released, and   *)
(* report back; probe goroutines and the administrator change the same     *)
(* record in between.  An action is one critical section of routeMu with   *)
(* the local steps that follow it, up to the next one.                     *)
(*                                                                         *)
(* A request starts once and makes at most MaxRounds rounds.  What it      *)
(* meets upstream is a free choice among the outcomes the loop tells       *)
(* apart.                                                                  *)
(***************************************************************************)
EXTENDS RouteState

CONSTANTS
    Requests,       \* concurrent requests for the group
    Rank,           \* the scan order of each request over the members
    Threshold,      \* failures that trip a member, by error type
    MaxRounds,      \* maxRequestRounds
    BackgroundProbe,\* RelayConfig.BackgroundProbeEnabled
    CooldownClear,  \* AllCooldownRetryBaseSeconds > 0
    AdminReset,     \* whether the administrator may clear cooldowns
    AdminToggle     \* whether channels may be disabled and enabled

ErrorKinds == {"business", "infra"}

ASSUME RankAssumption == Rank \in [Requests -> [Items -> Nat]]
ASSUME ThresholdAssumption == Threshold \in [ErrorKinds -> Nat \ {0}]
ASSUME RoundsAssumption == MaxRounds \in Nat \ {0}
ASSUME ConfigAssumption ==
    /\ BackgroundProbe \in BOOLEAN
    /\ CooldownClear \in BOOLEAN
    /\ AdminReset \in BOOLEAN
    /\ AdminToggle \in BOOLEAN

VARIABLES
    route,    \* routes[group.ID]
    enabled,  \* the members whose channel is enabled
    probes,   \* probe goroutines running on each member
    pc,       \* where a request is in the loop
    item,     \* the member of its round
    via,      \* how the member was obtained
    batch,    \* the members it is recovering
    exclude,  \* the member it has given up
    rounds,   \* rounds it has consumed
    failures, \* failureCounts, by error type and member, up to the threshold
    refused   \* nonRetryable: members that answered 400, 404 or 422

vars == <<route, enabled, probes, pc, item, via, batch, exclude, rounds,
          failures, refused>>
local == <<item, via, batch, exclude, rounds, failures, refused>>

Places == {"loop", "batch", "emergency", "empty", "clear", "round", "stream",
           "done", "panicked"}
Origins == {"none", "closed", "candidate", "emergency"}

NoFailures == [k \in ErrorKinds |-> [i \in Items |-> 0]]

TypeOK ==
    /\ route \in Route
    /\ enabled \subseteq Items
    /\ probes \in [Items -> Nat]
    /\ pc \in [Requests -> Places]
    /\ item \in [Requests -> Items \cup {NoItem}]
    /\ via \in [Requests -> Origins]
    /\ batch \in [Requests -> SUBSET Items]
    /\ exclude \in [Requests -> Items \cup {NoItem}]
    /\ rounds \in [Requests -> 0 .. MaxRounds]
    /\ failures \in [Requests -> [ErrorKinds -> [Items -> Nat]]]
    /\ refused \in [Requests -> SUBSET Items]
    /\ \A r \in Requests : pc[r] \in {"round", "stream"} => item[r] # NoItem

Init ==
    /\ route = NewRoute
    /\ enabled = Items
    /\ probes = [i \in Items |-> 0]
    /\ pc = [r \in Requests |-> "loop"]
    /\ item = [r \in Requests |-> NoItem]
    /\ via = [r \in Requests |-> "none"]
    /\ batch = [r \in Requests |-> {}]
    /\ exclude = [r \in Requests |-> NoItem]
    /\ rounds = [r \in Requests |-> 0]
    /\ failures = [r \in Requests |-> NoFailures]
    /\ refused = [r \in Requests |-> {}]

-----------------------------------------------------------------------------
(* Moves of a request through its loop.                                    *)

Goto(r, place) == pc' = [pc EXCEPT ![r] = place]

StartProbes(S) == probes' = [i \in Items |-> probes[i] + IF i \in S THEN 1 ELSE 0]

\* The round starts on member i.
StartRound(r, i, origin) ==
    /\ Goto(r, "round")
    /\ item' = [item EXCEPT ![r] = i]
    /\ via' = [via EXCEPT ![r] = origin]

\* The round is over: the request returns to the loop, or ends, and its
\* locals for the round are dead.
EndRound(r, place) ==
    /\ Goto(r, place)
    /\ item' = [item EXCEPT ![r] = NoItem]
    /\ via' = [via EXCEPT ![r] = "none"]

\* A finished request never reads its locals again.
Forget(r) ==
    /\ batch' = [batch EXCEPT ![r] = {}]
    /\ exclude' = [exclude EXCEPT ![r] = NoItem]
    /\ rounds' = [rounds EXCEPT ![r] = 0]
    /\ failures' = [failures EXCEPT ![r] = NoFailures]
    /\ refused' = [refused EXCEPT ![r] = {}]

Finish(r, place) == EndRound(r, place) /\ Forget(r)

-----------------------------------------------------------------------------
(* Top of the loop and pickGroupItem.                                      *)

\* The client is gone, the request was stopped, the rounds are used up or
\* the wait between two rounds was cut short.
GiveUp(r) ==
    /\ pc[r] = "loop"
    /\ Finish(r, "done")
    /\ UNCHANGED <<route, enabled, probes>>

\* Mutated: the pass through the loop is not counted.
PickUncounted(r) ==
    /\ pc[r] = "loop"
    /\ rounds[r] < MaxRounds
    /\ UNCHANGED <<enabled, exclude, rounds, failures, refused>>

Pick(r) ==
    /\ pc[r] = "loop"
    /\ rounds[r] < MaxRounds
    /\ rounds' = [rounds EXCEPT ![r] = @ + 1]
    /\ UNCHANGED <<enabled, exclude, failures, refused>>

\* A candidate awaits its confirmation: late requests get no member.
PickBehindCandidate(r) ==
    /\ Pick(r)
    /\ route.probe # NoItem
    /\ Goto(r, "empty")
    /\ UNCHANGED <<route, probes, item, via, batch>>

PickAffine(r) ==
    LET i == AffineItem(route, exclude[r], enabled)
    IN  /\ Pick(r)
        /\ route.probe = NoItem
        /\ i # NoItem
        /\ StartRound(r, i, "closed")
        /\ UNCHANGED <<route, probes, batch>>

Scans(r) ==
    /\ Pick(r)
    /\ route.probe = NoItem
    /\ AffineItem(route, exclude[r], enabled) = NoItem

\* The first CLOSED member serves; the expired ones passed over on the way
\* are each claimed for a probe goroutine.
PickClosed(r) ==
    /\ Scans(r)
    /\ \E i \in FirstOf(ClosedItems(route, exclude[r], enabled), Rank[r]) :
        LET passed  == Before(ExpiredItems(route, exclude[r], enabled), i, Rank[r])
            claimed == {j \in passed : CanClaim(route, j)}
        IN  /\ route' = [Claim(route, claimed) EXCEPT !.current = i]
            /\ StartProbes(claimed)
            /\ StartRound(r, i, "closed")
    /\ UNCHANGED batch

\* No CLOSED member but expired ones: the request probes them all itself.
PickRecovery(r) ==
    LET expired == ExpiredItems(route, exclude[r], enabled)
    IN  /\ Scans(r)
        /\ ClosedItems(route, exclude[r], enabled) = {}
        /\ expired # {}
        /\ route' = Claim(route, {j \in expired : CanClaim(route, j)})
        /\ batch' = [batch EXCEPT ![r] = expired]
        /\ Goto(r, "batch")
        /\ UNCHANGED <<probes, item, via>>

PickNothing(r) ==
    /\ Scans(r)
    /\ ClosedItems(route, exclude[r], enabled) = {}
    /\ ExpiredItems(route, exclude[r], enabled) = {}
    /\ Goto(r, "emergency")
    /\ UNCHANGED <<route, probes, item, via, batch>>

\* recoverExpiredItems: the first probe to succeed makes its member the
\* candidate, which this request goes on to confirm.
RecoveryWon(r) ==
    /\ pc[r] = "batch"
    /\ \E winner \in batch[r] :
        /\ route' = Nominate(route, batch[r], winner)
        /\ StartRound(r, winner, "candidate")
    /\ batch' = [batch EXCEPT ![r] = {}]
    /\ UNCHANGED <<enabled, probes, exclude, rounds, failures, refused>>

RecoveryLost(r) ==
    /\ pc[r] = "batch"
    /\ route' = ReopenItems(route, batch[r])
    /\ batch' = [batch EXCEPT ![r] = {}]
    /\ Goto(r, "emergency")
    /\ UNCHANGED <<enabled, probes, item, via, exclude, rounds, failures, refused>>

\* claimEmergencyItem takes the mutex anew.
TakeEmergency(r) ==
    /\ pc[r] = "emergency"
    /\ CanClaimEmergency(route, exclude[r], enabled)
    /\ route' = ClaimEmergency(route)
    /\ StartRound(r, EmergencyItem, "emergency")
    /\ UNCHANGED <<enabled, probes, batch, exclude, rounds, failures, refused>>

NoEmergency(r) ==
    /\ pc[r] = "emergency"
    /\ ~CanClaimEmergency(route, exclude[r], enabled)
    /\ Goto(r, "empty")
    /\ UNCHANGED <<route, enabled, probes, local>>

-----------------------------------------------------------------------------
(* No member was selected.                                                 *)

\* allMembersInCooldown is read in one critical section, the cooldowns are
\* cleared in another.
SeeAllCooling(r) ==
    /\ pc[r] = "empty"
    /\ CooldownClear /\ AllMembersInCooldown(route, enabled)
    /\ Goto(r, "clear")
    /\ UNCHANGED <<route, enabled, probes, local>>

ClearCooldowns(r) ==
    /\ pc[r] = "clear"
    /\ route' = ResetCooldown(route)
    /\ Goto(r, "loop")
    /\ UNCHANGED <<enabled, probes, local>>

WaitForMember(r) ==
    /\ pc[r] = "empty"
    /\ ~(CooldownClear /\ AllMembersInCooldown(route, enabled))
    /\ exclude' = [exclude EXCEPT ![r] = NoItem]
    /\ Goto(r, "loop")
    /\ UNCHANGED <<route, enabled, probes, item, via, batch, rounds, failures,
                   refused>>

-----------------------------------------------------------------------------
(* Outcomes of a round, before anything was committed to the client.       *)

InRound(r) == pc[r] = "round" /\ UNCHANGED <<enabled, probes>>

\* Retried without a conclusion: interrupted by the administrator, early
\* EOF, cleaned request body, or another key of the same member.
RetryRound(r) ==
    /\ InRound(r)
    /\ route' = ReleaseProbe(route, item[r])
    /\ EndRound(r, "loop")
    /\ UNCHANGED <<batch, exclude, rounds, failures, refused>>

\* The channel was deleted or disabled since the member was selected.
AbandonRound(r) ==
    /\ InRound(r)
    /\ route' = ReleaseProbe(route, item[r])
    /\ exclude' = [exclude EXCEPT ![r] = NoItem]
    /\ EndRound(r, "loop")
    /\ UNCHANGED <<batch, rounds, failures, refused>>

CancelRound(r) ==
    /\ InRound(r)
    /\ route' = ReleaseProbe(route, item[r])
    /\ Finish(r, "done")

\* recordRouteFailureIfReal counts the failure by its type.  A count that has
\* met its threshold meets it with every further failure: it stays there.
Reaches(r, kind) == failures[r][kind][item[r]] + 1 >= Threshold[kind]

CountFailure(r, kind) ==
    failures' = [failures EXCEPT ![r][kind][item[r]] =
                    IF Reaches(r, kind) THEN @ ELSE @ + 1]

FailRound(r, kind) ==
    LET i    == item[r]
        next == IF MustReselect(route, i, Reaches(r, kind)) THEN i ELSE NoItem
    IN  /\ InRound(r)
        /\ route' = RecordFailure(route, i, Reaches(r, kind))
        /\ CountFailure(r, kind)
        /\ exclude' = [exclude EXCEPT ![r] = next]
        /\ EndRound(r, "loop")
        /\ UNCHANGED <<batch, rounds, refused>>

\* A 400, 404 or 422: the member is given up, and once every member has
\* refused so does the request end.  Its type depends on the error's text.
Refused(r, kind) ==
    LET i == item[r]
    IN  /\ InRound(r)
        /\ route' = RecordFailure(route, i, Reaches(r, kind))
        /\ IF Cardinality(refused[r] \cup {i}) >= Cardinality(Items)
           THEN Finish(r, "done")
           ELSE /\ refused' = [refused EXCEPT ![r] = @ \cup {i}]
                /\ CountFailure(r, kind)
                /\ exclude' = [exclude EXCEPT ![r] = i]
                /\ EndRound(r, "loop")
                /\ UNCHANGED <<batch, rounds>>

\* The first valid response: a whole body ends the request, a stream is
\* forwarded from here on.
SucceedRound(r, place) ==
    /\ InRound(r)
    /\ route' = RecordSuccess(route, item[r])
    /\ IF place = "done" THEN Finish(r, "done")
       ELSE /\ Goto(r, "stream")
            /\ via' = [via EXCEPT ![r] = "none"]
            /\ Forget(r)
            /\ UNCHANGED item

-----------------------------------------------------------------------------
(* Outcomes of the forwarded stream.                                       *)

InStream(r) == pc[r] = "stream" /\ UNCHANGED <<enabled, probes>>

\* Delivered, or the client went away: nobody is blamed.
EndStream(r) ==
    /\ InStream(r)
    /\ Finish(r, "done")
    /\ UNCHANGED route

FailStream(r) ==
    /\ InStream(r)
    /\ route' = RecordPostCommitFailure(route, item[r])
    /\ Finish(r, "done")

StopStream(r) ==
    /\ InStream(r)
    /\ route' = ReleaseProbe(route, item[r])
    /\ Finish(r, "done")

\* The deferred recover returns the claims but not the emergency slot.
Panic(r) ==
    /\ pc[r] \in {"round", "stream"}
    /\ route' = ReleaseHold(route, item[r])
    /\ Finish(r, "panicked")
    /\ UNCHANGED <<enabled, probes>>

-----------------------------------------------------------------------------
(* Probe goroutines, the background task, the administrator and time.      *)

\* runAsyncProbe concludes; the conclusion is void if the claim is gone.
ProbeConcludes(i, succeeded) ==
    /\ probes[i] > 0
    /\ probes' = [probes EXCEPT ![i] = @ - 1]
    /\ route' = IF i \notin route.halfOpens THEN route
                ELSE IF succeeded THEN RestoreItem(route, i)
                ELSE ReopenItems(route, {i})
    /\ UNCHANGED <<enabled, pc, local>>

ProbeExpiredItems ==
    LET claimed == {i \in Items : CanClaim(route, i)}
    IN  /\ BackgroundProbe /\ claimed # {}
        /\ route' = Claim(route, claimed)
        /\ StartProbes(claimed)
        /\ UNCHANGED <<enabled, pc, local>>

ResetGroupCooldown ==
    /\ AdminReset
    /\ route' = ResetCooldown(route)
    /\ UNCHANGED <<enabled, probes, pc, local>>

ToggleChannel(i) ==
    /\ AdminToggle
    /\ enabled' = IF i \in enabled THEN enabled \ {i} ELSE enabled \cup {i}
    /\ UNCHANGED <<route, probes, pc, local>>

CooldownExpires(i) ==
    /\ route.cooldowns[i] = "cooling"
    /\ route' = [route EXCEPT !.cooldowns[i] = "expired"]
    /\ UNCHANGED <<enabled, probes, pc, local>>

AffinityExpires ==
    /\ route.affinity
    /\ route' = [route EXCEPT !.affinity = FALSE]
    /\ UNCHANGED <<enabled, probes, pc, local>>

EmergencyBlockExpires ==
    /\ route.emergencyBlocked
    /\ route' = [route EXCEPT !.emergencyBlocked = FALSE]
    /\ UNCHANGED <<enabled, probes, pc, local>>

-----------------------------------------------------------------------------
Select(r) ==
    \/ PickBehindCandidate(r) \/ PickAffine(r) \/ PickClosed(r)
    \/ PickRecovery(r) \/ PickNothing(r) \/ RecoveryWon(r) \/ RecoveryLost(r)
    \/ TakeEmergency(r) \/ NoEmergency(r)
    \/ SeeAllCooling(r) \/ ClearCooldowns(r) \/ WaitForMember(r)

Conclude(r) ==
    \/ RetryRound(r) \/ AbandonRound(r) \/ CancelRound(r)
    \/ \E kind \in ErrorKinds : FailRound(r, kind) \/ Refused(r, kind)
    \/ \E place \in {"stream", "done"} : SucceedRound(r, place)

Deliver(r) == EndStream(r) \/ FailStream(r) \/ StopStream(r)

Request(r) == GiveUp(r) \/ Select(r) \/ Conclude(r) \/ Deliver(r) \/ Panic(r)

Probe(i) == \E succeeded \in BOOLEAN : ProbeConcludes(i, succeeded)

Environment ==
    \/ ProbeExpiredItems \/ ResetGroupCooldown
    \/ AffinityExpires \/ EmergencyBlockExpires
    \/ \E i \in Items : ToggleChannel(i) \/ CooldownExpires(i)

\* Every request has been answered.
Terminated ==
    /\ \A r \in Requests : pc[r] \in {"done", "panicked"}
    /\ UNCHANGED vars

Next ==
    \/ \E r \in Requests : Request(r)
    \/ \E i \in Items : Probe(i)
    \/ Environment
    \/ Terminated

Spec == Init /\ [][Next]_vars

\* A request waits on timers and on calls with a timeout only, a probe has
\* a timeout of its own, and time passes.  A stream may last for ever.
Fairness ==
    /\ \A r \in Requests : WF_vars(GiveUp(r) \/ Select(r)) /\ WF_vars(Conclude(r))
    /\ \A i \in Items : WF_vars(Probe(i))

FairSpec == Spec /\ Fairness

-----------------------------------------------------------------------------
(* Safety.                                                                 *)

\* The candidate of the group is always some request's to confirm: while
\* ProbeItemID is set pickGroupItem serves nobody, so a candidate no running
\* round answers for would pin the whole group until a restart.
CandidateOwned ==
    route.probe # NoItem =>
        \E r \in Requests : pc[r] = "round" /\ item[r] = route.probe

\* A member in HALF_OPEN is always being probed or tried: by a goroutine, by
\* a request's recovery batch or by a business round.  Scans pass such a
\* member over, so without an owner it would never serve again.
HalfOpenOwned ==
    \A i \in route.halfOpens :
        \/ probes[i] > 0
        \/ \E r \in Requests : pc[r] = "batch" /\ i \in batch[r]
        \/ \E r \in Requests : pc[r] = "round" /\ item[r] = i

\* Affinity always has a member to stay with: whatever gives up the current
\* member also ends its affinity.
AffinityHasCurrent == route.affinity => route.current # NoItem

-----------------------------------------------------------------------------
(* What a step may never do.                                               *)

\* The backoff of a member is forgotten only together with its cooldown: no
\* interleaving of reports lowers a level and leaves the member OPEN.
LevelFallsOnlyOnRestore ==
    [][\A i \in Items : route'.levels[i] < route.levels[i] =>
            route'.levels[i] = 0 /\ route'.cooldowns[i] = "none"]_vars

-----------------------------------------------------------------------------
(* Liveness.                                                               *)

\* Late requests are let in again: every candidate is confirmed, rejected or
\* released.
CandidateResolved ==
    \A i \in Items : route.probe = i ~> route.probe # i

\* No member stays in HALF_OPEN.
HalfOpenResolved ==
    \A i \in Items : i \in route.halfOpens ~> i \notin route.halfOpens

\* A request that waits for a member is served or ends.
RequestLeavesLoop ==
    \A r \in Requests :
        pc[r] = "loop" ~> pc[r] \in {"stream", "done", "panicked"}

-----------------------------------------------------------------------------
(* What a comment of the code says and the code does not keep.             *)

EmergencyRounds == {r \in Requests : pc[r] = "round" /\ via[r] = "emergency"}

\* releaseRouteProbe returns the slot of an emergency round that ends: a slot
\* that is taken belongs to such a round, or to one that panicked.
EmergencyReturned ==
    route.emergencyCount <=
        Cardinality(EmergencyRounds \cup {r \in Requests : pc[r] = "panicked"})
=============================================================================
