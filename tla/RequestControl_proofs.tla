------------------------ MODULE RequestControl_proofs ------------------------
(***************************************************************************)
(* The registry and the administrator's controls are safe for any number   *)
(* of requests, calls and rounds and any bound on the history: no response *)
(* outlives its round, a stop reaches the response it races with, a late   *)
(* stop never cuts a later round, a StopAllRequests covers every request   *)
(* in progress, and the history stays within its bound.                    *)
(***************************************************************************)
EXTENDS RequestControl, FiniteSetTheorems, WellFoundedInduction, TLAPS

-----------------------------------------------------------------------------
(* The inductive invariants.                                               *)

RoundPlaces == {"sending", "attach", "check", "judge", "release", "stream"}

\* A request in a round has a round and its cancel is set; one whose cancel is
\* set has a round; one that has not been registered has none.
InRounds ==
    \A r \in Requests :
        /\ pc[r] \in {"new", "entered"} => round[r] = 0
        /\ pc[r] \in RoundPlaces => round[r] \in Rounds /\ cancelSet[r]
        /\ cancelSet[r] => round[r] \in Rounds

Holding == {"cancel", "halt", "interrupt", "haltOnly"}

\* A call that holds a cancel holds one of a round its request has reached.
Aimed ==
    \A a \in Admins :
        /\ apc[a] \in Holding =>
              target[a] \in Requests /\ captured[a] \in 1 .. round[target[a]]
        /\ apc[a] = "close" => target[a] \in Requests

Typed == TypeOK /\ InRounds /\ Aimed

\* What the lifecycle l of round n may be while its request is in round k, at
\* a place: there is no response before the round and while it is being sent,
\* it is attached from the check on, and a round that is over has been cut.
Fit(l, n, k, place) ==
    /\ n > k \/ (n = k /\ place = "sending") => ~l.attached /\ l.response = "none"
    /\ n = k /\ place = "attach" => ~l.attached /\ l.response = "open"
    /\ n = k /\ place \in {"check", "stream"} => l.attached
    /\ l.attached => l.response # "none"
    /\ l.stopped /\ l.attached => l.response = "closed"
    /\ l.response = "open" => n = k /\ place \in {"attach", "check", "stream"}
    /\ n < k \/ (n = k /\ place \in {"top", "allCheck", "pick", "wait"}) => l.ctx # "live"

Fits == \A r \in Requests, n \in Rounds : Fit(life[r][n], n, round[r], pc[r])

InProgress == {"top", "allCheck", "pick", "wait", "settle", "delivered"} \cup RoundPlaces

\* A request in progress is in the registry; one that has been told of no stop
\* has yet to read the flag, or a call has yet to find it or to reach it.
Covered ==
    /\ \A r \in Requests :
          /\ pc[r] \in InProgress => status[r] \in Running
          /\ status[r] \in Running => r \in listed
    /\ \A a \in Admins : apc[a] = "idle" => todo[a] = {}
    /\ allStopped => \A r \in Requests : status[r] \in Running =>
          \/ stopRequested[r]
          \/ pc[r] \in {"top", "allCheck", "rejected"}
          \/ \E a \in Admins : apc[a] = "snapshot" \/ r \in todo[a]

-----------------------------------------------------------------------------
(* Lifecycles.                                                             *)

\* The operations of a lifecycle give lifecycles.
LEMMA LifecycleOps ==
  ASSUME NEW l \in Lifecycle
  PROVE  /\ CloseResponse(l) \in Lifecycle
         /\ \A cause \in {"canceled", "timeout"} : CancelCtx(l, cause) \in Lifecycle
         /\ Halt(l) \in Lifecycle
         /\ StopLifecycle(l) \in Lifecycle
<1>1. ASSUME NEW m \in Lifecycle
      PROVE  CloseResponse(m) \in Lifecycle
  BY DEF CloseResponse, Lifecycle
<1>2. \A cause \in {"canceled", "timeout"} : CancelCtx(l, cause) \in Lifecycle
  BY DEF CancelCtx, Lifecycle
<1>3. ASSUME NEW m \in Lifecycle
      PROVE  Halt(m) \in Lifecycle
  <2>1. [m EXCEPT !.stopped = TRUE] \in Lifecycle
    BY DEF Lifecycle
  <2> QED BY <1>1, <2>1 DEF Halt
<1> QED BY <1>1, <1>2, <1>3 DEF StopLifecycle

\* What cancelling a context changes.
LEMMA CancelEffect ==
  ASSUME NEW l \in Lifecycle, NEW cause \in {"canceled", "timeout"}
  PROVE  /\ CancelCtx(l, cause).ctx = IF l.ctx = "live" THEN cause ELSE l.ctx
         /\ CancelCtx(l, cause).ctx # "live"
         /\ CancelCtx(l, cause).stopped = l.stopped
         /\ CancelCtx(l, cause).attached = l.attached
         /\ CancelCtx(l, cause).response = l.response
  BY DEF CancelCtx, Lifecycle

\* What closing a response changes.
LEMMA CloseEffect ==
  ASSUME NEW l \in Lifecycle
  PROVE  /\ CloseResponse(l).ctx = l.ctx
         /\ CloseResponse(l).stopped = l.stopped
         /\ CloseResponse(l).attached = l.attached
         /\ CloseResponse(l).response = IF l.response = "open" THEN "closed" ELSE l.response
  BY DEF CloseResponse, Lifecycle

\* What the second step of Stop changes.
LEMMA HaltEffect ==
  ASSUME NEW l \in Lifecycle
  PROVE  /\ Halt(l).ctx = l.ctx
         /\ Halt(l).stopped
         /\ Halt(l).attached = l.attached
         /\ Halt(l).response =
               IF l.attached /\ l.response = "open" THEN "closed" ELSE l.response
<1> DEFINE m == [l EXCEPT !.stopped = TRUE]
<1>1. m \in Lifecycle /\ m.ctx = l.ctx /\ m.stopped /\ m.attached = l.attached
        /\ m.response = l.response
  BY DEF Lifecycle
<1>2. Halt(l) = IF l.attached THEN CloseResponse(m) ELSE m
  BY DEF Halt
<1> HIDE DEF m
<1> QED BY <1>1, <1>2, CloseEffect

\* What Stop changes.
LEMMA StopEffect ==
  ASSUME NEW l \in Lifecycle
  PROVE  /\ StopLifecycle(l).ctx # "live"
         /\ StopLifecycle(l).stopped
         /\ StopLifecycle(l).attached = l.attached
         /\ StopLifecycle(l).response =
               IF l.attached /\ l.response = "open" THEN "closed" ELSE l.response
<1> DEFINE m == CancelCtx(l, "canceled")
<1>1. m \in Lifecycle
  BY LifecycleOps
<1>2. m.ctx # "live" /\ m.attached = l.attached /\ m.response = l.response
  BY CancelEffect
<1>3. StopLifecycle(l) = Halt(m)
  BY DEF StopLifecycle
<1> HIDE DEF m
<1> QED BY <1>1, <1>2, <1>3, HaltEffect

\* Writing the lifecycle of one round leaves the others alone.
LEMMA SetLifeEffect ==
  ASSUME TypeOK, NEW r \in Requests, NEW n \in Rounds, NEW l \in Lifecycle, SetLife(r, n, l)
  PROVE  /\ life' \in [Requests -> [Rounds -> Lifecycle]]
         /\ \A q \in Requests, k \in Rounds :
               life'[q][k] = IF q = r /\ k = n THEN l ELSE life[q][k]
  BY DEF TypeOK, SetLife

\* A round's lifecycle is a lifecycle.
LEMMA LifeType ==
  ASSUME TypeOK, NEW r \in Requests, NEW n \in Rounds
  PROVE  life[r][n] \in Lifecycle
  BY DEF TypeOK

\* Releasing a round writes its lifecycle, and stops it if its cancel is set.
LEMMA ReleaseEffect ==
  ASSUME TypeOK, NEW r \in Requests, round[r] \in Rounds, NEW l \in Lifecycle,
         ReleaseRound(r, l)
  PROVE  /\ cancelSet' = [cancelSet EXCEPT ![r] = FALSE]
         /\ round' = round
         /\ life' \in [Requests -> [Rounds -> Lifecycle]]
         /\ \A q \in Requests, n \in Rounds :
               life'[q][n] = IF q # r \/ n # round[r] THEN life[q][n]
                             ELSE IF cancelSet[r] THEN StopLifecycle(l) ELSE l
  BY LifecycleOps, SetLifeEffect DEF ReleaseRound

-----------------------------------------------------------------------------
(* Types.                                                                  *)

\* The initial states are well typed.
LEMMA InitTyped == Init => Typed
<1> SUFFICES ASSUME Init
             PROVE  Typed
  OBVIOUS
<1>1. NewLifecycle \in Lifecycle
  BY DEF NewLifecycle, Lifecycle
<1>2. 0 \in 0 .. MaxRounds
  BY BoundsAssumption
<1>3. TypeOK
  BY <1>1, <1>2 DEF Init, TypeOK, Places, CallPlaces
<1> QED BY <1>3 DEF Init, Typed, InRounds, Aimed, RoundPlaces, Holding

\* The first phase of a request's end keeps the type.
LEMMA MarkTyped ==
  ASSUME Typed, NEW r \in Requests, NEW final \in Finished, Mark(r, final),
         UNCHANGED <<stops, gone, allStopped, calls>>
  PROVE  Typed'
  BY DEF Typed, TypeOK, InRounds, Aimed, Mark, Goto, stops, calls, Places, RoundPlaces

\* A step that only moves the handler, out of a round or within one, keeps the type.
LEMMA MoveTyped ==
  ASSUME Typed, NEW r \in Requests, NEW place \in Places, Goto(r, place),
         UNCHANGED <<registry, rounds, stops, gone, allStopped, calls>>,
         place \in RoundPlaces => pc[r] \in RoundPlaces,
         place \in {"new", "entered"} => pc[r] = "new"
  PROVE  Typed'
  BY DEF Typed, TypeOK, InRounds, Aimed, Goto, registry, rounds, stops, calls

\* Entry, the top of the loop and the waits keep the type.
LEMMA LoopTyped ==
  ASSUME Typed, NEW r \in Requests, Loop(r)
  PROVE  Typed'
<1> USE DEF Places, Finished
<1>1. CASE Enter(r)
  BY <1>1, MoveTyped DEF Enter, Handler, RoundPlaces
<1>2. ASSUME NEW masked \in BOOLEAN, Register(r, masked)
      PROVE  Typed'
  <2>1. id' \in [Requests -> Nat]
    <3>1. Cardinality({q \in Requests : id[q] # 0}) \in Nat
      BY RequestsAssumption, FS_Subset, FS_CardinalityType
    <3> QED BY <1>2, <3>1 DEF Register, Typed, TypeOK
  <2>2. /\ pc' = [pc EXCEPT ![r] = IF masked THEN "top" ELSE "rejected"]
        /\ status' = [status EXCEPT ![r] = "running"]
        /\ listed' = listed \cup {r}
        /\ UNCHANGED <<rounds, stops, gone, allStopped, calls>>
    BY <1>2 DEF Register, Handler, Goto
  <2> QED BY <2>1, <2>2
          DEF Typed, TypeOK, InRounds, Aimed, rounds, stops, calls, RoundPlaces, Running
<1>3. CASE EndAtTop(r) \/ SeeAllStopped(r) \/ GiveUp(r) \/ CutWait(r)
  BY <1>3, MarkTyped DEF EndAtTop, SeeAllStopped, GiveUp, CutWait, Handler
<1>4. CASE PassTop(r) \/ PassAllCheck(r) \/ Defer(r) \/ EndWait(r)
  BY <1>4, MoveTyped DEF PassTop, PassAllCheck, Defer, EndWait, Handler, RoundPlaces
<1>5. CASE StartRound(r)
  <2>1. round[r] + 1 \in Rounds /\ round[r] \in 0 .. MaxRounds
    BY <1>5, BoundsAssumption DEF StartRound, Typed, TypeOK, Rounds
  <2> QED BY <1>5, <2>1, BoundsAssumption
          DEF StartRound, Handler, Goto, Typed, TypeOK, InRounds, Aimed, Rounds,
              registry, stops, calls
<1> QED BY <1>1, <1>2, <1>3, <1>4, <1>5 DEF Loop

\* A step of a round that writes the round's lifecycle keeps the type.
LEMMA WriteTyped ==
  ASSUME Typed, NEW r \in Requests, round[r] \in Rounds, NEW l \in Lifecycle,
         SetLife(r, round[r], l),
         UNCHANGED <<round, cancelSet, registry, stops, gone, allStopped, calls>>,
         \/ UNCHANGED pc
         \/ \E place \in Places \ {"new", "entered"} :
               Goto(r, place) /\ (place \in RoundPlaces => pc[r] \in RoundPlaces)
  PROVE  Typed'
<1>1. life' \in [Requests -> [Rounds -> Lifecycle]]
  BY SetLifeEffect DEF Typed
<1>2. /\ pc' \in [Requests -> Places]
      /\ \A q \in Requests : /\ pc'[q] \in {"new", "entered"} => pc[q] \in {"new", "entered"}
                             /\ pc'[q] \in RoundPlaces => pc[q] \in RoundPlaces
  BY DEF Typed, TypeOK, Goto
<1>3. TypeOK'
  BY <1>1, <1>2 DEF Typed, TypeOK, registry, stops, calls
<1>4. InRounds'
  BY <1>2 DEF Typed, InRounds
<1>5. Aimed'
  BY DEF Typed, Aimed, calls
<1> QED BY <1>3, <1>4, <1>5 DEF Typed

\* A step that releases the round and leaves it keeps the type.
LEMMA ReleaseTyped ==
  ASSUME Typed, NEW r \in Requests, round[r] \in Rounds, NEW l \in Lifecycle,
         ReleaseRound(r, l), NEW place \in Places \ (RoundPlaces \cup {"new", "entered"}),
         Goto(r, place),
         NEW st \in {"none"} \cup Running \cup Finished,
         \/ UNCHANGED status
         \/ status' = [status EXCEPT ![r] = st],
         UNCHANGED <<listed, id, stops, gone, allStopped, calls>>
  PROVE  Typed'
<1>1. /\ cancelSet' = [cancelSet EXCEPT ![r] = FALSE]
      /\ round' = round
      /\ life' \in [Requests -> [Rounds -> Lifecycle]]
  BY ReleaseEffect DEF Typed
<1>2. /\ pc' \in [Requests -> Places]
      /\ \A q \in Requests : /\ pc'[q] \in {"new", "entered"} => pc[q] \in {"new", "entered"}
                             /\ pc'[q] \in RoundPlaces => q # r /\ pc[q] \in RoundPlaces
  BY DEF Typed, TypeOK, Goto
<1>3. /\ status' \in [Requests -> {"none"} \cup Running \cup Finished]
      /\ cancelSet' \in [Requests -> BOOLEAN]
  BY <1>1 DEF Typed, TypeOK
<1>4. TypeOK'
  BY <1>1, <1>2, <1>3 DEF Typed, TypeOK, stops, calls
<1>5. \A q \in Requests : /\ cancelSet'[q] => cancelSet[q]
                          /\ q # r => cancelSet'[q] = cancelSet[q]
  BY <1>1 DEF Typed, TypeOK
<1>6. InRounds'
  BY <1>1, <1>2, <1>5 DEF Typed, InRounds
<1>7. Aimed'
  BY <1>1 DEF Typed, Aimed, calls
<1> QED BY <1>4, <1>6, <1>7 DEF Typed

\* In a round, its lifecycle is one and may be operated on.
LEMMA CurrentType ==
  ASSUME Typed, NEW r \in Requests, pc[r] \in RoundPlaces
  PROVE  /\ round[r] \in Rounds
         /\ cancelSet[r]
         /\ Current(r) = life[r][round[r]]
         /\ Current(r) \in Lifecycle
  BY LifeType DEF Typed, InRounds, Current

\* The steps of a round keep the type.
LEMMA RoundTyped ==
  ASSUME Typed, NEW r \in Requests,
         Send(r) \/ TimeOut(r) \/ Judge(r) \/ Commit(r) \/ EndStream(r)
  PROVE  Typed'
<1> DEFINE l == Current(r)
<1> USE DEF Places, RoundPlaces
<1>1. CASE Answer(r)
  <2>1. round[r] \in Rounds /\ l \in Lifecycle
    BY <1>1, CurrentType DEF Answer, Handler
  <2>2. [l EXCEPT !.response = "open"] \in Lifecycle
    BY <2>1 DEF Lifecycle
  <2> QED BY <1>1, <2>1, <2>2, WriteTyped DEF Answer, Handler
<1>2. CASE FailToSend(r) \/ Forward(r) \/ JudgePasses(r)
  BY <1>2, MoveTyped DEF FailToSend, Forward, JudgePasses, Handler
<1>3. CASE FailToDispatch(r)
  BY <1>3, CurrentType, ReleaseTyped DEF FailToDispatch, Handler, registry
<1>4. CASE TimeOut(r)
  <2>1. round[r] \in Rounds /\ l \in Lifecycle
    BY <1>4, CurrentType DEF TimeOut
  <2> QED BY <1>4, <2>1, LifecycleOps, WriteTyped DEF TimeOut, Handler
<1>5. CASE Attach(r)
  <2>1. round[r] \in Rounds /\ l \in Lifecycle
    BY <1>5, CurrentType DEF Attach, Handler
  <2>2. [l EXCEPT !.attached = TRUE] \in Lifecycle
    BY <2>1 DEF Lifecycle
  <2>3. CloseResponse([l EXCEPT !.attached = TRUE]) \in Lifecycle
    BY <2>2, LifecycleOps
  <2> QED BY <1>5, <2>1, <2>2, <2>3, WriteTyped DEF Attach, Handler
<1>6. CASE RefuseCut(r)
  <2>1. round[r] \in Rounds /\ l \in Lifecycle
    BY <1>6, CurrentType DEF RefuseCut, Handler
  <2> QED BY <1>6, <2>1, LifecycleOps, WriteTyped DEF RefuseCut, Handler
<1>7. CASE Deliver(r)
  BY <1>7, CurrentType, LifecycleOps, ReleaseTyped DEF Deliver, Handler, Running
<1>8. CASE JudgeEnds(r)
  BY <1>8, CurrentType, ReleaseTyped DEF JudgeEnds, Handler, Finished
<1>9. CASE AfterRound(r)
  BY <1>9, CurrentType, ReleaseTyped DEF AfterRound, Handler, Finished, registry
<1>10. CASE Commit(r)
  BY <1>10 DEF Commit, Handler, Typed, TypeOK, InRounds, Aimed, rounds, stops, calls, Running
<1>11. CASE EndStream(r)
  BY <1>11, CurrentType, LifecycleOps, ReleaseTyped DEF EndStream, Handler, registry
<1> QED BY <1>1, <1>2, <1>3, <1>4, <1>5, <1>6, <1>7, <1>8, <1>9, <1>10, <1>11 DEF Send, Judge

\* What remains of the registry is of it.
LEMMA TrimmedSubset == ASSUME NEW L PROVE Trimmed(L) \subseteq L
  BY DEF Trimmed

\* The end of a request, panics and departures keep the type.
LEMMA EndTyped ==
  ASSUME Typed, NEW r \in Requests, End(r) \/ Panic(r) \/ ClientLeaves(r)
  PROVE  Typed'
<1> USE DEF Places, Finished
<1>1. CASE Settle(r) \/ Succeed(r)
  BY <1>1, MarkTyped DEF Settle, Succeed, Handler
<1>2. CASE Finish(r)
  <2>1. listed' \subseteq listed
    BY <1>2, TrimmedSubset DEF Finish
  <2> QED BY <1>2, <2>1 DEF Finish, Handler, Goto, Typed, TypeOK, InRounds, Aimed,
             rounds, stops, calls, RoundPlaces
<1>3. CASE Panic(r)
  <2>1. round[r] \in Rounds /\ Current(r) \in Lifecycle
    BY <1>3, CurrentType DEF Panic, RoundPlaces
  <2> QED BY <1>3, <2>1, LifecycleOps, WriteTyped DEF Panic, Handler, RoundPlaces
<1>4. CASE ClientLeaves(r)
  BY <1>4 DEF ClientLeaves, Typed, TypeOK, InRounds, Aimed, registry, rounds, stops, calls
<1> QED BY <1>1, <1>2, <1>3, <1>4 DEF End

\* A step of a call keeps the type when what the call holds fits its next place.
LEMMA CallTyped ==
  ASSUME Typed, NEW a \in Admins, NEW from, Call(a, from),
         NEW place \in CallPlaces, CallGoto(a, place),
         NEW t \in Requests \cup {NoRequest}, target' = [target EXCEPT ![a] = t],
         NEW n \in 0 .. MaxRounds, captured' = [captured EXCEPT ![a] = n],
         place \in Holding => t \in Requests /\ n \in 1 .. round[t],
         place = "close" => t \in Requests,
         NEW S \in SUBSET Requests, todo' = [todo EXCEPT ![a] = S],
         stopRequested' \in [Requests -> BOOLEAN],
         stopClosed' \in [Requests -> BOOLEAN],
         life' \in [Requests -> [Rounds -> Lifecycle]],
         allStopped' \in BOOLEAN
  PROVE  Typed'
<1>1. apc' = [apc EXCEPT ![a] = place] /\ UNCHANGED <<pc, registry, round, cancelSet, gone>>
  BY DEF Call, CallGoto
<1>2. TypeOK'
  BY <1>1 DEF Typed, TypeOK, registry
<1>3. InRounds'
  BY <1>1 DEF Typed, InRounds
<1>4. Aimed'
  <2> SUFFICES ASSUME NEW b \in Admins
               PROVE  /\ apc'[b] \in Holding =>
                           target'[b] \in Requests /\ captured'[b] \in 1 .. round[target'[b]]
                      /\ apc'[b] = "close" => target'[b] \in Requests
    BY <1>1 DEF Aimed
  <2>1. CASE b = a
    BY <1>1, <2>1 DEF Typed, TypeOK
  <2>2. CASE b # a
    BY <1>1, <2>2 DEF Typed, TypeOK, Aimed
  <2> QED BY <2>1, <2>2
<1> QED BY <1>2, <1>3, <1>4 DEF Typed

\* What a call holds, and what it leaves alone.
LEMMA CallFields ==
  ASSUME Typed, NEW a \in Admins
  PROVE  /\ target[a] \in Requests \cup {NoRequest}
         /\ target = [target EXCEPT ![a] = target[a]]
         /\ captured[a] \in 0 .. MaxRounds
         /\ captured = [captured EXCEPT ![a] = captured[a]]
         /\ todo[a] \in SUBSET Requests
         /\ todo = [todo EXCEPT ![a] = todo[a]]
         /\ apc = [apc EXCEPT ![a] = apc[a]]
         /\ stopRequested \in [Requests -> BOOLEAN]
         /\ stopClosed \in [Requests -> BOOLEAN]
         /\ life \in [Requests -> [Rounds -> Lifecycle]]
         /\ allStopped \in BOOLEAN
         /\ apc[a] \in CallPlaces
         /\ 0 \in 0 .. MaxRounds
  BY BoundsAssumption DEF Typed, TypeOK

\* The calls of the administrator keep the type.
LEMMA AdminTyped ==
  ASSUME Typed, NEW a \in Admins, Admin(a)
  PROVE  Typed'
<1> USE CallFields DEF CallPlaces, Holding
<1>1. CASE StopAll(a)
  BY <1>1, CallTyped DEF StopAll, stops
<1>2. CASE Snapshot(a)
  <2>1. {r \in listed : status[r] \in Running} \in SUBSET Requests
    BY DEF Typed, TypeOK
  <2> QED BY <1>2, <2>1, CallTyped DEF Snapshot, stops
<1>3. ASSUME NEW r \in Requests, StopRequestByID(a, r)
      PROVE  Typed'
  <2>1. {r} \in SUBSET Requests
    OBVIOUS
  <2> QED BY <1>3, <2>1, CallTyped DEF StopRequestByID, stops
<1>4. ASSUME NEW r \in Requests, StopRequest(a, r)
      PROVE  Typed'
  <2>1. todo[a] \ {r} \in SUBSET Requests /\ stopRequested' \in [Requests -> BOOLEAN]
    BY <1>4 DEF StopRequest
  <2>2. /\ Call(a, "stopping") /\ todo' = [todo EXCEPT ![a] = todo[a] \ {r}]
        /\ stopClosed' \in [Requests -> BOOLEAN]
        /\ life' \in [Requests -> [Rounds -> Lifecycle]]
        /\ allStopped' \in BOOLEAN
    BY <1>4 DEF StopRequest
  <2>3. CASE stopRequested[r]
    <3>1. CallGoto(a, "stopping") /\ target' = target /\ captured' = captured
      BY <1>4, <2>3 DEF StopRequest, Call, CallGoto
    <3> QED BY <2>1, <2>2, <3>1, CallTyped
  <2>4. CASE ~stopRequested[r] /\ cancelSet[r]
    <3>1. round[r] \in 1 .. round[r] /\ round[r] \in 0 .. MaxRounds
      BY <2>4, BoundsAssumption DEF Typed, InRounds, Rounds
    <3>2. CallGoto(a, "cancel") /\ target' = [target EXCEPT ![a] = r]
            /\ captured' = [captured EXCEPT ![a] = round[r]]
      BY <1>4, <2>4 DEF StopRequest
    <3> QED BY <2>1, <2>2, <3>1, <3>2, CallTyped
  <2>5. CASE ~stopRequested[r] /\ ~cancelSet[r]
    <3>1. CallGoto(a, "close") /\ target' = [target EXCEPT ![a] = r]
            /\ captured' = [captured EXCEPT ![a] = 0]
      BY <1>4, <2>5 DEF StopRequest
    <3> QED BY <2>1, <2>2, <3>1, CallTyped
  <2> QED BY <2>3, <2>4, <2>5
<1>5. ASSUME NEW r \in Requests, Interrupt(a, r)
      PROVE  Typed'
  <2>1. round[r] \in 1 .. round[r] /\ round[r] \in 0 .. MaxRounds
    BY <1>5, BoundsAssumption DEF Interrupt, Typed, InRounds, Rounds
  <2> QED BY <1>5, <2>1, CallTyped DEF Interrupt, stops
<1>6. CASE CancelRound(a) \/ HaltRound(a)
  <2>1. target[a] \in Requests /\ captured[a] \in 1 .. round[target[a]]
    BY <1>6 DEF CancelRound, HaltRound, Call, Typed, Aimed
  <2>2. captured[a] \in Rounds
    BY <2>1, BoundsAssumption DEF Typed, TypeOK, Rounds
  <2>3. life' \in [Requests -> [Rounds -> Lifecycle]]
    <3>1. life[target[a]][captured[a]] \in Lifecycle
      BY <2>1, <2>2, LifeType DEF Typed
    <3>2. CASE CancelRound(a)
      BY <2>1, <2>2, <3>1, <3>2, LifecycleOps, SetLifeEffect DEF CancelRound, Typed
    <3>3. CASE HaltRound(a)
      BY <2>1, <2>2, <3>1, <3>3, LifecycleOps, SetLifeEffect DEF HaltRound, Typed
    <3> QED BY <1>6, <3>2, <3>3
  <2>4. PICK from, place : /\ place \in {"halt", "haltOnly", "close", "stopping"}
                           /\ Call(a, from) /\ CallGoto(a, place)
    BY <1>6 DEF CancelRound, HaltRound
  <2>5. /\ UNCHANGED <<stopRequested, stopClosed, allStopped>>
        /\ UNCHANGED <<todo, target, captured>>
    BY <1>6 DEF CancelRound, HaltRound, stops
  <2>6. /\ target' = [target EXCEPT ![a] = target[a]]
        /\ captured' = [captured EXCEPT ![a] = captured[a]]
        /\ todo' = [todo EXCEPT ![a] = todo[a]]
        /\ target[a] \in Requests /\ captured[a] \in 0 .. MaxRounds /\ todo[a] \in SUBSET Requests
    BY <2>1, <2>5 DEF Typed, TypeOK
  <2>7. /\ stopRequested' \in [Requests -> BOOLEAN] /\ stopClosed' \in [Requests -> BOOLEAN]
        /\ allStopped' \in BOOLEAN
    BY <2>5 DEF Typed, TypeOK
  <2>8. place \in CallPlaces
    BY <2>4 DEF CallPlaces
  <2> QED BY <2>1, <2>3, <2>4, <2>6, <2>7, <2>8, CallTyped
<1>7. CASE CloseStopCh(a)
  <2>1. stopClosed' \in [Requests -> BOOLEAN]
    BY <1>7 DEF CloseStopCh
  <2> QED BY <1>7, <2>1, CallTyped DEF CloseStopCh
<1>8. CASE Return(a)
  BY <1>8, CallTyped DEF Return, stops
<1> QED BY <1>1, <1>2, <1>3, <1>4, <1>5, <1>6, <1>7, <1>8 DEF Admin, Proceed

\* The type is inductive.
LEMMA NextTyped == Typed /\ [Next]_vars => Typed'
<1> SUFFICES ASSUME Typed, [Next]_vars
             PROVE  Typed'
  OBVIOUS
<1>1. ASSUME NEW r \in Requests, Request(r)
      PROVE  Typed'
  BY <1>1, LoopTyped, RoundTyped, EndTyped DEF Request
<1>2. ASSUME NEW a \in Admins, Admin(a)
      PROVE  Typed'
  BY <1>2, AdminTyped
<1>3. CASE ClearStopAll \/ Clear
  BY <1>3 DEF ClearStopAll, Clear, Typed, TypeOK, InRounds, Aimed, registry, rounds, stops, calls
<1>4. CASE UNCHANGED vars
  BY <1>4 DEF vars, Typed, TypeOK, InRounds, Aimed, registry, rounds, stops, calls
<1> QED BY <1>1, <1>2, <1>3, <1>4 DEF Next, Terminated

\* The type and what the calls hold.
LEMMA TypedAlways == Spec => []Typed
<1> QED BY InitTyped, NextTyped, PTL DEF Spec

\* The registry, the rounds and the calls of the administrator keep their
\* types; in particular no round exceeds its bound and no call acts on a round
\* that was never started.
THEOREM TypeCorrect == Spec => []TypeOK
<1>1. Typed => TypeOK
  BY DEF Typed
<1> QED BY <1>1, TypedAlways, PTL

-----------------------------------------------------------------------------
(* Responses and contexts.                                                 *)

\* Nothing has been sent in the initial states.
LEMMA InitFits == Init => Fits
  BY BoundsAssumption DEF Init, Fits, Fit, NewLifecycle, Rounds

\* The lifecycles of the other requests are not disturbed.
LEMMA OneRequestFits ==
  ASSUME Typed, Fits, NEW r \in Requests, NEW place, Goto(r, place),
         \A q \in Requests \ {r} : round'[q] = round[q],
         \A q \in Requests \ {r}, n \in Rounds : life'[q][n] = life[q][n],
         \A n \in Rounds : Fit(life'[r][n], n, round'[r], place)
  PROVE  Fits'
<1>1. pc'[r] = place /\ \A q \in Requests \ {r} : pc'[q] = pc[q]
  BY DEF Goto, Typed, TypeOK
<1>2. \A q \in Requests \ {r}, n \in Rounds : Fit(life'[q][n], n, round'[q], pc'[q])
  BY <1>1 DEF Fits
<1> QED BY <1>1, <1>2 DEF Fits

\* A step that only moves the handler, where the current lifecycle fits.
LEMMA MoveFits ==
  ASSUME Typed, Fits, NEW r \in Requests, NEW place, Goto(r, place), UNCHANGED <<round, life>>,
         round[r] \in Rounds => Fit(Current(r), round[r], round[r], place)
  PROVE  Fits'
<1>1. ASSUME NEW n \in Rounds
      PROVE  Fit(life[r][n], n, round[r], place)
  <2>1. Fit(life[r][n], n, round[r], pc[r]) /\ n \in Nat /\ round[r] \in Nat
    BY DEF Fits, Typed, TypeOK, Rounds
  <2>2. CASE n = round[r]
    BY <2>2 DEF Current
  <2>3. CASE n # round[r]
    BY <2>1, <2>3 DEF Fit
  <2> QED BY <2>2, <2>3
<1> QED BY <1>1, OneRequestFits

\* A step that writes the current lifecycle, where what it writes fits.
LEMMA WriteFits ==
  ASSUME Typed, Fits, NEW r \in Requests, round[r] \in Rounds, NEW l,
         NEW place, Goto(r, place), round' = round,
         \A q \in Requests, n \in Rounds :
            life'[q][n] = IF q = r /\ n = round[r] THEN l ELSE life[q][n],
         Fit(l, round[r], round[r], place)
  PROVE  Fits'
<1>1. ASSUME NEW n \in Rounds
      PROVE  Fit(life'[r][n], n, round[r], place)
  <2>1. Fit(life[r][n], n, round[r], pc[r]) /\ n \in Nat /\ round[r] \in Nat
    BY DEF Fits, Typed, TypeOK, Rounds
  <2>2. CASE n = round[r]
    BY <2>2
  <2>3. CASE n # round[r]
    BY <2>1, <2>3 DEF Fit
  <2> QED BY <2>2, <2>3
<1> QED BY <1>1, OneRequestFits

\* Between two rounds, and outside of them, no response is open.
LEMMA LoopFits ==
  ASSUME Typed, Fits, NEW r \in Requests, Loop(r)
  PROVE  Fits'
<1>1. round[r] \in Rounds => Fit(Current(r), round[r], round[r], pc[r])
  BY DEF Fits, Current
<1>2. CASE Enter(r)
  BY <1>1, <1>2, MoveFits DEF Enter, Handler, rounds, Fit
<1>3. ASSUME NEW masked \in BOOLEAN, Register(r, masked)
      PROVE  Fits'
  <2>1. round[r] \notin Rounds
    BY <1>3, BoundsAssumption DEF Register, Handler, Typed, InRounds, Rounds
  <2> QED BY <1>3, <2>1, MoveFits DEF Register, rounds
<1>4. CASE EndAtTop(r) \/ SeeAllStopped(r) \/ GiveUp(r) \/ CutWait(r)
  <2>1. /\ pc[r] \in {"top", "allCheck", "pick", "wait"}
        /\ Goto(r, "finishing")
        /\ UNCHANGED <<round, life>>
    BY <1>4 DEF EndAtTop, SeeAllStopped, GiveUp, CutWait, Handler, Mark
  <2>2. round[r] \in Rounds => Fit(Current(r), round[r], round[r], "finishing")
    BY <1>1, <2>1 DEF Fit, Rounds
  <2> QED BY <2>1, <2>2, MoveFits
<1>5. CASE PassTop(r) \/ PassAllCheck(r) \/ Defer(r) \/ EndWait(r)
  BY <1>1, <1>5, MoveFits DEF PassTop, PassAllCheck, Defer, EndWait, Handler, rounds, Fit
<1>6. CASE StartRound(r)
  <2>1. /\ round'[r] = round[r] + 1
        /\ \A q \in Requests \ {r} : round'[q] = round[q]
        /\ life' = life
        /\ Goto(r, "sending")
        /\ pc[r] = "pick"
    BY <1>6 DEF StartRound, Handler, Typed, TypeOK
  <2>2. ASSUME NEW n \in Rounds
        PROVE  Fit(life[r][n], n, round[r] + 1, "sending")
    <3>1. Fit(life[r][n], n, round[r], "pick") /\ n \in Nat /\ round[r] \in Nat
      BY <2>1 DEF Fits, Typed, TypeOK, Rounds
    <3> QED BY <3>1 DEF Fit
  <2> QED BY <2>1, <2>2, OneRequestFits
<1> QED BY <1>2, <1>3, <1>4, <1>5, <1>6 DEF Loop

\* In a round the current lifecycle fits the place.
LEMMA CurrentFits ==
  ASSUME Typed, Fits, NEW r \in Requests, pc[r] \in RoundPlaces
  PROVE  /\ Fit(Current(r), round[r], round[r], pc[r])
         /\ round[r] \in Nat
  BY CurrentType DEF Fits, Rounds

\* A round that is released and left: no response is open, and its context is cut.
LEMMA ReleaseFits ==
  ASSUME Typed, Fits, NEW r \in Requests, pc[r] \in RoundPlaces, NEW l \in Lifecycle,
         ReleaseRound(r, l), NEW place \in Places \ RoundPlaces, Goto(r, place),
         l.response # "open", l.attached => l.response # "none"
  PROVE  Fits'
<1> DEFINE m == StopLifecycle(l)
<1>1. round[r] \in Rounds /\ cancelSet[r] /\ round[r] \in Nat
  BY CurrentType, CurrentFits
<1>2. /\ round' = round
      /\ \A q \in Requests, n \in Rounds :
            life'[q][n] = IF q = r /\ n = round[r] THEN m ELSE life[q][n]
  BY <1>1, ReleaseEffect DEF Typed
<1>3. l.response \in {"none", "closed"}
  BY DEF Lifecycle
<1>4. m.ctx # "live" /\ m.attached = l.attached /\ m.response = l.response
  BY StopEffect
<1> HIDE DEF m
<1>5. Fit(m, round[r], round[r], place)
  BY <1>1, <1>3, <1>4 DEF Fit, RoundPlaces
<1> QED BY <1>1, <1>2, <1>5, WriteFits

\* The steps of a round.
LEMMA RoundFits ==
  ASSUME Typed, Fits, NEW r \in Requests,
         Send(r) \/ TimeOut(r) \/ Judge(r) \/ Commit(r) \/ EndStream(r)
  PROVE  Fits'
<1> DEFINE l == Current(r)
           k == round[r]
<1>0. pc[r] \in RoundPlaces
  BY DEF Send, TimeOut, Judge, Commit, EndStream, Answer, FailToSend, FailToDispatch, Attach,
         RefuseCut, Forward, Deliver, JudgeEnds, JudgePasses, AfterRound, Handler, RoundPlaces
<1>a. k \in Rounds /\ k \in Nat /\ l \in Lifecycle /\ Fit(l, k, k, pc[r])
  BY <1>0, CurrentType, CurrentFits
<1>b. TypeOK /\ \A m \in Lifecycle : SetLife(r, k, m) =>
          \A q \in Requests, n \in Rounds :
             life'[q][n] = IF q = r /\ n = k THEN m ELSE life[q][n]
  BY <1>a, SetLifeEffect DEF Typed
<1>c. Goto(r, pc[r]) <=> pc' = pc
  BY DEF Goto, Typed, TypeOK
<1>1. CASE Answer(r)
  <2> DEFINE m == [l EXCEPT !.response = "open"]
  <2>1. /\ m \in Lifecycle /\ m.response = "open" /\ m.attached = l.attached
        /\ m.stopped = l.stopped /\ m.ctx = l.ctx
    BY <1>a DEF Lifecycle
  <2>2. Goto(r, "attach") /\ round' = round /\ SetLife(r, k, m) /\ pc[r] = "sending"
    BY <1>1 DEF Answer, Handler
  <2> HIDE DEF m, l, k
  <2>3. Fit(m, k, k, "attach")
    BY <1>a, <2>1, <2>2 DEF Fit
  <2> QED BY <1>a, <1>b, <2>1, <2>2, <2>3, WriteFits DEF k
<1>2. CASE FailToSend(r) \/ JudgePasses(r)
  <2>1. Fit(l, k, k, "judge") /\ Fit(l, k, k, "release")
    <3> HIDE DEF l, k
    <3> QED BY <1>a, <1>2 DEF Fit, FailToSend, JudgePasses, Handler
  <2> QED BY <1>2, <2>1, MoveFits DEF FailToSend, JudgePasses, rounds
<1>3. CASE FailToDispatch(r)
  BY <1>0, <1>3, <1>a, ReleaseFits DEF FailToDispatch, Handler, Fit, Places, RoundPlaces
<1>4. CASE TimeOut(r)
  <2> DEFINE m == CancelCtx(l, "timeout")
  <2>1. /\ m \in Lifecycle /\ m.response = l.response /\ m.attached = l.attached
        /\ m.stopped = l.stopped /\ m.ctx # "live"
    BY <1>a, LifecycleOps, CancelEffect
  <2>2. pc' = pc /\ round' = round /\ SetLife(r, k, m)
    BY <1>4 DEF TimeOut
  <2> HIDE DEF m, l, k
  <2>3. Fit(m, k, k, pc[r])
    BY <1>a, <2>1 DEF Fit
  <2> QED BY <1>a, <1>b, <1>c, <2>1, <2>2, <2>3, WriteFits DEF k
<1>5. CASE Attach(r)
  <2> DEFINE m == [l EXCEPT !.attached = TRUE]
             w == IF m.stopped THEN CloseResponse(m) ELSE m
  <2>1. /\ m \in Lifecycle /\ m.response = l.response /\ m.attached
        /\ m.stopped = l.stopped /\ m.ctx = l.ctx
    BY <1>a DEF Lifecycle
  <2>2. Goto(r, "check") /\ round' = round /\ SetLife(r, k, w) /\ pc[r] = "attach"
    BY <1>5 DEF Attach, Handler
  <2>3. l.response # "none"
    BY <1>a, <2>2 DEF Fit
  <2>4. Fit(w, k, k, "check")
    <3> HIDE DEF m, l, k
    <3>1. w \in Lifecycle /\ w.attached /\ w.stopped = m.stopped
            /\ w.response = IF m.stopped /\ m.response = "open" THEN "closed" ELSE m.response
      BY <2>1, LifecycleOps, CloseEffect
    <3>2. m.response \in {"open", "closed"}
      BY <2>1, <2>3 DEF Lifecycle
    <3> HIDE DEF w
    <3> QED BY <1>a, <3>1, <3>2 DEF Fit
  <2>5. w \in Lifecycle
    BY <2>1, LifecycleOps
  <2> HIDE DEF w
  <2> QED BY <1>a, <1>b, <2>2, <2>4, <2>5, WriteFits
<1>6. CASE RefuseCut(r)
  <2> DEFINE m == CloseResponse(l)
  <2>1. /\ m \in Lifecycle /\ m.attached = l.attached /\ m.stopped = l.stopped /\ m.ctx = l.ctx
        /\ m.response = IF l.response = "open" THEN "closed" ELSE l.response
    BY <1>a, LifecycleOps, CloseEffect
  <2>2. Goto(r, "judge") /\ round' = round /\ SetLife(r, k, m) /\ pc[r] = "check"
    BY <1>6 DEF RefuseCut, Handler
  <2> HIDE DEF m, l, k
  <2>3. Fit(m, k, k, "judge")
    BY <1>a, <2>1, <2>2 DEF Fit
  <2> QED BY <1>a, <1>b, <2>1, <2>2, <2>3, WriteFits DEF k
<1>7. CASE Forward(r)
  <2>1. Goto(r, "stream") /\ pc[r] = "check" /\ UNCHANGED <<round, life>>
    BY <1>7 DEF Forward, Handler, rounds
  <2>2. Fit(l, k, k, "stream")
    <3> HIDE DEF l, k
    <3> QED BY <1>a, <2>1 DEF Fit
  <2> QED BY <2>1, <2>2, MoveFits
<1>8. CASE Deliver(r) \/ EndStream(r)
  <2> DEFINE m == CloseResponse(l)
  <2>1. /\ m \in Lifecycle /\ m.attached = l.attached
        /\ m.response = IF l.response = "open" THEN "closed" ELSE l.response
    BY <1>a, LifecycleOps, CloseEffect
  <2>2. m.response # "open" /\ (m.attached => m.response # "none")
    BY <1>a, <2>1 DEF Fit
  <2>3. /\ ReleaseRound(r, m)
        /\ \E place \in {"delivered", "settle"} : Goto(r, place)
    BY <1>8 DEF Deliver, EndStream
  <2>4. {"delivered", "settle"} \subseteq Places \ RoundPlaces
    BY DEF Places, RoundPlaces
  <2> HIDE DEF m
  <2> QED BY <1>0, <2>1, <2>2, <2>3, <2>4, ReleaseFits
<1>9. CASE JudgeEnds(r) \/ AfterRound(r)
  <2>1. /\ ReleaseRound(r, l)
        /\ pc[r] \in {"judge", "release"}
        /\ \E place \in {"top", "wait", "finishing"} : Goto(r, place)
    BY <1>9 DEF JudgeEnds, AfterRound, Handler
  <2>2. l.response # "open" /\ (l.attached => l.response # "none")
    <3> HIDE DEF l, k
    <3> QED BY <1>a, <2>1 DEF Fit
  <2>3. {"top", "wait", "finishing"} \subseteq Places \ RoundPlaces
    BY DEF Places, RoundPlaces
  <2> QED BY <1>0, <1>a, <2>1, <2>2, <2>3, ReleaseFits
<1>10. CASE Commit(r)
  BY <1>10 DEF Commit, Fits, rounds
<1> QED BY <1>1, <1>2, <1>3, <1>4, <1>5, <1>6, <1>7, <1>8, <1>9, <1>10 DEF Send, Judge

\* The end of a request, panics and departures.
LEMMA EndFits ==
  ASSUME Typed, Fits, NEW r \in Requests, End(r) \/ Panic(r) \/ ClientLeaves(r)
  PROVE  Fits'
<1>1. CASE Settle(r) \/ Succeed(r) \/ Finish(r)
  <2>1. round[r] \in Rounds => Fit(Current(r), round[r], round[r], pc[r])
    BY DEF Fits, Current
  <2> QED BY <1>1, <2>1, MoveFits DEF Settle, Succeed, Finish, Handler, Mark, rounds, Fit
<1>2. CASE Panic(r)
  <2> DEFINE l == Current(r)
             k == round[r]
             m == StopLifecycle(l)
  <2>1. k \in Rounds /\ k \in Nat /\ l \in Lifecycle /\ Fit(l, k, k, pc[r])
    BY <1>2, CurrentType, CurrentFits DEF Panic, RoundPlaces
  <2>2. /\ m \in Lifecycle /\ m.ctx # "live" /\ m.attached = l.attached
        /\ m.response = IF l.attached /\ l.response = "open" THEN "closed" ELSE l.response
    BY <2>1, LifecycleOps, StopEffect
  <2>3. /\ Goto(r, "panicked") /\ round' = round /\ SetLife(r, k, m)
        /\ pc[r] \in {"sending", "check", "judge", "release", "stream"}
    BY <1>2 DEF Panic
  <2>4. \A q \in Requests, n \in Rounds :
           life'[q][n] = IF q = r /\ n = k THEN m ELSE life[q][n]
    BY <2>1, <2>2, <2>3, SetLifeEffect DEF Typed
  <2>5. l.response \in {"none", "open", "closed"}
    BY <2>1 DEF Lifecycle
  <2> HIDE DEF m, l
  <2>6. Fit(m, k, k, "panicked")
    <3> HIDE DEF k
    <3> QED BY <2>1, <2>2, <2>3, <2>5 DEF Fit
  <2> QED BY <2>1, <2>3, <2>4, <2>6, WriteFits
<1>3. CASE ClientLeaves(r)
  BY <1>3 DEF ClientLeaves, Fits, rounds
<1> QED BY <1>1, <1>2, <1>3 DEF End

\* A call writes the lifecycle of the round it holds, which may be over.
LEMMA AdminFits ==
  ASSUME Typed, Fits, NEW a \in Admins, Admin(a)
  PROVE  Fits'
<1>1. CASE CancelRound(a) \/ HaltRound(a)
  <2> DEFINE r == target[a]
             k == captured[a]
             l == life[r][k]
  <2>1. r \in Requests /\ k \in 1 .. round[r]
    BY <1>1 DEF CancelRound, HaltRound, Call, Typed, Aimed, Holding
  <2>2. k \in Rounds /\ k \in Nat /\ l \in Lifecycle /\ Fit(l, k, round[r], pc[r])
    <3>1. k \in Rounds
      BY <2>1, BoundsAssumption DEF Typed, TypeOK, Rounds
    <3> QED BY <2>1, <3>1, LifeType DEF Fits, Typed, Rounds
  <2>3. PICK m \in {CancelCtx(l, "canceled"), Halt(l)} : SetLife(r, k, m)
    BY <1>1 DEF CancelRound, HaltRound
  <2>4. pc' = pc /\ round' = round
    BY <1>1 DEF CancelRound, HaltRound, Call
  <2>5. m \in Lifecycle
    BY <2>2, <2>3, LifecycleOps
  <2>6. \A q \in Requests, n \in Rounds :
           life'[q][n] = IF q = r /\ n = k THEN m ELSE life[q][n]
    BY <2>1, <2>2, <2>3, <2>5, SetLifeEffect DEF Typed
  <2>7. /\ m.attached = l.attached
        /\ l.ctx # "live" => m.ctx # "live"
        /\ \/ m.stopped = l.stopped /\ m.response = l.response
           \/ m.response = IF l.attached /\ l.response = "open" THEN "closed" ELSE l.response
    BY <2>2, <2>3, CancelEffect, HaltEffect
  <2>8. l.response \in {"none", "open", "closed"}
    BY <2>2 DEF Lifecycle
  <2> HIDE DEF l, k
  <2>9. Fit(m, k, round[r], pc[r])
    BY <2>2, <2>7, <2>8 DEF Fit
  <2> HIDE DEF r
  <2> QED BY <2>1, <2>2, <2>4, <2>6, <2>9 DEF Fits
<1>2. CASE ~(CancelRound(a) \/ HaltRound(a))
  <2>1. UNCHANGED <<pc, round, life>>
    BY <1>2 DEF Admin, Proceed, StopAll, Snapshot, StopRequest, StopRequestByID, Interrupt,
       CloseStopCh, Return, Call
  <2> QED BY <2>1 DEF Fits
<1> QED BY <1>1, <1>2

\* The fit of the lifecycles is inductive relative to the type.
LEMMA NextFits == Typed /\ Fits /\ [Next]_vars => Fits'
<1> SUFFICES ASSUME Typed, Fits, [Next]_vars
             PROVE  Fits'
  OBVIOUS
<1>1. ASSUME NEW r \in Requests, Request(r)
      PROVE  Fits'
  BY <1>1, LoopFits, RoundFits, EndFits DEF Request
<1>2. ASSUME NEW a \in Admins, Admin(a)
      PROVE  Fits'
  BY <1>2, AdminFits
<1>3. CASE ClearStopAll \/ Clear \/ UNCHANGED vars
  BY <1>3 DEF ClearStopAll, Clear, vars, Fits, rounds
<1> QED BY <1>1, <1>2, <1>3 DEF Next, Terminated

\* Every lifecycle fits the place of its request.
LEMMA FitsAlways == Spec => [](Typed /\ Fits)
<1>1. Init => Typed /\ Fits
  BY InitTyped, InitFits
<1>2. Typed /\ Fits /\ [Next]_vars => Typed' /\ Fits'
  BY NextTyped, NextFits
<1> QED BY <1>1, <1>2, PTL DEF Spec

\* However stops, interrupts, timeouts and departures strike, an upstream
\* response is closed before its handler goes on.
THEOREM NoResponseOrphaned == Spec => []NoOrphanResponse
<1>1. Fits => NoOrphanResponse
  BY DEF Fits, Fit, NoOrphanResponse
<1> QED BY <1>1, FitsAlways, PTL

\* Of Stop and Attach, whichever comes second closes the response.
THEOREM StopAlwaysReachesResponse == Spec => []StopReachesResponse
<1>1. Fits => StopReachesResponse
  BY DEF Fits, Fit, StopReachesResponse
<1> QED BY <1>1, FitsAlways, PTL

\* A step that ends a cancel is the cancel of what the call holds.
LEMMA CancelIsOwn ==
  ASSUME Typed, NEW a \in Admins, apc[a] \in {"cancel", "interrupt"}, [Next]_vars,
         apc'[a] # apc[a]
  PROVE  CancelRound(a)
<1>1. ASSUME NEW r \in Requests, Request(r)
      PROVE  apc' = apc
  BY <1>1 DEF Request, Loop, Send, Judge, End, Enter, Register, EndAtTop, PassTop, SeeAllStopped,
     PassAllCheck, GiveUp, Defer, CutWait, EndWait, StartRound, Answer, FailToSend,
     FailToDispatch, TimeOut, Attach, RefuseCut, Forward, Deliver, JudgeEnds, JudgePasses,
     AfterRound, Commit, EndStream, Settle, Succeed, Finish, Panic, ClientLeaves, Handler, calls
<1>2. ASSUME NEW b \in Admins, Admin(b), b # a
      PROVE  apc'[a] = apc[a]
  BY <1>2 DEF Admin, Proceed, StopAll, Snapshot, StopRequest, StopRequestByID, Interrupt,
     CancelRound, HaltRound, CloseStopCh, Return, Call, CallGoto, Typed, TypeOK
<1>3. CASE Admin(a)
  BY <1>3 DEF Admin, Proceed, StopAll, Snapshot, StopRequest, StopRequestByID, Interrupt,
     HaltRound, CloseStopCh, Return, Call
<1>4. CASE ClearStopAll \/ Clear \/ UNCHANGED vars
  BY <1>4 DEF ClearStopAll, Clear, vars, calls
<1> QED BY <1>1, <1>2, <1>3, <1>4 DEF Next, Terminated

\* A cancel that comes late finds a context that was cut before: the round a
\* request is in is only cut by a call that took that round.
THEOREM LateStopAlwaysHarmless == Spec => LateStopHarmless
<1> DEFINE A == \A a \in Admins, r \in Requests, n \in Rounds :
                  /\ apc[a] \in {"cancel", "interrupt"} /\ apc'[a] # apc[a]
                  /\ life'[r][n].ctx # life[r][n].ctx
                  => r = target[a] /\ n = captured[a] /\ n = round[r]
<1>1. Typed /\ Fits /\ [Next]_vars => [A]_vars
  <2> SUFFICES ASSUME Typed, Fits, [Next]_vars, NEW a \in Admins, NEW r \in Requests,
                      NEW n \in Rounds, apc[a] \in {"cancel", "interrupt"}, apc'[a] # apc[a],
                      life'[r][n].ctx # life[r][n].ctx
               PROVE  r = target[a] /\ n = captured[a] /\ n = round[r]
    OBVIOUS
  <2> DEFINE q == target[a]
             k == captured[a]
             l == life[q][k]
  <2>1. CancelRound(a)
    BY CancelIsOwn
  <2>2. q \in Requests /\ k \in 1 .. round[q] /\ round[q] \in Nat
    BY <2>1 DEF CancelRound, Call, Typed, TypeOK, Aimed, Holding
  <2>3. k \in Rounds /\ l \in Lifecycle
    <3>1. k \in Rounds
      BY <2>2, BoundsAssumption DEF Typed, TypeOK, Rounds
    <3> QED BY <2>2, <3>1, LifeType DEF Typed
  <2>4. SetLife(q, k, CancelCtx(l, "canceled"))
    BY <2>1 DEF CancelRound
  <2>5. \A p \in Requests, i \in Rounds :
           life'[p][i] = IF p = q /\ i = k THEN CancelCtx(l, "canceled") ELSE life[p][i]
    BY <2>2, <2>3, <2>4, LifecycleOps, SetLifeEffect DEF Typed
  <2>6. r = q /\ n = k
    BY <2>5
  <2>7. l.ctx = "live"
    BY <2>2, <2>3, <2>5, <2>6, CancelEffect
  <2>8. ~(k < round[q])
    BY <2>2, <2>3, <2>7 DEF Fits, Fit
  <2> QED BY <2>2, <2>6, <2>8
<1> QED BY <1>1, FitsAlways, PTL DEF Spec, LateStopHarmless

-----------------------------------------------------------------------------
(* StopAllRequests.                                                        *)

\* No request is in progress in the initial states.
LEMMA InitCovered == Init => Covered
  BY DEF Init, Covered, InProgress, RoundPlaces, Running

\* What the administrator can still reach of a request.
Reached(r) ==
    \/ stopRequested[r]
    \/ pc[r] \in {"top", "allCheck", "rejected"}
    \/ \E a \in Admins : apc[a] = "snapshot" \/ r \in todo[a]

\* A step of a handler leaves the other requests as they are; it need only be
\* shown what becomes of its own.
LEMMA OneRequestCovered ==
  ASSUME Typed, Covered, NEW r \in Requests,
         NEW place, Goto(r, place),
         NEW st, status' = [status EXCEPT ![r] = st],
         listed' \subseteq Requests,
         \A q \in Requests : status'[q] \in Running /\ q \in listed => q \in listed',
         UNCHANGED <<stops, allStopped, calls>>,
         place \in InProgress => st \in Running,
         st \in Running => r \in listed',
         allStopped /\ st \in Running =>
            place \in {"top", "allCheck", "rejected"}
              \/ (status[r] \in Running /\ pc[r] \notin {"top", "allCheck", "rejected"})
  PROVE  Covered'
<1>1. /\ pc'[r] = place /\ \A q \in Requests \ {r} : pc'[q] = pc[q]
      /\ status'[r] = st /\ \A q \in Requests \ {r} : status'[q] = status[q]
  BY DEF Goto, Typed, TypeOK
<1>2. ASSUME NEW q \in Requests
      PROVE  /\ pc'[q] \in InProgress => status'[q] \in Running
             /\ status'[q] \in Running => q \in listed'
  BY <1>1 DEF Covered
<1>3. \A a \in Admins : apc'[a] = "idle" => todo'[a] = {}
  BY DEF Covered, calls
<1>4. ASSUME allStopped', NEW q \in Requests, status'[q] \in Running
      PROVE  \/ stopRequested'[q]
             \/ pc'[q] \in {"top", "allCheck", "rejected"}
             \/ \E a \in Admins : apc'[a] = "snapshot" \/ q \in todo'[a]
  BY <1>1, <1>4 DEF Covered, stops, calls
<1> QED BY <1>2, <1>3, <1>4 DEF Covered

\* A step that moves the handler and leaves the registry alone.
LEMMA MoveCovered ==
  ASSUME Typed, Covered, NEW r \in Requests, NEW place, Goto(r, place),
         UNCHANGED <<registry, stops, allStopped, calls>>,
         place \in InProgress => pc[r] \in InProgress,
         allStopped => place \in {"top", "allCheck", "rejected"}
                          \/ pc[r] \notin {"top", "allCheck", "rejected"}
  PROVE  Covered'
<1>1. status' = [status EXCEPT ![r] = status[r]] /\ listed' = listed /\ listed \subseteq Requests
  BY DEF registry, Typed, TypeOK
<1>2. /\ place \in InProgress => status[r] \in Running
      /\ status[r] \in Running => r \in listed
  BY DEF Covered
<1> QED BY <1>1, <1>2, OneRequestCovered

\* The first phase of a request's end.
LEMMA MarkCovered ==
  ASSUME Typed, Covered, NEW r \in Requests, NEW final \in Finished, Goto(r, "finishing"),
         status' = [status EXCEPT ![r] = final], UNCHANGED <<listed, stops, allStopped, calls>>
  PROVE  Covered'
<1>1. "finishing" \notin InProgress /\ final \notin Running /\ listed' \subseteq Requests
  BY DEF InProgress, RoundPlaces, Running, Finished, Typed, TypeOK
<1> QED BY <1>1, OneRequestCovered DEF Covered

\* A request is registered before it reads the flag.
LEMMA LoopCovered ==
  ASSUME Typed, Covered, NEW r \in Requests, Loop(r)
  PROVE  Covered'
<1> USE DEF InProgress, RoundPlaces
<1>1. CASE Enter(r)
  BY <1>1, MoveCovered DEF Enter, Handler
<1>2. ASSUME NEW masked \in BOOLEAN, Register(r, masked)
      PROVE  Covered'
  <2>1. \E place \in {"top", "rejected"} : Goto(r, place)
    BY <1>2 DEF Register
  <2>2. /\ status' = [status EXCEPT ![r] = "running"]
        /\ listed' = listed \cup {r} /\ listed' \subseteq Requests
        /\ UNCHANGED <<stops, allStopped, calls>>
    BY <1>2 DEF Register, Handler, Typed, TypeOK
  <2> QED BY <2>1, <2>2, OneRequestCovered DEF Running
<1>3. CASE EndAtTop(r) \/ SeeAllStopped(r) \/ GiveUp(r) \/ CutWait(r)
  BY <1>3, MarkCovered DEF EndAtTop, SeeAllStopped, GiveUp, CutWait, Handler, Mark, Finished
<1>4. CASE PassTop(r) \/ PassAllCheck(r)
  BY <1>4, MoveCovered DEF PassTop, PassAllCheck, Handler
<1>5. CASE Defer(r) \/ EndWait(r) \/ StartRound(r)
  BY <1>5, MoveCovered DEF Defer, EndWait, StartRound, Handler
<1> QED BY <1>1, <1>2, <1>3, <1>4, <1>5 DEF Loop

\* A round is past the flag: it goes on only under the protection it has.
LEMMA RoundCovered ==
  ASSUME Typed, Covered, NEW r \in Requests,
         Send(r) \/ TimeOut(r) \/ Judge(r) \/ Commit(r) \/ EndStream(r)
  PROVE  Covered'
<1> USE DEF InProgress, RoundPlaces
<1>0. Goto(r, pc[r]) <=> pc' = pc
  BY DEF Goto, Typed, TypeOK
<1>1. CASE Send(r)
  BY <1>1, MoveCovered DEF Send, Answer, FailToSend, FailToDispatch, Handler
<1>2. CASE TimeOut(r)
  BY <1>0, <1>2, MoveCovered DEF TimeOut, Handler
<1>3. CASE Attach(r) \/ RefuseCut(r) \/ Forward(r) \/ JudgePasses(r) \/ EndStream(r)
  BY <1>3, MoveCovered DEF Attach, RefuseCut, Forward, JudgePasses, EndStream, Handler
<1>4. CASE Deliver(r)
  <2>1. status[r] \in Running /\ r \in listed
    BY <1>4 DEF Deliver, Handler, Covered
  <2> QED BY <1>4, <2>1, OneRequestCovered DEF Deliver, Handler, Running, Typed, TypeOK
<1>5. CASE JudgeEnds(r)
  BY <1>5, MarkCovered DEF JudgeEnds, Handler, Finished
<1>6. CASE AfterRound(r)
  <2>1. CASE UNCHANGED registry
    BY <1>6, <2>1, MoveCovered DEF AfterRound, Handler
  <2>2. CASE status' = [status EXCEPT ![r] = "failed"] /\ Goto(r, "finishing")
                /\ UNCHANGED <<listed, id>>
    BY <1>6, <2>2, MarkCovered DEF AfterRound, Handler, Finished
  <2> QED BY <1>6, <2>1, <2>2 DEF AfterRound
<1>7. CASE Commit(r)
  <2>1. status[r] \in Running /\ r \in listed
    BY <1>7 DEF Commit, Handler, Covered
  <2> QED BY <1>0, <1>7, <2>1, OneRequestCovered DEF Commit, Handler, Running, Typed, TypeOK
<1> QED BY <1>1, <1>2, <1>3, <1>4, <1>5, <1>6, <1>7 DEF Judge

\* What is running stays in the registry when finished records leave it.
LEMMA EndCovered ==
  ASSUME Typed, Covered, NEW r \in Requests, End(r) \/ Panic(r) \/ ClientLeaves(r)
  PROVE  Covered'
<1> USE DEF InProgress, RoundPlaces
<1>1. CASE Settle(r) \/ Succeed(r)
  BY <1>1, MarkCovered DEF Settle, Succeed, Handler, Mark, Finished
<1>2. CASE Finish(r)
  <2>1. \A q \in listed : status[q] \in Running => q \in listed'
    BY <1>2 DEF Finish, Trimmed, FinishedOf, Running, Finished
  <2>2. listed' \subseteq Requests
    BY <1>2, TrimmedSubset DEF Finish, Typed, TypeOK
  <2>3. /\ status' = [status EXCEPT ![r] = status[r]] /\ status' = status
        /\ Goto(r, "done") /\ UNCHANGED <<stops, allStopped, calls>>
        /\ pc[r] = "finishing"
    BY <1>2 DEF Finish, Handler, Typed, TypeOK
  <2>4. status[r] \in Running => r \in listed'
    BY <2>1 DEF Covered
  <2> QED BY <2>1, <2>2, <2>3, <2>4, OneRequestCovered
<1>3. CASE Panic(r)
  BY <1>3, MoveCovered DEF Panic, Handler
<1>4. CASE ClientLeaves(r)
  BY <1>4 DEF ClientLeaves, Covered, registry, stops, calls
<1> QED BY <1>1, <1>2, <1>3, <1>4 DEF End

\* A snapshot takes every request in progress, and a request leaves the list of
\* a call only when it is marked.
LEMMA AdminCovered ==
  ASSUME Typed, Covered, NEW a \in Admins, Admin(a)
  PROVE  Covered'
<1>0. /\ UNCHANGED <<pc, registry>>
      /\ \A b \in Admins \ {a} : apc'[b] = apc[b] /\ todo'[b] = todo[b]
      /\ \A q \in Requests : stopRequested[q] => stopRequested'[q]
  BY DEF Admin, Proceed, StopAll, Snapshot, StopRequest, StopRequestByID, Interrupt,
     CancelRound, HaltRound, CloseStopCh, Return, Call, CallGoto, Typed, TypeOK, stops
<1>1. \A q \in Requests : /\ pc[q] \in InProgress => status[q] \in Running
                          /\ status[q] \in Running => q \in listed
  BY DEF Covered
<1>2. CASE StopAll(a)
  <2>1. apc'[a] = "snapshot" /\ todo' = todo
    BY <1>2 DEF StopAll, CallGoto, Typed, TypeOK
  <2> QED BY <1>0, <1>1, <2>1 DEF Covered, registry
<1>3. CASE Snapshot(a)
  <2>1. /\ apc'[a] = "stopping"
        /\ todo'[a] = {q \in listed : status[q] \in Running}
    BY <1>3 DEF Snapshot, CallGoto, Typed, TypeOK
  <2> QED BY <1>0, <1>1, <2>1 DEF Covered, registry
<1>4. ASSUME NEW r \in Requests, StopRequest(a, r)
      PROVE  Covered'
  <2>1. /\ apc[a] = "stopping" /\ apc'[a] # "idle"
        /\ todo'[a] = todo[a] \ {r}
        /\ stopRequested'[r]
        /\ allStopped' = allStopped
    BY <1>4 DEF StopRequest, Call, CallGoto, Typed, TypeOK
  <2> QED BY <1>0, <1>1, <2>1 DEF Covered, registry
<1>5. ASSUME NEW r \in Requests, StopRequestByID(a, r)
      PROVE  Covered'
  <2>1. apc[a] = "idle" /\ apc'[a] = "stopping" /\ allStopped' = allStopped
    BY <1>5 DEF StopRequestByID, Call, CallGoto, Typed, TypeOK
  <2> QED BY <1>0, <1>1, <2>1 DEF Covered, registry
<1>6. CASE CancelRound(a) \/ HaltRound(a) \/ CloseStopCh(a) \/ Return(a)
              \/ \E r \in Requests : Interrupt(a, r)
  <2>1. /\ apc[a] # "snapshot" /\ todo' = todo /\ allStopped' = allStopped
        /\ apc'[a] = "idle" => todo[a] = {}
    BY <1>6 DEF CancelRound, HaltRound, CloseStopCh, Return, Interrupt, Call, CallGoto,
       Typed, TypeOK
  <2> QED BY <1>0, <1>1, <2>1 DEF Covered, registry
<1> QED BY <1>2, <1>3, <1>4, <1>5, <1>6 DEF Admin, Proceed

\* The cover is inductive relative to the type.
LEMMA NextCovered == Typed /\ Covered /\ [Next]_vars => Covered'
<1> SUFFICES ASSUME Typed, Covered, [Next]_vars
             PROVE  Covered'
  OBVIOUS
<1>1. ASSUME NEW r \in Requests, Request(r)
      PROVE  Covered'
  BY <1>1, LoopCovered, RoundCovered, EndCovered DEF Request
<1>2. ASSUME NEW a \in Admins, Admin(a)
      PROVE  Covered'
  BY <1>2, AdminCovered
<1>3. CASE ClearStopAll
  BY <1>3 DEF ClearStopAll, Covered, registry, stops, calls
<1>4. CASE Clear
  <2>1. \A q \in listed : status[q] \in Running => q \in listed'
    BY <1>4 DEF Clear, FinishedOf, Running, Finished
  <2> QED BY <1>4, <2>1 DEF Clear, Covered, stops, calls
<1>5. CASE UNCHANGED vars
  BY <1>5 DEF vars, Covered, registry, stops, calls
<1> QED BY <1>1, <1>2, <1>3, <1>4, <1>5 DEF Next, Terminated

\* Once a StopAllRequests has returned and the flag is still set, every request
\* in progress has been told to stop or has yet to read the flag.
THEOREM StopAllAlwaysCovers == Spec => []StopAllCovers
<1>1. Init => Typed /\ Covered
  BY InitTyped, InitCovered
<1>2. Typed /\ Covered /\ [Next]_vars => Typed' /\ Covered'
  BY NextTyped, NextCovered
<1>3. Covered => StopAllCovers
  BY DEF Covered, StopAllCovers
<1> QED BY <1>1, <1>2, <1>3, PTL DEF Spec

-----------------------------------------------------------------------------
(* The history.                                                            *)

\* Among finitely many records there is an oldest one.
LEMMA OldestExists ==
  ASSUME TypeOK, NEW F \in SUBSET Requests, F # {}
  PROVE  \E q \in F : \A p \in F : id[q] <= id[p]
<1> DEFINE ids == {id[q] : q \in F}
<1>1. ids \subseteq Nat /\ ids # {}
  BY DEF TypeOK
<1>2. PICK n \in ids : \A m \in ids : ~ (<<m, n>> \in OpToRel(<, Nat))
  BY <1>1, NatLessThanWellFounded, WFMin
<1>3. \A m \in ids : n <= m
  <2> SUFFICES ASSUME NEW m \in ids
               PROVE  ~ (m < n)
    BY <1>1
  <2>1. m \in Nat /\ n \in Nat
    BY <1>1
  <2> QED BY <1>2, <2>1 DEF OpToRel
<1> QED BY <1>3

\* The finished records, and the ends in progress, are finitely many.
LEMMA HistoryFinite ==
  ASSUME TypeOK
  PROVE  /\ IsFiniteSet(FinishedOf(listed, status))
         /\ IsFiniteSet(Finishing)
         /\ Cardinality(FinishedOf(listed, status)) \in Nat
         /\ Cardinality(Finishing) \in Nat
<1>1. FinishedOf(listed, status) \subseteq Requests /\ Finishing \subseteq Requests
  BY DEF FinishedOf, Finishing, TypeOK
<1> QED BY <1>1, RequestsAssumption, FS_Subset, FS_CardinalityType

\* A step that adds no finished record and ends no end.
LEMMA HistoryShrinks ==
  ASSUME TypeOK, HistoryBounded,
         FinishedOf(listed', status') \subseteq FinishedOf(listed, status),
         Finishing' = Finishing
  PROVE  HistoryBounded'
<1>1. /\ Cardinality(FinishedOf(listed', status')) \in Nat
      /\ Cardinality(FinishedOf(listed', status')) <= Cardinality(FinishedOf(listed, status))
  BY HistoryFinite, FS_Subset, FS_CardinalityType
<1> QED BY <1>1, HistoryFinite, BoundsAssumption DEF HistoryBounded

\* The first phase of an end adds one record, and one end in progress.
LEMMA MarkBounded ==
  ASSUME TypeOK, HistoryBounded, NEW r \in Requests, pc[r] # "finishing", Goto(r, "finishing"),
         NEW final, status' = [status EXCEPT ![r] = final], listed' = listed
  PROVE  HistoryBounded'
<1> DEFINE F == FinishedOf(listed, status)
           G == FinishedOf(listed', status')
<1>1. G \subseteq F \cup {r}
  BY DEF FinishedOf, TypeOK
<1>2. Finishing' = Finishing \cup {r} /\ r \notin Finishing
  BY DEF Finishing, Goto, TypeOK
<1>3. /\ IsFiniteSet(F) /\ Cardinality(F) \in Nat
      /\ IsFiniteSet(Finishing) /\ Cardinality(Finishing) \in Nat
  BY HistoryFinite
<1> HIDE DEF F, G
<1>4. /\ IsFiniteSet(F \cup {r})
      /\ Cardinality(F \cup {r}) \in Nat
      /\ Cardinality(F \cup {r}) <= Cardinality(F) + 1
  <2>1. IsFiniteSet(F \cup {r})
    BY <1>3, FS_AddElement
  <2>2. Cardinality(F \cup {r}) \in {Cardinality(F), Cardinality(F) + 1}
    BY <1>3, FS_AddElement
  <2> QED BY <1>3, <2>1, <2>2
<1>5. Cardinality(G) \in Nat /\ Cardinality(G) <= Cardinality(F \cup {r})
  BY <1>1, <1>4, FS_Subset, FS_CardinalityType
<1>6. Cardinality(Finishing') = Cardinality(Finishing) + 1
  BY <1>2, <1>3, FS_AddElement
<1>7. Cardinality(F) <= MaxFinished + Cardinality(Finishing)
  BY DEF F, HistoryBounded
<1>8. Cardinality(G) <= MaxFinished + Cardinality(Finishing')
  BY <1>3, <1>4, <1>5, <1>6, <1>7, BoundsAssumption
<1> QED BY <1>8 DEF G, HistoryBounded

\* The second phase ends an end and drops the oldest of too many records.
LEMMA FinishBounded ==
  ASSUME TypeOK, HistoryBounded, NEW r \in Requests, Finish(r)
  PROVE  HistoryBounded'
<1> DEFINE F == FinishedOf(listed, status)
           G == FinishedOf(listed', status')
           oldest == {q \in F : \A p \in F : id[q] <= id[p]}
<1>1. Finishing' = Finishing \ {r} /\ r \in Finishing
  BY DEF Finish, Handler, Finishing, Goto, TypeOK
<1>2. /\ IsFiniteSet(F) /\ Cardinality(F) \in Nat
      /\ IsFiniteSet(Finishing) /\ Cardinality(Finishing) \in Nat
  BY HistoryFinite
<1>3. Cardinality(Finishing') = Cardinality(Finishing) - 1
  BY <1>1, <1>2, FS_RemoveElement
<1>4. Cardinality(Finishing') \in Nat
  BY <1>1, <1>2, FS_RemoveElement, FS_CardinalityType
<1>5. Cardinality(F) <= MaxFinished + Cardinality(Finishing)
  BY DEF HistoryBounded
<1>6. status' = status /\ listed' = Trimmed(listed)
  BY DEF Finish
<1>7. CASE Cardinality(F) > MaxFinished
  <2>1. listed' = listed \ oldest
    BY <1>6, <1>7 DEF Trimmed
  <2>2. G = F \ oldest
    BY <1>6, <2>1 DEF FinishedOf
  <2>3. F \subseteq Requests
    BY DEF FinishedOf, TypeOK
  <2>4. F # {}
    BY <1>2, <1>7, FS_EmptySet, BoundsAssumption
  <2>5. PICK q \in F : q \in oldest
    BY <2>3, <2>4, OldestExists
  <2> HIDE DEF F, G, oldest
  <2>6. G \subseteq F \ {q}
    BY <2>2, <2>5
  <2>7. IsFiniteSet(F \ {q}) /\ Cardinality(F \ {q}) = Cardinality(F) - 1
    BY <1>2, <2>5, FS_RemoveElement
  <2>8. Cardinality(G) \in Nat /\ Cardinality(G) <= Cardinality(F) - 1
    BY <2>6, <2>7, FS_Subset, FS_CardinalityType
  <2>9. Cardinality(G) <= MaxFinished + Cardinality(Finishing')
    BY <1>2, <1>3, <1>5, <2>8, BoundsAssumption
  <2> QED BY <2>9 DEF G, HistoryBounded
<1>8. CASE ~(Cardinality(F) > MaxFinished)
  <2>1. G = F
    BY <1>6, <1>8 DEF Trimmed
  <2> HIDE DEF F
  <2>2. Cardinality(F) <= MaxFinished + Cardinality(Finishing')
    BY <1>2, <1>4, <1>8, BoundsAssumption
  <2> QED BY <2>1, <2>2 DEF HistoryBounded
<1> QED BY <1>7, <1>8

\* A step that moves the handler between places that are not the end.
LEMMA MoveBounded ==
  ASSUME TypeOK, HistoryBounded, NEW r \in Requests, NEW place, Goto(r, place),
         pc[r] # "finishing", place # "finishing",
         FinishedOf(listed', status') \subseteq FinishedOf(listed, status)
  PROVE  HistoryBounded'
<1>1. Finishing' = Finishing
  BY DEF Finishing, Goto, TypeOK
<1> QED BY <1>1, HistoryShrinks

\* The steps of a request keep the bound.
LEMMA RequestBounded ==
  ASSUME TypeOK, HistoryBounded, NEW r \in Requests, Request(r)
  PROVE  HistoryBounded'
<1>0. Goto(r, pc[r]) <=> pc' = pc
  BY DEF Goto, TypeOK
<1>1. CASE EndAtTop(r) \/ SeeAllStopped(r) \/ GiveUp(r) \/ CutWait(r) \/ Settle(r)
              \/ Succeed(r) \/ JudgeEnds(r)
  BY <1>1, MarkBounded DEF EndAtTop, SeeAllStopped, GiveUp, CutWait, Settle, Succeed,
     JudgeEnds, Handler, Mark
<1>2. CASE AfterRound(r)
  <2>1. CASE UNCHANGED registry /\ \E place \in {"top", "wait"} : Goto(r, place)
    BY <1>2, <2>1, MoveBounded DEF AfterRound, Handler, registry
  <2>2. CASE status' = [status EXCEPT ![r] = "failed"] /\ Goto(r, "finishing")
                /\ UNCHANGED <<listed, id>>
    BY <1>2, <2>2, MarkBounded DEF AfterRound, Handler
  <2> QED BY <1>2, <2>1, <2>2 DEF AfterRound
<1>3. CASE Finish(r)
  BY <1>3, FinishBounded
<1>4. ASSUME NEW masked \in BOOLEAN, Register(r, masked)
      PROVE  HistoryBounded'
  <2>1. FinishedOf(listed', status') \subseteq FinishedOf(listed, status)
    BY <1>4 DEF Register, FinishedOf, Finished, TypeOK
  <2> QED BY <1>4, <2>1, MoveBounded DEF Register, Handler
<1>5. CASE Deliver(r) \/ Commit(r)
  <2>1. FinishedOf(listed', status') \subseteq FinishedOf(listed, status)
    BY <1>5 DEF Deliver, Commit, FinishedOf, Finished, TypeOK
  <2> QED BY <1>0, <1>5, <2>1, MoveBounded DEF Deliver, Commit, Handler
<1>6. CASE Enter(r) \/ PassTop(r) \/ PassAllCheck(r) \/ Defer(r) \/ EndWait(r) \/ StartRound(r)
  BY <1>6, MoveBounded DEF Enter, PassTop, PassAllCheck, Defer, EndWait, StartRound,
     Handler, registry
<1>7. CASE Send(r) \/ Attach(r) \/ RefuseCut(r) \/ Forward(r) \/ JudgePasses(r) \/ EndStream(r)
  BY <1>7, MoveBounded DEF Send, Answer, FailToSend, FailToDispatch, Attach, RefuseCut, Forward,
     JudgePasses, EndStream, Handler, registry
<1>8. CASE Panic(r)
  BY <1>8, MoveBounded DEF Panic, registry
<1>9. CASE TimeOut(r) \/ ClientLeaves(r)
  BY <1>9, HistoryShrinks DEF TimeOut, ClientLeaves, registry, Finishing
<1> QED BY <1>1, <1>2, <1>3, <1>4, <1>5, <1>6, <1>7, <1>8, <1>9
        DEF Request, Loop, Judge, End

\* However ends, trims and Clear interleave, the finished records exceed
\* maxFinished by no more than the ends in progress.
THEOREM HistoryAlwaysBounded == Spec => []HistoryBounded
<1>1. Init => HistoryBounded
  <2> SUFFICES ASSUME Init
               PROVE  HistoryBounded
    OBVIOUS
  <2>1. FinishedOf(listed, status) = {} /\ Finishing = {}
    BY DEF Init, FinishedOf, Finishing
  <2> QED BY <2>1, FS_EmptySet, BoundsAssumption DEF HistoryBounded
<1>2. TypeOK /\ HistoryBounded /\ [Next]_vars => HistoryBounded'
  <2> SUFFICES ASSUME TypeOK, HistoryBounded, [Next]_vars
               PROVE  HistoryBounded'
    OBVIOUS
  <2>1. ASSUME NEW r \in Requests, Request(r)
        PROVE  HistoryBounded'
    BY <2>1, RequestBounded
  <2>2. ASSUME NEW a \in Admins, Admin(a)
        PROVE  HistoryBounded'
    <3>1. UNCHANGED <<pc, listed, status>>
      BY <2>2 DEF Admin, Proceed, StopAll, Snapshot, StopRequest, StopRequestByID, Interrupt,
         CancelRound, HaltRound, CloseStopCh, Return, Call, registry
    <3> QED BY <3>1, HistoryShrinks DEF Finishing
  <2>3. CASE Clear
    BY <2>3, HistoryShrinks DEF Clear, FinishedOf, Finishing
  <2>4. CASE ClearStopAll \/ UNCHANGED vars
    BY <2>4, HistoryShrinks DEF ClearStopAll, vars, registry, Finishing
  <2> QED BY <2>1, <2>2, <2>3, <2>4 DEF Next, Terminated
<1> QED BY <1>1, <1>2, TypeCorrect, PTL DEF Spec
=============================================================================
