--------------------------- MODULE RequestControl ---------------------------
(***************************************************************************)
(* The registry of requests and the controls the administrator has over    *)
(* them (internal/relay/state.go), with the part of the forwarding loop    *)
(* (handler.go) the controls act on: registration, the checks at the top   *)
(* of the loop, the waits, the rounds with their roundLifecycle, and the   *)
(* two phases of a request's end.  Administrators stop one request or all  *)
(* of them, interrupt a round and clear the history while it runs.  An     *)
(* action is one critical section of mu, or of a lifecycle's own mutex,    *)
(* with the local steps that follow it.                                    *)
(*                                                                         *)
(* A request starts once and makes at most MaxRounds rounds.  Which member *)
(* a round uses, and why it fails, is left open.                           *)
(***************************************************************************)
EXTENDS Integers, FiniteSets

CONSTANTS
    Requests,    \* requests of clients
    NoRequest,   \* what an idle call is about
    Streaming,   \* those that asked for a stream
    Admins,      \* calls of the administrator in progress at the same time
    MaxRounds,   \* bound: rounds of a request
    MaxFinished, \* maxFinished
    Controls     \* the calls the administrators make

AllControls == {"stopAll", "stop", "interrupt", "clear"}

ASSUME RequestsAssumption == 
    /\ IsFiniteSet(Requests)
    /\ Streaming \subseteq Requests
    /\ NoRequest \notin Requests
ASSUME BoundsAssumption == MaxRounds \in Nat /\ MaxFinished \in Nat \ {0}
ASSUME ControlsAssumption == Controls \subseteq AllControls

VARIABLES
    pc,            \* where a request's handler is
    status,        \* Status
    listed,        \* the requests map
    id,            \* ID
    round,         \* Round
    cancelSet,     \* whether r.cancel is set, to the round's lifecycle.Stop
    stopRequested, \* stopRequested
    stopClosed,    \* stopCh has been closed
    gone,          \* the client's context has ended
    life,          \* the lifecycle of each round and its response
    allStopped,    \* allStopped
    apc,           \* where an administrator's call is
    todo,          \* the requests it has yet to stop
    target,        \* the request it is about
    captured       \* the round whose cancel it holds, 0 for nil

registry == <<status, listed, id>>
stops == <<stopRequested, stopClosed>>
rounds == <<round, cancelSet, life>>
calls == <<apc, todo, target, captured>>
vars == <<pc, registry, rounds, stops, gone, allStopped, calls>>

Rounds == 1 .. MaxRounds
Running == {"running", "committed"}
Finished == {"success", "failed", "canceled"}

Places == {"new", "entered", "top", "allCheck", "pick", "wait", "sending",
           "attach", "check", "judge", "release", "stream", "settle",
           "delivered", "finishing", "done", "rejected", "panicked"}

CallPlaces == {"idle", "snapshot", "stopping", "cancel", "halt", "close",
               "interrupt", "haltOnly"}

Lifecycle == [ctx      : {"live", "canceled", "timeout"},
              stopped  : BOOLEAN,
              attached : BOOLEAN,
              response : {"none", "open", "closed"}]

NewLifecycle ==
    [ctx |-> "live", stopped |-> FALSE, attached |-> FALSE, response |-> "none"]

TypeOK ==
    /\ pc \in [Requests -> Places]
    /\ status \in [Requests -> {"none"} \cup Running \cup Finished]
    /\ listed \subseteq Requests
    /\ id \in [Requests -> Nat]
    /\ round \in [Requests -> 0 .. MaxRounds]
    /\ cancelSet \in [Requests -> BOOLEAN]
    /\ stopRequested \in [Requests -> BOOLEAN]
    /\ stopClosed \in [Requests -> BOOLEAN]
    /\ gone \in [Requests -> BOOLEAN]
    /\ life \in [Requests -> [Rounds -> Lifecycle]]
    /\ allStopped \in BOOLEAN
    /\ apc \in [Admins -> CallPlaces]
    /\ todo \in [Admins -> SUBSET Requests]
    /\ target \in [Admins -> Requests \cup {NoRequest}]
    /\ captured \in [Admins -> 0 .. MaxRounds]

Init ==
    /\ pc = [r \in Requests |-> "new"]
    /\ status = [r \in Requests |-> "none"]
    /\ listed = {}
    /\ id = [r \in Requests |-> 0]
    /\ round = [r \in Requests |-> 0]
    /\ cancelSet = [r \in Requests |-> FALSE]
    /\ stopRequested = [r \in Requests |-> FALSE]
    /\ stopClosed = [r \in Requests |-> FALSE]
    /\ gone = [r \in Requests |-> FALSE]
    /\ life = [r \in Requests |-> [n \in Rounds |-> NewLifecycle]]
    /\ allStopped = FALSE
    /\ apc = [a \in Admins |-> "idle"]
    /\ todo = [a \in Admins |-> {}]
    /\ target = [a \in Admins |-> NoRequest]
    /\ captured = [a \in Admins |-> 0]

-----------------------------------------------------------------------------
(* Parts of the handler's steps.                                           *)

Goto(r, place) == pc' = [pc EXCEPT ![r] = place]

Handler(r, place) ==
    pc[r] = place /\ UNCHANGED <<stops, gone, allStopped, calls>>

Current(r) == life[r][round[r]]

SetLife(r, n, l) == life' = [life EXCEPT ![r][n] = l]

CloseResponse(l) ==
    [l EXCEPT !.response = IF @ = "open" THEN "closed" ELSE @]

\* The first cause of a cancellation stays.
CancelCtx(l, cause) == [l EXCEPT !.ctx = IF @ = "live" THEN cause ELSE @]

\* Stop marks the lifecycle and closes the response it finds attached.
Halt(l) ==
    LET marked == [l EXCEPT !.stopped = TRUE]
    IN  IF l.attached THEN CloseResponse(marked) ELSE marked

StopLifecycle(l) == Halt(CancelCtx(l, "canceled"))

\* releaseRoundLifecycle; l is the round's lifecycle as the handler leaves it.
ReleaseRound(r, l) ==
    /\ cancelSet' = [cancelSet EXCEPT ![r] = FALSE]
    /\ SetLife(r, round[r], IF cancelSet[r] THEN StopLifecycle(l) ELSE l)
    /\ UNCHANGED round

\* The first phase of the end of a request: markSucceeded and its likes.
Mark(r, final) ==
    /\ status' = [status EXCEPT ![r] = final]
    /\ cancelSet' = [cancelSet EXCEPT ![r] = FALSE]
    /\ Goto(r, "finishing")
    /\ UNCHANGED <<listed, id, round, life>>

-----------------------------------------------------------------------------
(* Entry and the top of the loop.                                          *)

Enter(r) ==
    /\ Handler(r, "new")
    /\ Goto(r, IF allStopped THEN "rejected" ELSE "entered")
    /\ UNCHANGED <<registry, rounds>>

\* A request whose masking fails is rejected once it is registered.
Register(r, masked) ==
    /\ Handler(r, "entered")
    /\ id' = [id EXCEPT ![r] = 1 + Cardinality({q \in Requests : id[q] # 0})]
    /\ status' = [status EXCEPT ![r] = "running"]
    /\ listed' = listed \cup {r}
    /\ Goto(r, IF masked THEN "top" ELSE "rejected")
    /\ UNCHANGED rounds

EndAtTop(r) ==
    /\ Handler(r, "top")
    /\ gone[r] \/ stopRequested[r]
    /\ Mark(r, "canceled")

\* Mutated: the mark of the administrator is not read.
PassTopUnread(r) ==
    /\ Handler(r, "top")
    /\ ~gone[r]
    /\ Goto(r, "allCheck")
    /\ UNCHANGED <<registry, rounds>>

PassTop(r) ==
    /\ Handler(r, "top")
    /\ ~gone[r] /\ ~stopRequested[r]
    /\ Goto(r, "allCheck")
    /\ UNCHANGED <<registry, rounds>>

SeeAllStopped(r) ==
    /\ Handler(r, "allCheck")
    /\ allStopped
    /\ Mark(r, "failed")

PassAllCheck(r) ==
    /\ Handler(r, "allCheck")
    /\ ~allStopped
    /\ Goto(r, "pick")
    /\ UNCHANGED <<registry, rounds>>

\* Too many rounds, too long, or no member worth waiting for.
GiveUp(r) == Handler(r, "pick") /\ Mark(r, "failed")

\* No member now.
Defer(r) ==
    /\ Handler(r, "pick")
    /\ Goto(r, "wait")
    /\ UNCHANGED <<registry, rounds>>

\* wait, and the wait for the channel's request rate, end early.
CutWait(r) ==
    /\ pc[r] \in {"pick", "wait"}
    /\ Handler(r, pc[r])
    /\ gone[r] \/ stopClosed[r]
    /\ Mark(r, "canceled")

EndWait(r) ==
    /\ Handler(r, "wait")
    /\ Goto(r, "top")
    /\ UNCHANGED <<registry, rounds>>

-----------------------------------------------------------------------------
(* A round.                                                                *)

StartRound(r) ==
    /\ Handler(r, "pick")
    /\ round[r] < MaxRounds
    /\ round' = [round EXCEPT ![r] = @ + 1]
    /\ cancelSet' = [cancelSet EXCEPT ![r] = TRUE]
    /\ Goto(r, "sending")
    /\ UNCHANGED <<registry, life>>

\* The upstream answers, even when the round has just been cancelled.
Answer(r) ==
    /\ Handler(r, "sending")
    /\ SetLife(r, round[r], [Current(r) EXCEPT !.response = "open"])
    /\ Goto(r, "attach")
    /\ UNCHANGED <<registry, round, cancelSet>>

FailToSend(r) ==
    /\ Handler(r, "sending")
    /\ Goto(r, "judge")
    /\ UNCHANGED <<registry, rounds>>

\* No credential or proxy for the channel: the round fails unsent, and the
\* marks of the administrator and of the client are left to the loop.
FailToDispatch(r) ==
    /\ Handler(r, "sending")
    /\ ReleaseRound(r, Current(r))
    /\ \E place \in {"top", "wait"} : Goto(r, place)
    /\ UNCHANGED registry

\* The member is too slow to answer, or its stream idles too long.
TimeOut(r) ==
    /\ pc[r] \in {"sending", "attach", "check", "stream"}
    /\ Handler(r, pc[r])
    /\ Current(r).ctx = "live"
    /\ SetLife(r, round[r], CancelCtx(Current(r), "timeout"))
    /\ UNCHANGED <<pc, registry, round, cancelSet>>

\* Mutated: the mark of Stop is not read.
AttachUnread(r) ==
    /\ Handler(r, "attach")
    /\ SetLife(r, round[r], [Current(r) EXCEPT !.attached = TRUE])
    /\ Goto(r, "check")
    /\ UNCHANGED <<registry, round, cancelSet>>

\* A response that arrives after Stop is closed as it is attached.
Attach(r) ==
    LET attached == [Current(r) EXCEPT !.attached = TRUE]
    IN  /\ Handler(r, "attach")
        /\ SetLife(r, round[r],
                   IF attached.stopped THEN CloseResponse(attached) ELSE attached)
        /\ Goto(r, "check")
        /\ UNCHANGED <<registry, round, cancelSet>>

\* Mutated: only the client's context is watched.
RoundCutByClient(r) == gone[r]

RoundCut(r) == gone[r] \/ Current(r).ctx # "live"

\* Mutated: the stream that will not be forwarded stays open.
RefuseCutOpen(r) ==
    /\ Handler(r, "check")
    /\ r \in Streaming /\ RoundCut(r)
    /\ Goto(r, "judge")
    /\ UNCHANGED <<registry, rounds>>

\* A stream whose round has been cut is closed and not forwarded.
RefuseCut(r) ==
    /\ Handler(r, "check")
    /\ r \in Streaming /\ RoundCut(r)
    /\ SetLife(r, round[r], CloseResponse(Current(r)))
    /\ Goto(r, "judge")
    /\ UNCHANGED <<registry, round, cancelSet>>

Forward(r) ==
    /\ Handler(r, "check")
    /\ r \in Streaming /\ ~RoundCut(r)
    /\ Goto(r, "stream")
    /\ UNCHANGED <<registry, rounds>>

\* A whole body: the round is released, then the body is written.
Deliver(r) ==
    /\ Handler(r, "check")
    /\ r \notin Streaming
    /\ ReleaseRound(r, CloseResponse(Current(r)))
    /\ status' = [status EXCEPT ![r] = "committed"]
    /\ Goto(r, "delivered")
    /\ UNCHANGED <<listed, id>>

\* After finishRound: the administrator's stop and the client's departure
\* end the request here.
JudgeEnds(r) ==
    /\ Handler(r, "judge")
    /\ stopRequested[r] \/ gone[r]
    /\ status' = [status EXCEPT ![r] = "canceled"]
    /\ ReleaseRound(r, Current(r))
    /\ Goto(r, "finishing")
    /\ UNCHANGED <<listed, id>>

JudgePasses(r) ==
    /\ Handler(r, "judge")
    /\ ~stopRequested[r] /\ ~gone[r]
    /\ Goto(r, "release")
    /\ UNCHANGED <<registry, rounds>>

\* A round cut by the administrator is not a failure: choose again at once.
\* Any other ends in a retry, a wait, or the failure of the request.
AfterRound(r) ==
    /\ Handler(r, "release")
    /\ ReleaseRound(r, Current(r))
    /\ \/ Goto(r, "top") /\ UNCHANGED registry
       \/ /\ Current(r).ctx # "canceled"
          /\ Goto(r, "wait")
          /\ UNCHANGED registry
       \/ /\ Current(r).ctx # "canceled"
          /\ status' = [status EXCEPT ![r] = "failed"]
          /\ Goto(r, "finishing")
          /\ UNCHANGED <<listed, id>>

Commit(r) ==
    /\ Handler(r, "stream")
    /\ status[r] = "running"
    /\ status' = [status EXCEPT ![r] = "committed"]
    /\ UNCHANGED <<pc, listed, id, rounds>>

\* The stream ends, whole or broken; a cut is only one of the reasons.
EndStream(r) ==
    /\ Handler(r, "stream")
    /\ ReleaseRound(r, CloseResponse(Current(r)))
    /\ \E place \in {"delivered", "settle"} : Goto(r, place)
    /\ UNCHANGED registry

Settle(r) ==
    /\ Handler(r, "settle")
    /\ Mark(r, IF stopRequested[r] \/ gone[r] THEN "canceled" ELSE "failed")

\* The body may fail to be written.
Succeed(r) ==
    /\ Handler(r, "delivered")
    /\ \/ Mark(r, "success")
       \/ r \notin Streaming /\ Mark(r, IF gone[r] THEN "canceled" ELSE "failed")

-----------------------------------------------------------------------------
(* The second phase of the end, and panics.                                *)

FinishedOf(L, st) == {q \in L : st[q] \in Finished}

\* Mutated: off by one.
TrimmedLate(L) ==
    LET F == FinishedOf(L, status)
    IN  IF Cardinality(F) > MaxFinished + 1
        THEN L \ {q \in F : \A p \in F : id[q] <= id[p]} ELSE L

\* trimFinishedRequestsLocked deletes the oldest record of too many.
Trimmed(L) ==
    LET F == FinishedOf(L, status)
    IN  IF Cardinality(F) > MaxFinished
        THEN L \ {q \in F : \A p \in F : id[q] <= id[p]} ELSE L

Finish(r) ==
    /\ Handler(r, "finishing")
    /\ listed' = Trimmed(listed)
    /\ Goto(r, "done")
    /\ UNCHANGED <<status, id, rounds>>

\* The deferred recover stops the round and ends nothing else.
Panic(r) ==
    /\ pc[r] \in {"sending", "check", "judge", "release", "stream"}
    /\ Handler(r, pc[r])
    /\ SetLife(r, round[r], StopLifecycle(Current(r)))
    /\ Goto(r, "panicked")
    /\ UNCHANGED <<registry, round, cancelSet>>

ClientLeaves(r) ==
    /\ pc[r] \notin {"new", "done", "rejected", "panicked"}
    /\ ~gone[r]
    /\ gone' = [gone EXCEPT ![r] = TRUE]
    /\ UNCHANGED <<pc, registry, rounds, stops, allStopped, calls>>

-----------------------------------------------------------------------------
(* Calls of the administrator.                                             *)

Call(a, place) == apc[a] = place /\ UNCHANGED <<pc, registry, round, cancelSet, gone>>

CallGoto(a, place) == apc' = [apc EXCEPT ![a] = place]

StopAll(a) ==
    /\ "stopAll" \in Controls
    /\ Call(a, "idle")
    /\ allStopped' = TRUE
    /\ CallGoto(a, "snapshot")
    /\ UNCHANGED <<stops, life, todo, target, captured>>

\* Mutated: only requests with a round to cancel are stopped.
SnapshotWithRound(a) ==
    /\ Call(a, "snapshot")
    /\ todo' = [todo EXCEPT ![a] = {r \in listed : cancelSet[r]}]
    /\ CallGoto(a, "stopping")
    /\ UNCHANGED <<stops, life, allStopped, target, captured>>

Snapshot(a) ==
    /\ Call(a, "snapshot")
    /\ todo' = [todo EXCEPT ![a] = {r \in listed : status[r] \in Running}]
    /\ CallGoto(a, "stopping")
    /\ UNCHANGED <<stops, life, allStopped, target, captured>>

StopRequestByID(a, r) ==
    /\ "stop" \in Controls
    /\ Call(a, "idle")
    /\ r \in listed
    /\ todo' = [todo EXCEPT ![a] = {r}]
    /\ CallGoto(a, "stopping")
    /\ UNCHANGED <<stops, life, allStopped, target, captured>>

\* StopRequest sets the mark and takes what it has to call, or returns when
\* the mark is set.
StopRequest(a, r) ==
    /\ Call(a, "stopping")
    /\ r \in todo[a]
    /\ todo' = [todo EXCEPT ![a] = @ \ {r}]
    /\ IF stopRequested[r]
       THEN UNCHANGED <<stopRequested, apc, target, captured>>
       ELSE /\ stopRequested' = [stopRequested EXCEPT ![r] = TRUE]
            /\ target' = [target EXCEPT ![a] = r]
            /\ captured' = [captured EXCEPT ![a] = IF cancelSet[r] THEN round[r] ELSE 0]
            /\ CallGoto(a, IF cancelSet[r] THEN "cancel" ELSE "close")
    /\ UNCHANGED <<stopClosed, life, allStopped>>

\* The panel names the round it shows; one that is over is left alone.
Interrupt(a, r) ==
    /\ "interrupt" \in Controls
    /\ Call(a, "idle")
    /\ r \in listed /\ cancelSet[r]
    /\ target' = [target EXCEPT ![a] = r]
    /\ captured' = [captured EXCEPT ![a] = round[r]]
    /\ CallGoto(a, "interrupt")
    /\ UNCHANGED <<stops, life, allStopped, todo>>

\* Mutated: the cancel is read again when it is called.
CancelLatestRound(a) ==
    \E call \in {<<"cancel", "halt">>, <<"interrupt", "haltOnly">>} :
        LET r == target[a]
        IN  /\ Call(a, call[1])
            /\ SetLife(r, round[r], CancelCtx(Current(r), "canceled"))
            /\ CallGoto(a, call[2])
            /\ UNCHANGED <<stops, allStopped, todo, target, captured>>

\* Stop of the captured lifecycle, in its two steps.
CancelRound(a) ==
    \E call \in {<<"cancel", "halt">>, <<"interrupt", "haltOnly">>} :
        /\ Call(a, call[1])
        /\ SetLife(target[a], captured[a],
                   CancelCtx(life[target[a]][captured[a]], "canceled"))
        /\ CallGoto(a, call[2])
        /\ UNCHANGED <<stops, allStopped, todo, target, captured>>

HaltRound(a) ==
    \E call \in {<<"halt", "close">>, <<"haltOnly", "stopping">>} :
        /\ Call(a, call[1])
        /\ SetLife(target[a], captured[a], Halt(life[target[a]][captured[a]]))
        /\ CallGoto(a, call[2])
        /\ UNCHANGED <<stops, allStopped, todo, target, captured>>

CloseStopCh(a) ==
    /\ Call(a, "close")
    /\ stopClosed' = [stopClosed EXCEPT ![target[a]] = TRUE]
    /\ CallGoto(a, "stopping")
    /\ UNCHANGED <<stopRequested, life, allStopped, todo, target, captured>>

\* A call with nothing left to stop returns.
Return(a) ==
    /\ Call(a, "stopping")
    /\ todo[a] = {}
    /\ target' = [target EXCEPT ![a] = NoRequest]
    /\ captured' = [captured EXCEPT ![a] = 0]
    /\ CallGoto(a, "idle")
    /\ UNCHANGED <<stops, life, allStopped, todo>>

ClearStopAll ==
    /\ allStopped
    /\ allStopped' = FALSE
    /\ UNCHANGED <<pc, registry, rounds, stops, gone, calls>>

Clear ==
    /\ "clear" \in Controls
    /\ FinishedOf(listed, status) # {}
    /\ listed' = listed \ FinishedOf(listed, status)
    /\ UNCHANGED <<pc, status, id, rounds, stops, gone, allStopped, calls>>

-----------------------------------------------------------------------------
Loop(r) ==
    \/ Enter(r) \/ \E masked \in BOOLEAN : Register(r, masked)
    \/ EndAtTop(r) \/ PassTop(r) \/ SeeAllStopped(r) \/ PassAllCheck(r)
    \/ GiveUp(r) \/ Defer(r) \/ CutWait(r) \/ EndWait(r) \/ StartRound(r)

Send(r) == Answer(r) \/ FailToSend(r) \/ FailToDispatch(r)

Judge(r) ==
    \/ Attach(r) \/ RefuseCut(r) \/ Forward(r) \/ Deliver(r)
    \/ JudgeEnds(r) \/ JudgePasses(r) \/ AfterRound(r)

End(r) == Settle(r) \/ Succeed(r) \/ Finish(r)

Request(r) ==
    \/ Loop(r) \/ Send(r) \/ TimeOut(r) \/ Judge(r)
    \/ Commit(r) \/ EndStream(r) \/ End(r) \/ Panic(r) \/ ClientLeaves(r)

Proceed(a) ==
    \/ Snapshot(a) \/ \E r \in Requests : StopRequest(a, r)
    \/ CancelRound(a) \/ HaltRound(a) \/ CloseStopCh(a) \/ Return(a)

Admin(a) ==
    \/ StopAll(a) \/ Proceed(a)
    \/ \E r \in Requests : StopRequestByID(a, r) \/ Interrupt(a, r)

Terminated ==
    /\ \A r \in Requests : pc[r] \in {"done", "rejected", "panicked"}
    /\ \A a \in Admins : apc[a] = "idle"
    /\ UNCHANGED vars

Next ==
    \/ \E r \in Requests : Request(r)
    \/ \E a \in Admins : Admin(a)
    \/ ClearStopAll \/ Clear \/ Terminated

Spec == Init /\ [][Next]_vars

\* Local steps and timed waits end, and so does an administrator's call.  An
\* upstream call and a stream need only end once their round has been cut.
Fairness ==
    /\ \A r \in Requests :
          /\ WF_vars(Loop(r))
          /\ WF_vars(Judge(r))
          /\ WF_vars(End(r))
          /\ WF_vars((Send(r) \/ EndStream(r)) /\ RoundCut(r))
    /\ \A a \in Admins : WF_vars(Proceed(a))

FairSpec == Spec /\ Fairness

-----------------------------------------------------------------------------
(* Safety.                                                                 *)

\* An upstream response, and the channel slot it holds, never outlives its
\* round: wherever a stop, an interrupt, a timeout or a departure strikes, it
\* is closed before the handler goes on to another round or to the end.
NoOrphanResponse ==
    \A r \in Requests, n \in Rounds :
        life[r][n].response = "open" =>
            n = round[r] /\ pc[r] \in {"attach", "check", "stream"}

\* Stop and Attach race for the response; whichever comes second closes it.
StopReachesResponse ==
    \A r \in Requests, n \in Rounds :
        life[r][n].stopped /\ life[r][n].attached => life[r][n].response = "closed"

\* Once a StopAllRequests has returned and the flag is still set, every
\* request in progress has been told to stop or has yet to read the flag.
StopAllCovers ==
    allStopped /\ (\A a \in Admins : apc[a] # "snapshot" /\ todo[a] = {}) =>
        \A r \in Requests : status[r] \in Running =>
            stopRequested[r] \/ pc[r] \in {"top", "allCheck", "rejected"}

Finishing == {r \in Requests : pc[r] = "finishing"}

\* The history is bounded: however ends, trims and Clear interleave, the
\* finished records exceed maxFinished by no more than the ends in progress.
HistoryBounded ==
    Cardinality(FinishedOf(listed, status)) <= MaxFinished + Cardinality(Finishing)

\* A stop or an interrupt that comes late, with the cancel of a round that is
\* over, never cuts the round the request is in by then.
LateStopHarmless ==
    [][\A a \in Admins, r \in Requests, n \in Rounds :
        /\ apc[a] \in {"cancel", "interrupt"} /\ apc'[a] # apc[a]
        /\ life'[r][n].ctx # life[r][n].ctx
        => r = target[a] /\ n = captured[a] /\ n = round[r]]_vars

-----------------------------------------------------------------------------
(* Liveness.                                                               *)

InRound(r) == pc[r] \in {"sending", "attach", "check", "judge", "release", "stream"}

\* A round that has been cancelled comes to its end, even with an upstream
\* that never answers and a stream that never ends.
CutRoundEnds ==
    \A r \in Requests, n \in Rounds :
        life[r][n].ctx = "canceled" ~> ~(round[r] = n /\ InRound(r))

\* A stop that finds the request between two rounds ends it, unless its
\* handler panics: a panicked request is never marked.
StopHeeded ==
    \A r \in Requests :
        stopRequested[r] /\ pc[r] \in {"top", "wait", "judge", "release"}
            ~> status[r] \in Finished \/ pc[r] = "panicked"
=============================================================================
