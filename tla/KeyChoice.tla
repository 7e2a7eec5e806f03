------------------------------ MODULE KeyChoice ------------------------------
(***************************************************************************)
(* One channel with several keys, and the rounds that use it: a key is     *)
(* chosen in turn, those in cooldown are passed over, the permit of its    *)
(* rate limit is waited for, a slot of the channel is taken, and the       *)
(* answer is read until it can be committed.  A key that the upstream      *)
(* refuses is put in cooldown and the round is repeated with the next.     *)
(*                                                                         *)
(* How the slots are waited for is the subject of ChannelLimit; here only  *)
(* whether a round got one and where it gives it back.                     *)
(***************************************************************************)
EXTENDS RateWindow

CONSTANTS
    Rounds,         \* requests that use the channel
    Keys,           \* channel.Keys: the ids in their order
    Rpm,            \* RateLimitRPM, 0 for no limit
    Cooldowns,      \* MemberCooldownSeconds of the groups that use the channel, in ticks
    WindowMax,      \* streamWindowMaxEvents
    MaxNow,         \* bound of the clock
    MaxTries,       \* bound: how often requests are sent, in all
    MaxWipes        \* bound: how often the state of the keys is cleared

ASSUME RoundsAssumption == IsFiniteSet(Rounds)

\* A limit that is not positive is none (channellimit.go:135), and a cooldown of less than a
\* second gives way to the default (keyselect.go:47).
ASSUME LimitAssumption == Rpm \in Nat /\ Cooldowns \subseteq Nat \ {0}

VARIABLES
    kcTime,     \* the clock
    kcCursor,   \* keyCursors[channel], modulo the number of keys
    kcCooling,  \* keyCooldowns: per key the end of its cooldown, 0 if there is none
    kcWindow,   \* channelKeyWindows: per key the permits on record
    kcGiven,    \* per key the real times of its permits since its window was forgotten
    kcActive,   \* slots of the channel in use, over all its counters
    kcRound,    \* per request: its step, the key it looks at, what it has read
    kcLeaked,   \* history: the requests whose panic left a slot taken for good
    kcWipes     \* clearings so far

kcVars ==
    <<kcTime, kcCursor, kcCooling, kcWindow, kcGiven, kcActive, kcRound, kcLeaked, kcWipes>>

KeySet == {Keys[i] : i \in 1..Len(Keys)}

Fresh == [at |-> "new", first |-> 0, offset |-> 0, now |-> 0, until |-> 0,
          frames |-> 0, tries |-> 0]

KcInit ==
    /\ kcTime = 1
    /\ kcCursor = 0
    /\ kcCooling = [k \in KeySet |-> 0]
    /\ kcWindow = [k \in KeySet |-> <<>>]
    /\ kcGiven = [k \in KeySet |-> <<>>]
    /\ kcActive = 0
    /\ kcRound = [a \in Rounds |-> Fresh]
    /\ kcLeaked = {}
    /\ kcWipes = 0

In(a, place) == kcRound[a].at = place
To(a, place) == kcRound' = [kcRound EXCEPT ![a].at = place]

\* The round is over, or starts over.
Leave(a, place) ==
    kcRound' = [kcRound EXCEPT ![a] = [Fresh EXCEPT !.at = place, !.tries = kcRound[a].tries]]

\* The key the round looks at, or has chosen.
KeyOf(a) == Keys[((kcRound[a].first + kcRound[a].offset) % Len(Keys)) + 1]

KcTick ==
    /\ kcTime < MaxNow
    /\ \A a \in Rounds : In(a, "timed") => kcTime < kcRound[a].now + MaxLag
    /\ kcTime' = kcTime + 1
    /\ UNCHANGED <<kcCursor, kcCooling, kcWindow, kcGiven, kcActive, kcRound, kcLeaked, kcWipes>>

(***************************** the choice of a key *************************)

\* selectChannelKey takes a ticket of its own before it looks at any key.
TakeTicket(a) ==
    /\ In(a, "new")
    /\ kcCursor' = (kcCursor + 1) % Len(Keys)
    /\ kcRound' = [kcRound EXCEPT ![a].at = "scan", ![a].first = kcCursor, ![a].offset = 0]
    /\ UNCHANGED <<kcTime, kcCooling, kcWindow, kcGiven, kcActive, kcLeaked, kcWipes>>

\* channelKeyCooling under the read lock.  With every key in cooldown the round fails.
LookAtKey(a) ==
    LET deadline == kcCooling[KeyOf(a)]
        next == kcRound[a].offset + 1
    IN  /\ In(a, "scan")
        /\ \/ deadline = 0 /\ To(a, "chosen")
           \/ 0 < deadline /\ deadline <= kcTime /\ To(a, "expired")
           \/ kcTime < deadline /\ next = Len(Keys) /\ Leave(a, "failed")
           \/ /\ kcTime < deadline
              /\ next < Len(Keys)
              /\ kcRound' = [kcRound EXCEPT ![a].offset = next]
        /\ UNCHANGED <<kcTime, kcCursor, kcCooling, kcWindow, kcGiven, kcActive, kcLeaked, kcWipes>>

\* The entry is looked at again under the write lock: another round may have renewed it.
Stale(k) == 0 < kcCooling[k] /\ kcCooling[k] <= kcTime

DropExpired(a) ==
    /\ In(a, "expired")
    /\ kcCooling' = [kcCooling EXCEPT ![KeyOf(a)] = IF Stale(KeyOf(a)) THEN 0 ELSE @]
    /\ To(a, "chosen")
    /\ UNCHANGED <<kcTime, kcCursor, kcWindow, kcGiven, kcActive, kcLeaked, kcWipes>>

(************************ the rate limit of the key ************************)

\* waitChannelRPM without a limit forgets the window; with one it reads the clock.
AskPermit(a) ==
    /\ In(a, "chosen")
    /\ kcRound' = [kcRound EXCEPT ![a].at = IF Rpm = 0 THEN "ready" ELSE "timed",
                                  ![a].now = IF Rpm = 0 THEN 0 ELSE kcTime]
    /\ kcWindow' = [kcWindow EXCEPT ![KeyOf(a)] = IF Rpm = 0 THEN <<>> ELSE @]
    /\ UNCHANGED <<kcTime, kcCursor, kcCooling, kcGiven, kcActive, kcLeaked, kcWipes>>

\* tryChannelRPMPermit under channelLimitMu.
TryPermit(a) ==
    LET k == KeyOf(a)
        permit == Permit(kcWindow[k], kcRound[a].now, Rpm)
    IN  /\ In(a, "timed")
        /\ kcWindow' = [kcWindow EXCEPT ![k] = permit.times]
        /\ kcGiven' = [kcGiven EXCEPT ![k] = IF permit.given THEN Append(@, kcTime) ELSE @]
        /\ kcRound' = [kcRound EXCEPT ![a].at = IF permit.given THEN "ready" ELSE "waiting",
                                      ![a].until = IF permit.given THEN 0 ELSE permit.at,
                                      ![a].now = 0]
        /\ UNCHANGED <<kcTime, kcCursor, kcCooling, kcActive, kcLeaked, kcWipes>>

\* The timer fires and the round competes again.
WakeUp(a) ==
    /\ In(a, "waiting")
    /\ kcRound[a].until <= kcTime
    /\ kcRound' = [kcRound EXCEPT ![a].at = "chosen", ![a].until = 0]
    /\ UNCHANGED <<kcTime, kcCursor, kcCooling, kcWindow, kcGiven, kcActive, kcLeaked, kcWipes>>

\* The client is gone or an administrator stopped the request.
LeaveWait(a) ==
    /\ In(a, "waiting")
    /\ Leave(a, "failed")
    /\ UNCHANGED <<kcTime, kcCursor, kcCooling, kcWindow, kcGiven, kcActive, kcLeaked, kcWipes>>

(****************** the slot of the channel and the answer *****************)

Unmoved == UNCHANGED <<kcTime, kcCursor, kcWindow, kcGiven, kcLeaked, kcWipes>>

\* acquireChannelConcurrency, which may also give up.
OpenSlot(a) ==
    /\ In(a, "ready")
    /\ MapThenSumSet(LAMBDA b : kcRound[b].tries, Rounds) < MaxTries
    /\ kcRound' = [kcRound EXCEPT ![a].at = "sending", ![a].tries = @ + 1]
    /\ kcActive' = kcActive + 1
    /\ UNCHANGED kcCooling
    /\ Unmoved

SlotsFull(a) ==
    /\ In(a, "ready")
    /\ Leave(a, "failed")
    /\ UNCHANGED <<kcActive, kcCooling>>
    /\ Unmoved

\* The failure paths of sendPassthrough and sendConverted: the request could not be built,
\* no client, no answer, or an answer that is no valid one.
SendFails(a) ==
    /\ In(a, "sending")
    /\ Leave(a, "failed")
    /\ kcActive' = kcActive - 1
    /\ UNCHANGED kcCooling
    /\ Unmoved

\* 401, 403 and 429: the slot goes back first, and with more than one key ...
Rejected(a) ==
    /\ In(a, "sending")
    /\ kcActive' = kcActive - 1
    /\ IF Len(Keys) > 1 THEN To(a, "rejected") ELSE Leave(a, "failed")
    /\ UNCHANGED kcCooling
    /\ Unmoved

\* ... this one is put in cooldown for as long as the group of the request says, whatever
\* another has set; the request starts over.
CoolKey(a) ==
    /\ In(a, "rejected")
    /\ \E length \in Cooldowns :
          kcCooling' = [kcCooling EXCEPT ![KeyOf(a)] = kcTime + length]
    /\ Leave(a, "new")
    /\ UNCHANGED kcActive
    /\ Unmoved

\* A complete answer that passes validateResponse, validateRoundUsage and
\* validateRoundAnswer is handed over with its slot.
Answered(a) ==
    /\ In(a, "sending")
    /\ Leave(a, "committed")
    /\ UNCHANGED <<kcActive, kcCooling>>
    /\ Unmoved

\* The head of a stream has arrived.
OpenStream(a) ==
    /\ In(a, "sending")
    /\ kcRound' = [kcRound EXCEPT ![a].at = "window", ![a].frames = 0]
    /\ UNCHANGED <<kcActive, kcCooling>>
    /\ Unmoved

\* What analyzeStreamEvent and rejectZeroOutput say of an event: none of its kind decides,
\* an error or an abnormal end, an end without output, a normal end, content.
Verdicts == {"structure", "failure", "no_output", "end", "content"}

Commits == {"end", "content"}

\* readStreamWindow: one event of the window.  The budget comes before the verdict.
ReadFrame(a) ==
    /\ In(a, "window")
    /\ \E verdict \in Verdicts :
          LET over == kcRound[a].frames + 1 > WindowMax
              fails == over \/ verdict \in {"failure", "no_output"}
          IN  /\ CASE fails -> Leave(a, "failed")
                   [] ~fails /\ verdict \in Commits -> Leave(a, "committed")
                   [] OTHER -> kcRound' = [kcRound EXCEPT ![a].frames = @ + 1]
              /\ kcActive' = IF fails THEN kcActive - 1 ELSE kcActive
    /\ UNCHANGED kcCooling
    /\ Unmoved

\* The stream ended or broke before any of that.
StreamBreaks(a) ==
    /\ In(a, "window")
    /\ Leave(a, "failed")
    /\ kcActive' = kcActive - 1
    /\ UNCHANGED kcCooling
    /\ Unmoved

\* Close, once: after the last event, the client's leaving or a timeout of the round.
CloseAnswer(a) ==
    /\ In(a, "committed")
    /\ Leave(a, "done")
    /\ kcActive' = kcActive - 1
    /\ UNCHANGED kcCooling
    /\ Unmoved

(********************************** a panic ********************************)

\* The deferred recover of Forward ends the request.  It stops the lifecycle of the round,
\* which closes an answer that was attached; before that nobody but the panicking call
\* knows the slot, whose release is neither deferred nor attached.
RoundPanics(a) ==
    /\ kcRound[a].at \notin {"done", "failed"}
    /\ Leave(a, "failed")
    /\ kcActive' = IF In(a, "committed") THEN kcActive - 1 ELSE kcActive
    /\ kcLeaked' = IF kcRound[a].at \in {"sending", "window"} THEN kcLeaked \cup {a} ELSE kcLeaked
    /\ UNCHANGED <<kcTime, kcCursor, kcCooling, kcWindow, kcGiven, kcWipes>>

(**************************** the panel and the tasks **********************)

\* PruneExpiredKeyCooldowns.
PruneCooldowns ==
    /\ \E k \in KeySet : Stale(k)
    /\ kcCooling' = [k \in KeySet |-> IF Stale(k) THEN 0 ELSE kcCooling[k]]
    /\ UNCHANGED <<kcActive, kcRound>>
    /\ Unmoved

\* ClearChannelKeyStateForUI and, with the cursor, CleanupChannelKeyState.  Each table is
\* cleared under its own lock; no step of a round reads two of them, so that clearing them
\* at once shows the rounds nothing else.
WipeKeys ==
    /\ kcWipes < MaxWipes
    /\ kcWipes' = kcWipes + 1
    /\ kcCooling' = [k \in KeySet |-> 0]
    /\ kcWindow' = [k \in KeySet |-> <<>>]
    /\ kcGiven' = [k \in KeySet |-> <<>>]
    /\ kcCursor' \in {kcCursor, 0}
    /\ UNCHANGED <<kcTime, kcActive, kcRound, kcLeaked>>

KcNext ==
    \/ KcTick
    \/ PruneCooldowns
    \/ WipeKeys
    \/ \E a \in Rounds :
          \/ TakeTicket(a)
          \/ LookAtKey(a)
          \/ DropExpired(a)
          \/ AskPermit(a)
          \/ TryPermit(a)
          \/ WakeUp(a)
          \/ LeaveWait(a)
          \/ OpenSlot(a)
          \/ SlotsFull(a)
          \/ SendFails(a)
          \/ Rejected(a)
          \/ CoolKey(a)
          \/ Answered(a)
          \/ OpenStream(a)
          \/ ReadFrame(a)
          \/ StreamBreaks(a)
          \/ CloseAnswer(a)
          \/ RoundPanics(a)

\* The slots in use are those of the rounds that send, read or hand over an answer, and those
\* of the requests that panicked before their answer was attached to the round: a round gives
\* its slot back once on every other way out (upstream.go:30, :66).  That one is against
\* handler.go:140, which names the slot among what the recover gives back.
KcSlotsReturned ==
    /\ kcActive = Cardinality({a \in Rounds : \/ kcRound[a].at \in {"sending", "window", "committed"}
                                             \/ a \in kcLeaked})
    /\ \A a \in Rounds : a \in kcLeaked => In(a, "failed")

\* A cooldown in force is ended by a clearing only, or replaced by another: a round or a task
\* that found an older one expired never removes the one that took its place
\* (keyselect.go:67).  It does not keep the key from being used: a round that chose it before,
\* or found the older one expired, goes on with it.
CooldownsKept ==
    [][\A k \in KeySet :
           kcTime < kcCooling[k] /\ kcCooling'[k] <= kcTime => kcWipes' # kcWipes]_kcVars

\* The permits of a key stay within the limit of the channel, as in KeyLimits.
KcRateHolds ==
    [][\A k \in KeySet : kcGiven'[k] # kcGiven[k] => Recent(kcGiven'[k], kcTime) <= Rpm]_kcVars
=============================================================================
