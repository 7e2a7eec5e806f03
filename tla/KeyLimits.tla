------------------------------ MODULE KeyLimits ------------------------------
(***************************************************************************)
(* What stands between a client and the handlers: APIKeyAuth checks the    *)
(* key and takes a slot and a permit from package keylimit, which refuses  *)
(* instead of waiting.  The slot is given back when the middleware returns,*)
(* the permit is not.  The panel changes the key or deletes it while its   *)
(* requests are under way; a request goes on with the copy it has read.    *)
(***************************************************************************)
EXTENDS RateWindow

CONSTANTS
    Clients,        \* requests sent with the key
    Settings,       \* what the panel may store for the key
    NoKey,          \* the key is not in the caches
    MaxTime,        \* bound of the clock
    MaxEdits        \* bound: how often the panel changes or deletes the key

ASSUME ClientsAssumption == IsFiniteSet(Clients) /\ NoKey \notin Settings

\* The handlers of the panel refuse a negative limit (handlers/apikey.go:52, :136), and one that
\* is not positive would be none (keylimit.go:104).
ASSUME SettingsAssumption == \A setting \in Settings : setting.rpm \in Nat

VARIABLES
    klTime,     \* the clock
    klKey,      \* the key in the caches: one of Settings, or NoKey
    klEdits,    \* changes made so far
    klDeleting, \* the handler of a deletion has yet to call keylimit.Cleanup
    klMade,     \* how many counters have been created
    klTable,    \* states[keyID]: the counter in the table, 0 if there is none
    klActive,   \* per counter ever created: active
    klWindow,   \* windows[keyID]
    klClient,   \* per request: where it is, the key it read, its counter, the time it read
    klGiven     \* the real times of the permits given since the window was last forgotten

\* What only the panel changes.
klPanel == <<klKey, klEdits, klDeleting>>

klVars == <<klTime, klPanel, klMade, klTable, klActive, klWindow, klClient, klGiven>>

\* The table forgets its counter once at most, with the key.
Counters == 1..2

Waiting == [at |-> "new", key |-> NoKey, counter |-> 0, now |-> 0]

KlInit ==
    /\ klTime = 0
    /\ klKey \in Settings
    /\ klEdits = 0
    /\ klDeleting = FALSE
    /\ klMade = 0
    /\ klTable = 0
    /\ klActive = [c \in Counters |-> 0]
    /\ klWindow = <<>>
    /\ klClient = [r \in Clients |-> Waiting]
    /\ klGiven = <<>>

At(r, place) == klClient[r].at = place

\* No caller is left behind by more than MaxLag.
KlTick ==
    /\ klTime < MaxTime
    /\ \A r \in Clients : At(r, "timed") => klTime < klClient[r].now + MaxLag
    /\ klTime' = klTime + 1
    /\ UNCHANGED <<klPanel, klMade, klTable, klActive, klWindow, klClient, klGiven>>

Valid(key, now) ==
    /\ key # NoKey
    /\ key.enabled
    /\ ~(key.expireAt > 0 /\ key.expireAt < now)

\* APIKeyAuth up to the limits; MaxConcurrent of 0 takes no slot.
Authenticate(r) ==
    /\ At(r, "new")
    /\ klClient' = [klClient EXCEPT ![r] =
           [Waiting EXCEPT !.key = klKey,
                           !.at = IF ~Valid(klKey, klTime) THEN "refused"
                                  ELSE IF klKey.slots = 0 THEN "counted" ELSE "valid"]]
    /\ UNCHANGED <<klTime, klPanel, klMade, klTable, klActive, klWindow, klGiven>>

\* AcquireConcurrency, under the lock of the table: find the counter or make one.
FindCounter(r) ==
    /\ At(r, "valid")
    /\ klMade' = IF klTable = 0 THEN klMade + 1 ELSE klMade
    /\ klTable' = IF klTable = 0 THEN klMade + 1 ELSE klTable
    /\ klClient' = [klClient EXCEPT ![r].at = "found", ![r].counter = klTable']
    /\ UNCHANGED <<klTime, klPanel, klActive, klWindow, klGiven>>

\* ... and under the lock of the counter, which may have left the table meanwhile.
TakeSlot(r) ==
    LET counter == klClient[r].counter
        full == klActive[counter] >= klClient[r].key.slots
    IN  /\ At(r, "found")
        /\ klClient' = [klClient EXCEPT ![r].at = IF full THEN "refused" ELSE "counted",
                                        ![r].counter = IF full THEN 0 ELSE @]
        /\ klActive' = [klActive EXCEPT ![counter] = IF full THEN @ ELSE @ + 1]
        /\ UNCHANGED <<klTime, klPanel, klMade, klTable, klWindow, klGiven>>

\* Mutated: the slot goes back to the counter that is in the table by now.
GiveBackToTable(counter) ==
    IF counter = 0 \/ klTable = 0 THEN klActive
    ELSE [klActive EXCEPT ![klTable] = IF @ > 0 THEN @ - 1 ELSE @]

\* release, through sync.Once: the request's own counter, whatever the table holds.
GiveBack(counter) ==
    IF counter = 0 THEN klActive
    ELSE [klActive EXCEPT ![counter] = IF @ > 0 THEN @ - 1 ELSE @]

\* AcquireRPMPermit without a limit forgets the window ...
PassUnlimited(r) ==
    /\ At(r, "counted")
    /\ klClient[r].key.rpm = 0
    /\ klClient' = [klClient EXCEPT ![r].at = "serving"]
    /\ klWindow' = <<>>
    /\ klGiven' = <<>>
    /\ UNCHANGED <<klTime, klPanel, klMade, klTable, klActive>>

\* ... and with one it reads the clock before it waits for the lock.
ReadClock(r) ==
    /\ At(r, "counted")
    /\ klClient[r].key.rpm > 0
    /\ klClient' = [klClient EXCEPT ![r].at = "timed", ![r].now = klTime]
    /\ UNCHANGED <<klTime, klPanel, klMade, klTable, klActive, klWindow, klGiven>>

TakePermit(r) ==
    LET permit == Permit(klWindow, klClient[r].now, klClient[r].key.rpm)
    IN  /\ At(r, "timed")
        /\ permit.given
        /\ klWindow' = permit.times
        /\ klGiven' = Append(klGiven, klTime)
        /\ klClient' = [klClient EXCEPT ![r].at = "serving"]
        /\ UNCHANGED <<klTime, klPanel, klMade, klTable, klActive>>

\* 429 with Retry-After; the slot goes back as the middleware returns.
RefusePermit(r) ==
    LET permit == Permit(klWindow, klClient[r].now, klClient[r].key.rpm)
    IN  /\ At(r, "timed")
        /\ ~permit.given
        /\ klWindow' = permit.times
        /\ klActive' = GiveBack(klClient[r].counter)
        /\ klClient' = [klClient EXCEPT ![r].at = "refused", ![r].counter = 0]
        /\ UNCHANGED <<klTime, klPanel, klMade, klTable, klGiven>>

\* The handler has returned, or panicked: the deferred release runs.
Served(r) ==
    /\ At(r, "serving")
    /\ klActive' = GiveBack(klClient[r].counter)
    /\ klClient' = [klClient EXCEPT ![r].at = "served", ![r].counter = 0]
    /\ UNCHANGED <<klTime, klPanel, klMade, klTable, klWindow, klGiven>>

\* APIKeyUpdate leaves the limiter alone: a new limit takes effect with the next request.
ChangeKey ==
    /\ klEdits < MaxEdits
    /\ klKey # NoKey
    /\ klKey' \in Settings \ {klKey}
    /\ klEdits' = klEdits + 1
    /\ UNCHANGED <<klTime, klDeleting, klMade, klTable, klActive, klWindow, klClient, klGiven>>

\* The handler of a deletion removes the key from table and caches ...
DeleteKey ==
    /\ klEdits < MaxEdits
    /\ klKey # NoKey
    /\ klKey' = NoKey
    /\ klEdits' = klEdits + 1
    /\ klDeleting' = TRUE
    /\ UNCHANGED <<klTime, klMade, klTable, klActive, klWindow, klClient, klGiven>>

\* ... and then calls keylimit.Cleanup; a request that had read the key may come after it.
CleanUpKey ==
    /\ klDeleting
    /\ klDeleting' = FALSE
    /\ klTable' = 0
    /\ klWindow' = <<>>
    /\ klGiven' = <<>>
    /\ UNCHANGED <<klTime, klKey, klEdits, klMade, klActive, klClient>>

KlNext ==
    \/ KlTick
    \/ ChangeKey
    \/ DeleteKey
    \/ CleanUpKey
    \/ \E r \in Clients :
          \/ Authenticate(r)
          \/ FindCounter(r)
          \/ TakeSlot(r)
          \/ PassUnlimited(r)
          \/ ReadClock(r)
          \/ TakePermit(r)
          \/ RefusePermit(r)
          \/ Served(r)

HoldsSlot(r) == klClient[r].counter # 0 /\ klClient[r].at \in {"counted", "timed", "serving"}

\* A counter counts exactly the requests that hold one of its slots: refusals after the slot
\* was taken, changes of the limit and the deletion of the key lose and invent none
\* (keylimit.go:77 and the deferred release of auth.go:111).
KlSlotsReturned ==
    \A c \in Counters :
        klActive[c] = Cardinality({r \in Clients : HoldsSlot(r) /\ klClient[r].counter = c})

\* However late callers are and however the limit changes, a request is let through only if
\* it and the permits given in the ticks before it are within the limit it came with
\* (keylimit.go:109).
KlRateHolds ==
    [][\A r \in Clients : TakePermit(r) =>
           Recent(klGiven', klTime) <= klClient[r].key.rpm]_klVars
=============================================================================
