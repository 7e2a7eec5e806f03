---------------------------- MODULE Service_proofs ----------------------------
(***************************************************************************)
(* Whoever takes a slot gives it back once, but for a request that panics  *)
(* too early, for any number of clients and of rounds, any limits and any  *)
(* changes of a key; what the rates, the account and the update promise.   *)
(***************************************************************************)
EXTENDS Service, Account_proofs, WellFoundedInduction

-----------------------------------------------------------------------------
(* The slots of an API key.                                                *)

Places == {"new", "valid", "found", "counted", "timed", "serving", "refused", "served"}

Request == [at : Places, key : Settings \cup {NoKey}, counter : {0} \cup Counters, now : Nat]

\* The table forgets its counter with the key, which never comes back; by then
\* one counter has been made at most, and at most one more is made.
CounterKept ==
    /\ klMade \in 0 .. 2
    /\ klTable \in {0, klMade}
    /\ klDeleting => klKey = NoKey
    /\ klKey # NoKey \/ klDeleting => klTable = klMade /\ klMade < 2
    /\ klTable = 0 => klMade < 2

\* A request looks at a counter before it takes a slot of it, and keeps it.
KlTyped ==
    /\ klTime \in Nat
    /\ klKey \in Settings \cup {NoKey}
    /\ klDeleting \in BOOLEAN
    /\ klActive \in [Counters -> Nat]
    /\ klClient \in [Clients -> Request]
    /\ \A r \in Clients : /\ At(r, "found") => klClient[r].counter \in Counters
                          /\ At(r, "new") \/ At(r, "valid") => klClient[r].counter = 0

KlInv == CounterKept /\ KlTyped /\ KlSlotsReturned

Holders(c) == {r \in Clients : HoldsSlot(r) /\ klClient[r].counter = c}

\* The holders of a counter's slots are finitely many.
LEMMA HoldersFinite ==
  ASSUME NEW c
  PROVE  IsFiniteSet(Holders(c)) /\ Cardinality(Holders(c)) \in Nat
<1>1. Holders(c) \subseteq Clients
  BY DEF Holders
<1> QED BY <1>1, ClientsAssumption, FS_Subset, FS_CardinalityType

\* A request that takes a slot joins the holders of its counter.
LEMMA TakenCounted ==
  ASSUME KlTyped, KlSlotsReturned, NEW r \in Clients, NEW c \in Counters,
         ~HoldsSlot(r), klActive' = [klActive EXCEPT ![c] = @ + 1],
         Holders(c)' = Holders(c) \cup {r},
         \A d \in Counters \ {c} : Holders(d)' = Holders(d)
  PROVE  KlSlotsReturned' /\ klActive' \in [Counters -> Nat]
<1>1. \A d \in Counters : klActive[d] = Cardinality(Holders(d)) /\ klActive[d] \in Nat
  BY DEF KlSlotsReturned, Holders, KlTyped
<1>2. r \notin Holders(c)
  BY DEF Holders
<1>3. Cardinality(Holders(c)') = klActive[c] + 1
  BY <1>1, <1>2, HoldersFinite, FS_AddElement
<1>4. \A d \in Counters : klActive'[d] = Cardinality(Holders(d)')
  BY <1>1, <1>3 DEF KlTyped
<1>5. klActive' \in [Counters -> Nat]
  BY DEF KlTyped
<1> QED BY <1>4, <1>5 DEF KlSlotsReturned, Holders

\* A request that gives back what it has, a slot or nothing, leaves the holders.
LEMMA GivenBackCounted ==
  ASSUME KlTyped, KlSlotsReturned, NEW r \in Clients, klClient[r].at \in {"timed", "serving"},
         klActive' = GiveBack(klClient[r].counter),
         \A c \in Counters : Holders(c)' = Holders(c) \ {r}
  PROVE  KlSlotsReturned' /\ klActive' \in [Counters -> Nat]
<1>0. PICK c : c = klClient[r].counter
  OBVIOUS
<1>1. \A d \in Counters : klActive[d] = Cardinality(Holders(d)) /\ klActive[d] \in Nat
  BY DEF KlSlotsReturned, Holders, KlTyped
<1>2. \A d \in Counters : r \in Holders(d) <=> d = c
  BY <1>0 DEF Holders, HoldsSlot, Counters
<1>3. c \in {0} \cup Counters
  BY <1>0 DEF KlTyped, Request
<1>4. CASE c = 0
  <2>1. \A d \in Counters : Holders(d)' = Holders(d)
    BY <1>2, <1>4 DEF Counters
  <2>2. klActive' = klActive
    BY <1>0, <1>4 DEF GiveBack
  <2>3. \A d \in Counters : klActive'[d] = Cardinality(Holders(d)')
    BY <1>1, <2>1, <2>2
  <2> QED BY <2>2, <2>3 DEF KlSlotsReturned, Holders, KlTyped
<1>5. CASE c \in Counters
  <2>1. /\ Cardinality(Holders(c)') = klActive[c] - 1
        /\ Cardinality(Holders(c)') \in Nat
    <3>1. IsFiniteSet(Holders(c) \ {r}) /\ Cardinality(Holders(c) \ {r}) = klActive[c] - 1
      BY <1>1, <1>2, <1>5, HoldersFinite, FS_RemoveElement
    <3>2. Holders(c)' = Holders(c) \ {r}
      BY <1>5
    <3> QED BY <3>1, <3>2, FS_CardinalityType
  <2>2. klActive[c] > 0
    BY <1>1, <1>5, <2>1
  <2>3. klActive' = [klActive EXCEPT ![c] = @ - 1]
    <3>1. klActive' = [klActive EXCEPT ![c] = IF @ > 0 THEN @ - 1 ELSE @]
      BY <1>0, <1>5 DEF GiveBack, Counters
    <3> QED BY <2>2, <3>1
  <2>4. \A d \in Counters \ {c} : Holders(d)' = Holders(d)
    BY <1>2
  <2>5. \A d \in Counters : klActive'[d] = Cardinality(Holders(d)')
    BY <1>1, <2>1, <2>3, <2>4 DEF KlTyped
  <2>6. klActive' \in [Counters -> Nat]
    BY <1>1, <2>1, <2>3 DEF KlTyped
  <2> QED BY <2>5, <2>6 DEF KlSlotsReturned, Holders
<1> QED BY <1>3, <1>4, <1>5

\* A step that leaves the holders of every counter alone.
LEMMA HoldersStay ==
  ASSUME KlSlotsReturned, klActive' = klActive,
         \A c \in Counters : Holders(c)' = Holders(c)
  PROVE  KlSlotsReturned'
  BY DEF KlSlotsReturned, Holders

\* No slot is held in the initial states.
LEMMA KlInitSafe == KlInit => KlInv
<1> SUFFICES ASSUME KlInit
             PROVE  KlInv
  OBVIOUS
<1>1. CounterKept /\ KlTyped
  <2>1. Waiting \in Request /\ Waiting.at = "new" /\ Waiting.counter = 0
    BY DEF Waiting, Request, Places
  <2>2. CounterKept
    BY DEF KlInit, CounterKept
  <2>3. KlTyped
    BY <2>1 DEF KlInit, KlTyped, At
  <2> QED BY <2>2, <2>3
<1>2. \A c \in Counters : Holders(c) = {}
  BY DEF KlInit, Waiting, Holders, HoldsSlot
<1>3. \A c \in Counters : klActive[c] = Cardinality(Holders(c))
  BY <1>2, FS_EmptySet DEF KlInit
<1> QED BY <1>1, <1>3 DEF KlInv, KlSlotsReturned, Holders

\* A request that moves, with the counter it has.
LEMMA MoveHolders ==
  ASSUME KlTyped, NEW r \in Clients, NEW q \in Request, klClient' = [klClient EXCEPT ![r] = q]
  PROVE  /\ \A s \in Clients : klClient'[s] = IF s = r THEN q ELSE klClient[s]
         /\ klClient' \in [Clients -> Request]
         /\ \A c \in Counters : Holders(c)' =
               IF q.counter = c /\ q.at \in {"counted", "timed", "serving"}
               THEN Holders(c) \cup {r} ELSE Holders(c) \ {r}
<1>1. \A s \in Clients : klClient'[s] = IF s = r THEN q ELSE klClient[s]
  BY DEF KlTyped
<1>2. klClient' \in [Clients -> Request]
  BY DEF KlTyped
<1> QED BY <1>1, <1>2 DEF Holders, HoldsSlot, Counters

\* Each step of a request, of the panel and of the clock counts right.
LEMMA KlStepSafe == KlInv /\ KlNext => KlInv'
<1> SUFFICES ASSUME KlInv, KlNext
             PROVE  KlInv'
  OBVIOUS
<1> USE DEF KlInv
<1>1. CASE KlTick
  <2>1. \A c \in Counters : Holders(c)' = Holders(c)
    BY <1>1 DEF KlTick, Holders, HoldsSlot
  <2> QED BY <1>1, <2>1, HoldersStay DEF KlTick, klPanel, CounterKept, KlTyped, At
<1>2. CASE ChangeKey \/ DeleteKey \/ CleanUpKey
  <2>1. \A c \in Counters : Holders(c)' = Holders(c)
    BY <1>2 DEF ChangeKey, DeleteKey, CleanUpKey, Holders, HoldsSlot
  <2>2. KlSlotsReturned'
    BY <1>2, <2>1, HoldersStay DEF ChangeKey, DeleteKey, CleanUpKey
  <2>3. KlTyped'
    BY <1>2 DEF ChangeKey, DeleteKey, CleanUpKey, KlTyped, At
  <2>4. CounterKept'
    BY <1>2, ClientsAssumption DEF ChangeKey, DeleteKey, CleanUpKey, CounterKept, KlTyped
  <2> QED BY <2>2, <2>3, <2>4
<1>3. ASSUME NEW r \in Clients, Authenticate(r)
      PROVE  KlInv'
  <2> DEFINE q == [Waiting EXCEPT !.key = klKey,
                           !.at = IF ~Valid(klKey, klTime) THEN "refused"
                                  ELSE IF klKey.slots = 0 THEN "counted" ELSE "valid"]
  <2>1. q \in Request /\ q.counter = 0 /\ q.at \in {"refused", "counted", "valid"}
    BY DEF Waiting, Request, Places, KlTyped
  <2>2. klClient' = [klClient EXCEPT ![r] = q] /\ klActive' = klActive
    BY <1>3 DEF Authenticate
  <2> HIDE DEF q
  <2>3. klClient[r].counter = 0
    BY <1>3 DEF Authenticate, KlTyped
  <2>4. \A c \in Counters : Holders(c)' = Holders(c)
    BY <2>1, <2>2, <2>3, MoveHolders DEF Holders, HoldsSlot, Counters
  <2>5. KlTyped'
    <3>1. /\ \A s \in Clients : klClient'[s] = IF s = r THEN q ELSE klClient[s]
          /\ klClient' \in [Clients -> Request]
      BY <2>1, <2>2, MoveHolders
    <3>2. UNCHANGED <<klTime, klKey, klDeleting, klActive>>
      BY <1>3 DEF Authenticate, klPanel
    <3> QED BY <2>1, <3>1, <3>2 DEF KlTyped, At
  <2> QED BY <1>3, <2>2, <2>4, <2>5, HoldersStay DEF Authenticate, klPanel, CounterKept
<1>4. ASSUME NEW r \in Clients, FindCounter(r)
      PROVE  KlInv'
  <2> DEFINE q == [klClient[r] EXCEPT !.at = "found", !.counter = klTable']
  <2>1. klTable' \in Counters /\ CounterKept'
    BY <1>4 DEF FindCounter, klPanel, CounterKept, Counters
  <2>2. q \in Request /\ q.at = "found" /\ q.counter = klTable'
    BY <2>1 DEF KlTyped, Request, Places
  <2>3. klClient' = [klClient EXCEPT ![r] = q] /\ klActive' = klActive
    BY <1>4 DEF FindCounter, KlTyped
  <2> HIDE DEF q
  <2>4. klClient[r].counter = 0
    BY <1>4 DEF FindCounter, KlTyped
  <2>5. \A c \in Counters : Holders(c)' = Holders(c)
    BY <2>2, <2>3, <2>4, MoveHolders DEF Holders, HoldsSlot, Counters
  <2>6. KlTyped'
    BY <1>4, <2>1, <2>2, <2>3, MoveHolders DEF FindCounter, klPanel, KlTyped, At
  <2> QED BY <2>1, <2>3, <2>5, <2>6, HoldersStay
<1>5. ASSUME NEW r \in Clients, TakeSlot(r)
      PROVE  KlInv'
  <2>0. PICK c, full : c = klClient[r].counter /\ full = (klActive[c] >= klClient[r].key.slots)
    OBVIOUS
  <2> DEFINE q == [klClient[r] EXCEPT !.at = IF full THEN "refused" ELSE "counted",
                                      !.counter = IF full THEN 0 ELSE @]
  <2>1. c \in Counters /\ ~HoldsSlot(r)
    BY <1>5, <2>0 DEF TakeSlot, KlTyped, At, HoldsSlot
  <2>2. /\ q \in Request
        /\ full => q.at = "refused" /\ q.counter = 0
        /\ ~full => q.at = "counted" /\ q.counter = c
    BY <2>0 DEF KlTyped, Request, Places
  <2>3. klClient' = [klClient EXCEPT ![r] = q]
    BY <1>5, <2>0 DEF TakeSlot, KlTyped
  <2>4. klActive' = IF full THEN klActive ELSE [klActive EXCEPT ![c] = @ + 1]
    BY <1>5, <2>0 DEF TakeSlot, KlTyped
  <2> HIDE DEF q
  <2>5. \A d \in Counters : r \notin Holders(d) /\ Holders(d) \ {r} = Holders(d)
    BY <2>1 DEF Holders
  <2>6. /\ \A s \in Clients : klClient'[s] = IF s = r THEN q ELSE klClient[s]
        /\ klClient' \in [Clients -> Request]
    BY <2>2, <2>3, MoveHolders
  <2>7. UNCHANGED <<klTime, klPanel, klMade, klTable>>
    BY <1>5 DEF TakeSlot
  <2>8. CASE full
    <3>1. \A d \in Counters : Holders(d)' = Holders(d) \ {r}
      BY <2>2, <2>3, <2>8, MoveHolders DEF Counters
    <3>2. \A d \in Counters : Holders(d)' = Holders(d)
      BY <2>5, <3>1
    <3>3. KlTyped'
      BY <2>2, <2>4, <2>8, <2>6, <2>7 DEF klPanel, KlTyped, At
    <3> QED BY <2>4, <2>8, <2>7, <3>2, <3>3, HoldersStay DEF klPanel, CounterKept
  <2>9. CASE ~full
    <3>1. \A d \in Counters : Holders(d)' = IF d = c THEN Holders(d) \cup {r} ELSE Holders(d) \ {r}
      <4>1. \A d \in Counters :
               q.counter = d /\ q.at \in {"counted", "timed", "serving"} <=> d = c
        BY <2>2, <2>9
      <4>2. \A d \in Counters :
               Holders(d)' = IF q.counter = d /\ q.at \in {"counted", "timed", "serving"}
                             THEN Holders(d) \cup {r} ELSE Holders(d) \ {r}
        BY <2>2, <2>3, MoveHolders
      <4> QED BY <4>1, <4>2
    <3>2. Holders(c)' = Holders(c) \cup {r} /\ \A d \in Counters \ {c} : Holders(d)' = Holders(d)
      BY <2>1, <2>5, <3>1
    <3>3. KlSlotsReturned' /\ klActive' \in [Counters -> Nat]
      BY <2>1, <2>4, <2>9, <3>2, TakenCounted
    <3>4. KlTyped'
      BY <2>2, <2>9, <2>6, <2>7, <3>3 DEF klPanel, KlTyped, At
    <3> QED BY <2>7, <3>3, <3>4 DEF klPanel, CounterKept
  <2> QED BY <2>8, <2>9
<1>6. ASSUME NEW r \in Clients, PassUnlimited(r) \/ ReadClock(r) \/ TakePermit(r)
      PROVE  KlInv'
  <2>1. klClient[r] \in Request /\ klClient[r].at \in {"counted", "timed"} /\ klTime \in Nat
    BY <1>6 DEF PassUnlimited, ReadClock, TakePermit, KlTyped, At
  <2>2. PICK q \in Request : /\ klClient' = [klClient EXCEPT ![r] = q]
                             /\ q.at \in {"timed", "serving"}
                             /\ q.counter = klClient[r].counter
    <3>1. CASE PassUnlimited(r) \/ TakePermit(r)
      <4>1. [klClient[r] EXCEPT !.at = "serving"] \in Request
        BY <2>1 DEF Request, Places
      <4>2. klClient' = [klClient EXCEPT ![r] = [klClient[r] EXCEPT !.at = "serving"]]
        BY <3>1 DEF PassUnlimited, TakePermit, KlTyped
      <4> QED BY <2>1, <4>1, <4>2 DEF Request
    <3>2. CASE ReadClock(r)
      <4>1. [klClient[r] EXCEPT !.at = "timed", !.now = klTime] \in Request
        BY <2>1 DEF Request, Places
      <4>2. klClient' = [klClient EXCEPT ![r] = [klClient[r] EXCEPT !.at = "timed", !.now = klTime]]
        BY <3>2 DEF ReadClock, KlTyped
      <4> QED BY <2>1, <4>1, <4>2 DEF Request
    <3> QED BY <1>6, <3>1, <3>2
  <2>3. \A c \in Counters : Holders(c)' = Holders(c)
    BY <2>1, <2>2, MoveHolders DEF Holders, HoldsSlot, Counters
  <2>4. UNCHANGED <<klTime, klPanel, klMade, klTable, klActive>>
    BY <1>6 DEF PassUnlimited, ReadClock, TakePermit
  <2>5. KlTyped'
    BY <2>2, <2>4, MoveHolders DEF klPanel, KlTyped, At
  <2> QED BY <2>3, <2>4, <2>5, HoldersStay DEF klPanel, CounterKept
<1>7. ASSUME NEW r \in Clients, RefusePermit(r) \/ Served(r)
      PROVE  KlInv'
  <2>1. klClient[r] \in Request /\ klClient[r].at \in {"timed", "serving"}
    BY <1>7 DEF RefusePermit, Served, KlTyped, At
  <2>2. PICK place \in {"refused", "served"} :
           klClient' = [klClient EXCEPT ![r] = [klClient[r] EXCEPT !.at = place, !.counter = 0]]
    BY <1>7 DEF RefusePermit, Served, KlTyped
  <2> DEFINE q == [klClient[r] EXCEPT !.at = place, !.counter = 0]
  <2>3. q \in Request /\ q.at = place /\ q.counter = 0
    BY <2>1 DEF Request, Places, Counters
  <2>4. klClient' = [klClient EXCEPT ![r] = q]
    BY <2>2
  <2> HIDE DEF q
  <2>5. \A c \in Counters : Holders(c)' = Holders(c) \ {r}
    <3>1. q.at \notin {"counted", "timed", "serving"}
      BY <2>3
    <3> QED BY <2>3, <2>4, <3>1, MoveHolders
  <2>6. klActive' = GiveBack(klClient[r].counter)
    BY <1>7 DEF RefusePermit, Served
  <2>7. KlSlotsReturned' /\ klActive' \in [Counters -> Nat]
    BY <2>1, <2>5, <2>6, GivenBackCounted
  <2>8. UNCHANGED <<klTime, klPanel, klMade, klTable>>
    BY <1>7 DEF RefusePermit, Served
  <2>9. KlTyped'
    BY <2>3, <2>4, <2>7, <2>8, MoveHolders DEF klPanel, KlTyped, At
  <2> QED BY <2>7, <2>8, <2>9 DEF klPanel, CounterKept
<1> QED BY <1>1, <1>2, <1>3, <1>4, <1>5, <1>6, <1>7 DEF KlNext

\* The other parts leave the limits of the key alone, and theirs keep the count.
LEMMA KlAlways == Spec => []KlInv
<1>1. Init => KlInv
  BY KlInitSafe DEF Init
<1>2. KlInv /\ [Next]_vars => KlInv'
  <2> SUFFICES ASSUME KlInv, [Next]_vars
               PROVE  KlInv'
    OBVIOUS
  <2>1. CASE LimitsStep
    BY <2>1, KlStepSafe DEF LimitsStep
  <2>2. CASE UNCHANGED klVars
    <3>1. \A c \in Counters : Holders(c)' = Holders(c)
      BY <2>2 DEF klVars, Holders, HoldsSlot
    <3> QED BY <2>2, <3>1, HoldersStay DEF klVars, klPanel, KlInv, CounterKept, KlTyped, At
  <2> QED BY <2>1, <2>2 DEF Next, KeysStep, AccountStep, UpdateStep, UsageStep, vars
<1> QED BY <1>1, <1>2, PTL DEF Spec

-----------------------------------------------------------------------------
(* The slots of a channel.                                                 *)

Holding == {"sending", "window", "committed"}

\* Whoever has a slot, those who lost theirs in a panic included.
Sending == {a \in Rounds : kcRound[a].at \in Holding \/ a \in kcLeaked}

\* A round is a record with a step and a time it has read.
KcTyped ==
    /\ kcActive \in Nat
    /\ kcRound = [a \in Rounds |-> kcRound[a]]
    /\ \A a \in Rounds : {"at", "now"} \subseteq DOMAIN kcRound[a]

KcInv == KcTyped /\ KcSlotsReturned

\* The rounds that hold a slot are finitely many.
LEMMA SendingFinite == IsFiniteSet(Sending) /\ Cardinality(Sending) \in Nat
<1>1. Sending \subseteq Rounds
  BY DEF Sending
<1> QED BY <1>1, RoundsAssumption, FS_Subset, FS_CardinalityType

\* Only a goes on, to a place.
Moved(a, place) ==
    /\ kcRound' = [b \in Rounds |-> kcRound'[b]]
    /\ kcRound'[a].at = place
    /\ {"at", "now"} \subseteq DOMAIN kcRound'[a]
    /\ \A b \in Rounds \ {a} : kcRound'[b] = kcRound[b]

\* The two ways a step is written both move the round.
LEMMA StepMoves ==
  ASSUME KcTyped, NEW a \in Rounds, NEW place, To(a, place) \/ Leave(a, place)
  PROVE  Moved(a, place)
<1>1. CASE To(a, place)
  BY <1>1 DEF KcTyped, To, Moved
<1>2. CASE Leave(a, place)
  <2>1. PICK q : q = [Fresh EXCEPT !.at = place, !.tries = kcRound[a].tries]
    OBVIOUS
  <2>2. q.at = place /\ {"at", "now"} \subseteq DOMAIN q
    BY <2>1 DEF Fresh
  <2>3. kcRound' = [kcRound EXCEPT ![a] = q]
    BY <1>2, <2>1 DEF Leave
  <2> QED BY <2>2, <2>3 DEF KcTyped, Moved
<1> QED BY <1>1, <1>2

\* Who lost a slot in a panic does nothing any more.
LEMMA LeakedFail ==
  ASSUME KcInv, NEW a \in Rounds, NEW place, Moved(a, place), kcRound[a].at # "failed",
         kcLeaked' = kcLeaked
  PROVE  a \notin kcLeaked /\ \A b \in Rounds : b \in kcLeaked' => In(b, "failed")'
BY DEF KcInv, KcSlotsReturned, In, Moved

\* A step neither takes nor gives back a slot.
LEMMA SlotKept ==
  ASSUME KcInv, NEW a \in Rounds, NEW place, Moved(a, place), kcActive' = kcActive,
         kcLeaked' = kcLeaked, kcRound[a].at # "failed",
         place \in Holding <=> kcRound[a].at \in Holding
  PROVE  KcInv'
<1>1. Sending' = Sending
  BY DEF Sending, Moved
<1>2. kcActive = Cardinality(Sending)
  BY DEF KcInv, KcSlotsReturned, Sending, Holding
<1>3. kcActive' = Cardinality(Sending')
  BY <1>1, <1>2
<1> QED BY <1>3, LeakedFail DEF KcInv, KcTyped, KcSlotsReturned, Sending, Holding, Moved

\* A step takes one.
LEMMA SlotTaken ==
  ASSUME KcInv, NEW a \in Rounds, NEW place \in Holding, Moved(a, place),
         kcActive' = kcActive + 1, kcLeaked' = kcLeaked, kcRound[a].at \notin Holding \cup {"failed"}
  PROVE  KcInv'
<1>1. Sending' = Sending \cup {a} /\ a \notin Sending
  BY LeakedFail DEF Sending, Moved
<1>2. kcActive = Cardinality(Sending)
  BY DEF KcInv, KcSlotsReturned, Sending, Holding
<1>3. kcActive' = Cardinality(Sending')
  BY <1>1, <1>2, SendingFinite, FS_AddElement
<1> QED BY <1>3, LeakedFail DEF KcInv, KcTyped, KcSlotsReturned, Sending, Holding, Moved

\* A step gives one back.
LEMMA SlotGivenBack ==
  ASSUME KcInv, NEW a \in Rounds, NEW place, place \notin Holding, Moved(a, place),
         kcActive' = kcActive - 1, kcLeaked' = kcLeaked, kcRound[a].at \in Holding
  PROVE  KcInv'
<1>0. kcRound[a].at # "failed"
  BY DEF Holding
<1>1. Sending' = Sending \ {a} /\ a \in Sending
  BY <1>0, LeakedFail DEF Sending, Moved
<1>2. kcActive = Cardinality(Sending)
  BY DEF KcInv, KcSlotsReturned, Sending, Holding
<1>3. kcActive' = Cardinality(Sending')
  BY <1>1, <1>2, SendingFinite, FS_RemoveElement
<1>4. IsFiniteSet(Sending') /\ Cardinality(Sending') \in Nat
  BY <1>1, SendingFinite, FS_RemoveElement, FS_CardinalityType
<1> QED BY <1>0, <1>3, <1>4, LeakedFail DEF KcInv, KcTyped, KcSlotsReturned, Sending, Holding, Moved

\* A step written as a change of several fields.
LEMMA ChangeMoves ==
  ASSUME KcTyped, NEW a \in Rounds, NEW q, kcRound' = [kcRound EXCEPT ![a] = q],
         {"at", "now"} \subseteq DOMAIN q
  PROVE  Moved(a, q.at)
  BY DEF KcTyped, Moved

\* Where the choice of a key and its rate limit lead; only who asks for a permit goes on with a
\* time.
ChoicePlaces == {"new", "scan", "expired", "chosen", "timed", "waiting", "ready", "rejected"}

LEMMA ChoiceMoves ==
  ASSUME KcTyped, NEW a \in Rounds,
         \/ TakeTicket(a) \/ LookAtKey(a) \/ DropExpired(a) \/ AskPermit(a) \/ TryPermit(a)
         \/ WakeUp(a) \/ LeaveWait(a) \/ SlotsFull(a) \/ CoolKey(a)
  PROVE  \E place \in ChoicePlaces \cup {"failed"} :
            Moved(a, place) /\ (place = "timed" => AskPermit(a))
<1> USE DEF ChoicePlaces
<1>1. CASE TakeTicket(a)
  <2> DEFINE q == [kcRound[a] EXCEPT !.at = "scan", !.first = kcCursor, !.offset = 0]
  <2>1. kcRound' = [kcRound EXCEPT ![a] = q]
    BY <1>1 DEF TakeTicket, KcTyped
  <2>2. {"at", "now"} \subseteq DOMAIN q /\ q.at = "scan"
    BY DEF KcTyped
  <2> HIDE DEF q
  <2>3. Moved(a, "scan")
    BY <2>1, <2>2, ChangeMoves
  <2> QED BY <2>3
<1>2. CASE LookAtKey(a)
  <2>1. CASE \E place \in {"chosen", "expired", "failed"} : To(a, place) \/ Leave(a, place)
    BY <2>1, StepMoves
  <2>2. CASE kcRound' = [kcRound EXCEPT ![a].offset = kcRound[a].offset + 1]
    <3>1. Moved(a, kcRound[a].at)
      BY <2>2 DEF KcTyped, Moved
    <3> QED BY <1>2, <3>1 DEF LookAtKey, In
  <2> QED BY <1>2, <2>1, <2>2 DEF LookAtKey
<1>3. CASE DropExpired(a) \/ LeaveWait(a) \/ SlotsFull(a) \/ CoolKey(a)
  BY <1>3, StepMoves DEF DropExpired, LeaveWait, SlotsFull, CoolKey
<1>4. CASE AskPermit(a)
  BY <1>4 DEF AskPermit, KcTyped, Moved
<1>5. CASE TryPermit(a)
  <2>0. PICK permit : permit = Permit(kcWindow[KeyOf(a)], kcRound[a].now, Rpm)
    OBVIOUS
  <2> DEFINE q == [kcRound[a] EXCEPT !.at = IF permit.given THEN "ready" ELSE "waiting",
                                     !.until = IF permit.given THEN 0 ELSE permit.at,
                                     !.now = 0]
  <2>1. kcRound' = [kcRound EXCEPT ![a] = q]
    BY <1>5, <2>0 DEF TryPermit, KcTyped
  <2>2. {"at", "now"} \subseteq DOMAIN q /\ q.at \in {"ready", "waiting"}
    BY DEF KcTyped
  <2> HIDE DEF q
  <2>3. Moved(a, q.at)
    BY <2>1, <2>2, ChangeMoves
  <2> QED BY <2>2, <2>3
<1>6. CASE WakeUp(a)
  BY <1>6 DEF WakeUp, KcTyped, Moved
<1> QED BY <1>1, <1>2, <1>3, <1>4, <1>5, <1>6

\* Where the answer leads.
LEMMA AnswerMoves ==
  ASSUME KcTyped, NEW a \in Rounds,
         \/ OpenSlot(a) \/ SendFails(a) \/ Rejected(a) \/ Answered(a) \/ OpenStream(a)
         \/ ReadFrame(a) \/ StreamBreaks(a) \/ CloseAnswer(a) \/ RoundPanics(a)
  PROVE  \E place : Moved(a, place) /\ place # "timed"
<1>1. CASE OpenSlot(a)
  BY <1>1 DEF OpenSlot, KcTyped, Moved
<1>2. CASE SendFails(a) \/ Rejected(a) \/ Answered(a) \/ StreamBreaks(a) \/ CloseAnswer(a)
  <2>1. PICK place \in {"failed", "rejected", "committed", "done"} :
           To(a, place) \/ Leave(a, place)
    BY <1>2 DEF SendFails, Rejected, Answered, StreamBreaks, CloseAnswer
  <2> QED BY <2>1, StepMoves
<1>3. CASE OpenStream(a)
  BY <1>3 DEF OpenStream, KcTyped, Moved
<1>4. CASE ReadFrame(a)
  <2>1. \/ Leave(a, "failed") \/ Leave(a, "committed")
        \/ kcRound' = [kcRound EXCEPT ![a].frames = @ + 1]
    BY <1>4 DEF ReadFrame
  <2>2. CASE kcRound' = [kcRound EXCEPT ![a].frames = @ + 1]
    <3>1. Moved(a, kcRound[a].at) /\ kcRound[a].at = "window"
      BY <1>4, <2>2 DEF ReadFrame, In, KcTyped, Moved
    <3> QED BY <3>1
  <2> QED BY <2>1, <2>2, StepMoves
<1>5. CASE RoundPanics(a)
  BY <1>5, StepMoves DEF RoundPanics
<1> QED BY <1>1, <1>2, <1>3, <1>4, <1>5

\* The choice of a key and its rate limit touch no slot.
LEMMA ChoiceKeepsSlots ==
  ASSUME KcInv, NEW a \in Rounds,
         \/ TakeTicket(a) \/ LookAtKey(a) \/ DropExpired(a) \/ AskPermit(a) \/ TryPermit(a)
         \/ WakeUp(a) \/ LeaveWait(a) \/ SlotsFull(a) \/ CoolKey(a)
  PROVE  KcInv'
<1>1. kcRound[a].at \in ChoicePlaces /\ kcActive' = kcActive /\ kcLeaked' = kcLeaked
  BY DEF TakeTicket, LookAtKey, DropExpired, AskPermit, TryPermit, WakeUp, LeaveWait, SlotsFull,
         CoolKey, Unmoved, In, ChoicePlaces
<1>2. PICK place \in ChoicePlaces \cup {"failed"} : Moved(a, place)
  BY ChoiceMoves DEF KcInv
<1>3. (ChoicePlaces \cup {"failed"}) \cap Holding = {} /\ "failed" \notin ChoicePlaces
  BY DEF Holding, ChoicePlaces
<1> QED BY <1>1, <1>2, <1>3, SlotKept

\* A panic gives back the slot of an answer that was attached, leaves that of one that was not
\* to the request that is over, and holds none before.
LEMMA PanicAccounted ==
  ASSUME KcInv, NEW a \in Rounds, RoundPanics(a)
  PROVE  KcInv'
<1>1. Moved(a, "failed") /\ kcRound[a].at # "failed" /\ "failed" \notin Holding
  BY StepMoves DEF RoundPanics, KcInv, Holding
<1>2. CASE In(a, "committed")
  <2>1. kcActive' = kcActive - 1 /\ kcLeaked' = kcLeaked /\ kcRound[a].at \in Holding
    BY <1>2 DEF RoundPanics, In, Holding
  <2> QED BY <1>1, <2>1, SlotGivenBack
<1>3. CASE kcRound[a].at \in {"sending", "window"}
  <2>1. kcActive' = kcActive /\ kcLeaked' = kcLeaked \cup {a}
    BY <1>3 DEF RoundPanics, In
  <2>2. Sending' = Sending
    BY <1>1, <1>3, <2>1 DEF Sending, Holding, Moved
  <2>3. kcActive' = Cardinality(Sending')
    BY <2>1, <2>2 DEF KcInv, KcSlotsReturned, Sending, Holding
  <2>4. \A b \in Rounds : b \in kcLeaked' => In(b, "failed")'
    BY <1>1, <2>1 DEF KcInv, KcSlotsReturned, In, Moved
  <2> QED BY <1>1, <2>1, <2>3, <2>4 DEF KcInv, KcTyped, KcSlotsReturned, Sending, Holding, Moved
<1>4. CASE kcRound[a].at \notin Holding
  <2>1. kcActive' = kcActive /\ kcLeaked' = kcLeaked
    BY <1>4 DEF RoundPanics, In, Holding
  <2> QED BY <1>1, <1>4, <2>1, SlotKept
<1> QED BY <1>2, <1>3, <1>4 DEF In, Holding

\* From the slot to the end of the answer, every way out but a panic gives the slot back.
LEMMA AnswerReturnsSlot ==
  ASSUME KcInv, NEW a \in Rounds,
         \/ OpenSlot(a) \/ SendFails(a) \/ Rejected(a) \/ Answered(a) \/ OpenStream(a)
         \/ ReadFrame(a) \/ StreamBreaks(a) \/ CloseAnswer(a)
  PROVE  KcInv'
<1> USE DEF Holding, In
<1>0. kcLeaked' = kcLeaked
  BY DEF OpenSlot, SendFails, Rejected, Answered, OpenStream, ReadFrame, StreamBreaks, CloseAnswer,
         Unmoved
<1>1. CASE OpenSlot(a)
  <2>1. Moved(a, "sending") /\ kcActive' = kcActive + 1 /\ kcRound[a].at = "ready"
    BY <1>1 DEF OpenSlot, KcInv, KcTyped, Moved
  <2> QED BY <1>0, <2>1, SlotTaken
<1>2. CASE SendFails(a) \/ Rejected(a) \/ StreamBreaks(a) \/ CloseAnswer(a)
  <2>1. PICK place \in {"failed", "rejected", "done"} : To(a, place) \/ Leave(a, place)
    BY <1>2 DEF SendFails, Rejected, StreamBreaks, CloseAnswer
  <2>2. Moved(a, place)
    BY <2>1, StepMoves DEF KcInv
  <2>3. kcActive' = kcActive - 1 /\ kcRound[a].at \in Holding
    BY <1>2 DEF SendFails, Rejected, StreamBreaks, CloseAnswer
  <2> QED BY <1>0, <2>1, <2>2, <2>3, SlotGivenBack
<1>3. CASE Answered(a)
  BY <1>0, <1>3, StepMoves, SlotKept DEF Answered, KcInv
<1>4. CASE OpenStream(a)
  <2>1. Moved(a, "window")
    BY <1>4 DEF OpenStream, KcInv, KcTyped, Moved
  <2> QED BY <1>0, <1>4, <2>1, SlotKept DEF OpenStream
<1>5. CASE ReadFrame(a)
  <2>1. kcRound[a].at = "window"
    BY <1>5 DEF ReadFrame
  <2>2. \/ Leave(a, "failed") /\ kcActive' = kcActive - 1
        \/ Leave(a, "committed") /\ kcActive' = kcActive
        \/ kcRound' = [kcRound EXCEPT ![a].frames = @ + 1] /\ kcActive' = kcActive
    BY <1>5 DEF ReadFrame
  <2>3. CASE Leave(a, "failed") /\ kcActive' = kcActive - 1
    BY <1>0, <2>1, <2>3, StepMoves, SlotGivenBack DEF KcInv
  <2>4. CASE Leave(a, "committed") /\ kcActive' = kcActive
    BY <1>0, <2>1, <2>4, StepMoves, SlotKept DEF KcInv
  <2>5. CASE kcRound' = [kcRound EXCEPT ![a].frames = @ + 1] /\ kcActive' = kcActive
    <3>1. Moved(a, "window")
      BY <2>1, <2>5 DEF KcInv, KcTyped, Moved
    <3> QED BY <1>0, <2>1, <2>5, <3>1, SlotKept
  <2> QED BY <2>2, <2>3, <2>4, <2>5
<1> QED BY <1>1, <1>2, <1>3, <1>4, <1>5

\* No slot is in use in the initial states.
LEMMA KcInitSafe == KcInit => KcInv
<1> SUFFICES ASSUME KcInit
             PROVE  KcInv
  OBVIOUS
<1>1. KcTyped
  BY DEF KcInit, KcTyped, Fresh
<1>2. Sending = {}
  BY DEF KcInit, Sending, Holding, Fresh
<1>3. kcActive = Cardinality(Sending)
  BY <1>2, FS_EmptySet DEF KcInit
<1>4. kcLeaked = {}
  BY DEF KcInit
<1> QED BY <1>1, <1>3, <1>4 DEF KcInv, KcSlotsReturned, Sending, Holding

\* The count of a channel's slots is inductive.
LEMMA KcAlways == Spec => []KcInv
<1>1. Init => KcInv
  BY KcInitSafe DEF Init
<1>2. KcInv /\ [Next]_vars => KcInv'
  <2> SUFFICES ASSUME KcInv, [Next]_vars
               PROVE  KcInv'
    OBVIOUS
  <2>1. CASE kcRound' = kcRound /\ kcActive' = kcActive /\ kcLeaked' = kcLeaked
    BY <2>1 DEF KcInv, KcTyped, KcSlotsReturned, In
  <2>2. CASE KeysStep
    <3>1. CASE KcTick \/ PruneCooldowns \/ WipeKeys
      BY <2>1, <3>1 DEF KcTick, PruneCooldowns, WipeKeys, Unmoved
    <3>2. ASSUME NEW a \in Rounds,
                 \/ TakeTicket(a) \/ LookAtKey(a) \/ DropExpired(a) \/ AskPermit(a)
                 \/ TryPermit(a) \/ WakeUp(a) \/ LeaveWait(a) \/ SlotsFull(a) \/ CoolKey(a)
          PROVE  KcInv'
      BY <3>2, ChoiceKeepsSlots
    <3>3. ASSUME NEW a \in Rounds,
                 \/ OpenSlot(a) \/ SendFails(a) \/ Rejected(a) \/ Answered(a) \/ OpenStream(a)
                 \/ ReadFrame(a) \/ StreamBreaks(a) \/ CloseAnswer(a)
          PROVE  KcInv'
      BY <3>3, AnswerReturnsSlot
    <3>4. ASSUME NEW a \in Rounds, RoundPanics(a)
          PROVE  KcInv'
      BY <3>4, PanicAccounted
    <3> QED BY <2>2, <3>1, <3>2, <3>3, <3>4 DEF KeysStep, KcNext
  <2> QED BY <2>1, <2>2 DEF Next, LimitsStep, AccountStep, UpdateStep, UsageStep, vars, kcVars
<1> QED BY <1>1, <1>2, PTL DEF Spec

\* Whoever takes a slot, of an API key or of a channel, gives it back exactly
\* once, on every way out: refused, answered, failed or cut off; but for a
\* request that panics before its answer is attached, whose slot of the channel
\* is never given back.
THEOREM SlotsAlwaysReturned == Spec => []SlotsReturned
<1>1. KlInv /\ KcInv => SlotsReturned
  BY DEF KlInv, KcInv, SlotsReturned
<1> QED BY <1>1, KlAlways, KcAlways, PTL

-----------------------------------------------------------------------------
(* The window of a rate limit.                                             *)

\* What was given and is no longer on record has left the ticks the limit is relied upon for,
\* and what is on record lags behind by MaxLag at most.
Bounded(times, given, now) ==
    /\ times \in Seq(Int) /\ given \in Seq(Int) /\ Len(times) <= Len(given)
    /\ \A i \in 1 .. Len(given) - Len(times) : given[i] <= now - (Window - MaxLag)
    /\ \A i \in 1 .. Len(times) : given[Len(given) - Len(times) + i] <= times[i] + MaxLag

\* What has left the window stays out.
LEMMA BoundedLater ==
  ASSUME NEW times, NEW given, NEW now \in Int, NEW later \in Int, now <= later,
         Bounded(times, given, now)
  PROVE  Bounded(times, given, later)
<1>1. /\ Len(given) \in Nat /\ Len(times) \in Nat /\ Window \in Nat /\ MaxLag \in Nat
      /\ \A i \in 1 .. Len(given) : given[i] \in Int
  BY WindowAssumption DEF Bounded
<1>2. \A i \in 1 .. Len(given) - Len(times) : given[i] <= later - (Window - MaxLag)
  BY <1>1 DEF Bounded
<1> QED BY <1>2 DEF Bounded

\* An empty window with nothing given.
LEMMA BoundedEmpty ==
  ASSUME NEW now \in Int
  PROVE  Bounded(<<>>, <<>>, now)
<1>1. <<>> \in Seq(Int) /\ Len(<<>>) = 0
  OBVIOUS
<1> QED BY <1>1 DEF Bounded

\* A set of numbers that is not empty has a least one.
LEMMA LeastIndex ==
  ASSUME NEW I, I \subseteq Nat, I # {}
  PROVE  Min(I) \in I /\ \A i \in I : Min(I) <= i
<1>1. PICK m \in I : \A i \in I : <<i, m>> \notin OpToRel(<, Nat)
  BY NatLessThanWellFounded, WFMin
<1>2. \A i \in I : i \in Nat /\ m \in Nat /\ ~(i < m)
  BY <1>1 DEF OpToRel
<1>3. \A i \in I : m <= i
  BY <1>2
<1> QED BY <1>1, <1>3 DEF Min

\* What a look at the window leaves is its end, and what it drops is outside.
LEMMA WindowIsEnd ==
  ASSUME NEW times \in Seq(Int), NEW now \in Int
  PROVE  \E d \in 0 .. Len(times) :
            /\ InWindow(times, now) \in Seq(Int) /\ Len(InWindow(times, now)) = Len(times) - d
            /\ \A i \in 1 .. d : times[i] <= now - Window
            /\ \A i \in 1 .. Len(times) - d : InWindow(times, now)[i] = times[d + i]
<1> DEFINE inside == {i \in 1 .. Len(times) : times[i] > now - Window}
<1>0. Len(times) \in Nat /\ Window \in Nat /\ \A i \in 1 .. Len(times) : times[i] \in Int
  BY WindowAssumption
<1>1. CASE inside = {}
  <2>1. InWindow(times, now) = <<>>
    BY <1>1 DEF InWindow, SelectInSeq
  <2>2. \A i \in 1 .. Len(times) : times[i] <= now - Window
    BY <1>0, <1>1
  <2> WITNESS Len(times) \in 0 .. Len(times)
  <2> QED BY <1>0, <2>1, <2>2
<1>2. CASE inside # {}
  <2>1. PICK m : m = Min(inside)
    OBVIOUS
  <2>2. m \in inside /\ \A i \in inside : m <= i
    <3>1. inside \subseteq Nat
      BY <1>0
    <3> QED BY <1>2, <2>1, <3>1, LeastIndex
  <2>3. m \in 1 .. Len(times) /\ m # 0
    BY <2>2
  <2>4. InWindow(times, now) = SubSeq(times, m, Len(times))
    BY <1>2, <2>1, <2>3 DEF InWindow, SelectInSeq
  <2>5. /\ SubSeq(times, m, Len(times)) \in Seq(Int)
        /\ Len(SubSeq(times, m, Len(times))) = Len(times) - (m - 1)
        /\ \A i \in 1 .. Len(times) - (m - 1) : SubSeq(times, m, Len(times))[i] = times[(m - 1) + i]
    BY <1>0, <2>3
  <2>6. \A i \in 1 .. m - 1 : times[i] <= now - Window
    BY <1>0, <2>2, <2>3
  <2> HIDE DEF inside
  <2> m - 1 \in 0 .. Len(times)
    BY <1>0, <2>3
  <2> WITNESS m - 1 \in 0 .. Len(times)
  <2> QED BY <2>4, <2>5, <2>6
<1> QED BY <1>1, <1>2

\* Dropping what is outside the window of a caller who lags behind by MaxLag at most.
LEMMA DroppedBounded ==
  ASSUME NEW times, NEW given, NEW old \in Int, NEW now \in Int, NEW time \in Int,
         Bounded(times, given, old), old <= time, now <= time, time <= now + MaxLag
  PROVE  Bounded(InWindow(times, now), given, time)
<1>1. PICK kept : kept = InWindow(times, now)
  OBVIOUS
<1>2. PICK d \in 0 .. Len(times) :
         /\ kept \in Seq(Int) /\ Len(kept) = Len(times) - d
         /\ \A i \in 1 .. d : times[i] <= now - Window
         /\ \A i \in 1 .. Len(times) - d : kept[i] = times[d + i]
  BY <1>1, WindowIsEnd DEF Bounded
<1>3. Bounded(times, given, time)
  BY BoundedLater
<1>4. /\ Len(given) \in Nat /\ Len(times) \in Nat /\ Len(times) <= Len(given) /\ d \in Nat
      /\ d <= Len(times) /\ Window \in Nat /\ MaxLag \in Nat
      /\ \A i \in 1 .. Len(given) : given[i] \in Int
      /\ \A i \in 1 .. Len(times) : times[i] \in Int
  BY <1>3, WindowAssumption DEF Bounded
<1>5. ASSUME NEW i \in 1 .. Len(given) - Len(kept)
      PROVE  given[i] <= time - (Window - MaxLag)
  <2>1. CASE i <= Len(given) - Len(times)
    BY <1>3, <1>4, <2>1 DEF Bounded
  <2>2. CASE i > Len(given) - Len(times)
    <3>1. PICK j : j = i - (Len(given) - Len(times))
      OBVIOUS
    <3>2. j \in 1 .. d /\ j \in 1 .. Len(times) /\ Len(given) - Len(times) + j = i
          /\ i \in 1 .. Len(given)
      BY <1>2, <1>4, <2>2, <3>1
    <3>3. given[i] <= times[j] + MaxLag
      BY <1>3, <3>2 DEF Bounded
    <3>4. times[j] <= now - Window
      BY <1>2, <3>2
    <3> QED BY <1>4, <3>2, <3>3, <3>4
  <2> QED BY <1>2, <1>4, <2>1, <2>2
<1>6. ASSUME NEW i \in 1 .. Len(kept)
      PROVE  given[Len(given) - Len(kept) + i] <= kept[i] + MaxLag
  <2>1. d + i \in 1 .. Len(times)
        /\ Len(given) - Len(times) + (d + i) = Len(given) - Len(kept) + i
    BY <1>2, <1>4
  <2>2. given[Len(given) - Len(times) + (d + i)] <= times[d + i] + MaxLag
    BY <1>3, <2>1 DEF Bounded
  <2> QED BY <1>2, <2>1, <2>2
<1> QED BY <1>1, <1>2, <1>3, <1>4, <1>5, <1>6 DEF Bounded

\* One more that is given, at "time" with "now" on record.
LEMMA AppendBounded ==
  ASSUME NEW times, NEW given, NEW now \in Int, NEW time \in Int,
         Bounded(times, given, time), time <= now + MaxLag
  PROVE  Bounded(Append(times, now), Append(given, time), time)
<1>1. PICK ts, gs : ts = Append(times, now) /\ gs = Append(given, time)
  OBVIOUS
<1>2. times \in Seq(Int) /\ given \in Seq(Int) /\ Len(times) <= Len(given)
  BY DEF Bounded
<1>3. /\ ts \in Seq(Int) /\ gs \in Seq(Int) /\ Len(ts) = Len(times) + 1 /\ Len(gs) = Len(given) + 1
      /\ \A i \in 1 .. Len(times) : ts[i] = times[i]
      /\ \A i \in 1 .. Len(given) : gs[i] = given[i]
      /\ ts[Len(times) + 1] = now /\ gs[Len(given) + 1] = time
      /\ Len(times) \in Nat /\ Len(given) \in Nat
  BY <1>1, <1>2
<1>4. \A i \in 1 .. Len(gs) - Len(ts) : gs[i] <= time - (Window - MaxLag)
  <2>1. \A i \in 1 .. Len(gs) - Len(ts) :
           i \in 1 .. Len(given) - Len(times) /\ i \in 1 .. Len(given)
    <3>1. /\ Len(gs) = Len(given) + 1 /\ Len(ts) = Len(times) + 1
          /\ Len(times) \in Nat /\ Len(given) \in Nat
      BY <1>3
    <3>2. Len(gs) - Len(ts) = Len(given) - Len(times)
      BY ONLY <3>1
    <3>3. \A i \in 1 .. Len(given) - Len(times) : i \in 1 .. Len(given)
      BY ONLY <3>1
    <3> QED BY ONLY <3>2, <3>3
  <2>2. \A i \in 1 .. Len(given) - Len(times) : given[i] <= time - (Window - MaxLag)
    BY DEF Bounded
  <2>3. \A i \in 1 .. Len(gs) - Len(ts) : gs[i] = given[i]
    BY <1>3, <2>1
  <2> QED BY <2>1, <2>2, <2>3
<1>5. ASSUME NEW i \in 1 .. Len(ts)
      PROVE  gs[Len(gs) - Len(ts) + i] <= ts[i] + MaxLag
  <2>1. CASE i \in 1 .. Len(times)
    <3>1. /\ Len(gs) - Len(ts) + i = Len(given) - Len(times) + i
          /\ Len(given) - Len(times) + i \in 1 .. Len(given)
      BY <1>2, <1>3, <2>1
    <3>2. given[Len(given) - Len(times) + i] <= times[i] + MaxLag
      BY <2>1 DEF Bounded
    <3> QED BY <1>3, <2>1, <3>1, <3>2
  <2>2. CASE i = Len(times) + 1
    <3>1. Len(gs) - Len(ts) + i = Len(given) + 1
      BY <1>2, <1>3, <2>2
    <3> QED BY <1>3, <2>2, <3>1
  <2> QED BY <1>3, <2>1, <2>2
<1>6. Len(ts) <= Len(gs)
  BY <1>2, <1>3
<1>7. Bounded(ts, gs, time)
  BY <1>3, <1>4, <1>5, <1>6 DEF Bounded
<1> QED BY <1>1, <1>7

\* Of what was given no more is recent than is on record.
LEMMA RecentOnRecord ==
  ASSUME NEW times, NEW given, NEW time \in Int, Bounded(times, given, time)
  PROVE  Recent(given, time) <= Len(times) /\ Recent(given, time) \in Nat
<1> DEFINE recent == {i \in DOMAIN given : given[i] > time - (Window - MaxLag)}
           last == Len(given) - Len(times) + 1 .. Len(given)
<1>1. /\ times \in Seq(Int) /\ given \in Seq(Int) /\ Len(times) \in Nat /\ Len(given) \in Nat
      /\ DOMAIN given = 1 .. Len(given) /\ Len(times) <= Len(given)
      /\ Window \in Nat /\ MaxLag \in Nat
      /\ \A i \in 1 .. Len(given) : given[i] \in Int
  BY WindowAssumption DEF Bounded
<1>2. ASSUME NEW i \in recent
      PROVE  i \in last
  <2>1. i \in 1 .. Len(given) /\ given[i] > time - (Window - MaxLag)
    BY <1>1
  <2>2. ASSUME i \in 1 .. Len(given) - Len(times)
        PROVE  FALSE
    <3>1. given[i] <= time - (Window - MaxLag)
      BY <2>2 DEF Bounded
    <3> QED BY <1>1, <2>1, <3>1
  <2> QED BY <1>1, <2>1, <2>2
<1>3. IsFiniteSet(last) /\ Cardinality(last) = Len(times)
  <2>1. PICK a, b : a = Len(given) - Len(times) + 1 /\ b = Len(given)
    OBVIOUS
  <2>2. a \in Int /\ b \in Int /\ b - a + 1 = Len(times) /\ (a > b => Len(times) = 0)
    BY <1>1, <2>1
  <2>3. IsFiniteSet(a .. b) /\ Cardinality(a .. b) = IF a > b THEN 0 ELSE b - a + 1
    BY <2>2, FS_Interval
  <2> QED BY <2>1, <2>2, <2>3
<1> HIDE DEF last
<1>4. recent \subseteq last
  BY <1>2
<1>5. IsFiniteSet(recent) /\ Cardinality(recent) <= Cardinality(last)
  BY <1>3, <1>4, FS_Subset
<1>6. Cardinality(recent) \in Nat
  BY <1>5, FS_CardinalityType
<1> QED BY <1>3, <1>5, <1>6 DEF Recent

\* A permit keeps the record, and one that is given is within the limit.
LEMMA PermitBounded ==
  ASSUME NEW times, NEW given, NEW old \in Int, NEW now \in Int, NEW time \in Int,
         NEW rpm \in Nat, Bounded(times, given, old),
         old <= time, now <= time, time <= now + MaxLag
  PROVE  LET permit == Permit(times, now, rpm)
         IN  /\ permit.given => /\ Bounded(permit.times, Append(given, time), time)
                                /\ Recent(Append(given, time), time) <= rpm
             /\ ~permit.given => Bounded(permit.times, given, time)
<1>1. PICK kept : kept = InWindow(times, now)
  OBVIOUS
<1>2. Bounded(kept, given, time)
  BY <1>1, DroppedBounded
<1>3. kept \in Seq(Int) /\ Len(kept) \in Nat
  BY <1>2 DEF Bounded
<1>4. CASE Len(kept) >= rpm
  <2>1. Permit(times, now, rpm).given = FALSE /\ Permit(times, now, rpm).times = kept
    BY <1>1, <1>4 DEF Permit
  <2> QED BY <1>2, <2>1
<1>5. CASE ~(Len(kept) >= rpm)
  <2>1. Permit(times, now, rpm).given = TRUE /\ Permit(times, now, rpm).times = Append(kept, now)
    BY <1>1, <1>5 DEF Permit
  <2>2. Bounded(Append(kept, now), Append(given, time), time)
    BY <1>2, AppendBounded
  <2>3. Len(Append(kept, now)) = Len(kept) + 1
    BY <1>3
  <2>4. /\ Recent(Append(given, time), time) <= Len(Append(kept, now))
        /\ Recent(Append(given, time), time) \in Nat
    BY <2>2, RecentOnRecord
  <2>5. Recent(Append(given, time), time) <= rpm
    BY <1>3, <1>5, <2>3, <2>4
  <2> QED BY <2>1, <2>2, <2>5
<1> QED BY <1>4, <1>5

-----------------------------------------------------------------------------
(* The rate limit of an API key.                                           *)

\* Who waits with a time it has read is not left behind, and whoever may yet ask for a permit
\* goes by a limit the panel has stored.
InTime(q, time) ==
    /\ q.at = "timed" => q.now <= time /\ time <= q.now + MaxLag
    /\ q.at \in {"valid", "found", "counted", "timed"} => q.key \in Settings

KlRate ==
    /\ Bounded(klWindow, klGiven, klTime)
    /\ \A r \in Clients : InTime(klClient[r], klTime)

\* A request that moves on, the clock standing still.
LEMMA InTimeMoves ==
  ASSUME KlTyped, KlRate, NEW r \in Clients, NEW q, klClient' = [klClient EXCEPT ![r] = q],
         klTime' = klTime, InTime(q, klTime)
  PROVE  \A s \in Clients : InTime(klClient[s], klTime)'
<1>1. \A s \in Clients : klClient'[s] = IF s = r THEN q ELSE klClient[s]
  BY DEF KlTyped
<1> QED BY <1>1 DEF KlRate, InTime

LEMMA KlRateInit == KlInit => KlRate
<1> SUFFICES ASSUME KlInit
             PROVE  KlRate
  OBVIOUS
<1>1. Bounded(klWindow, klGiven, klTime)
  BY BoundedEmpty DEF KlInit
<1>2. \A r \in Clients : InTime(klClient[r], klTime)
  BY DEF KlInit, Waiting, InTime
<1> QED BY <1>1, <1>2 DEF KlRate

\* A permit, given or refused.
LEMMA KlPermit ==
  ASSUME KlTyped, KlRate, NEW r \in Clients, TakePermit(r) \/ RefusePermit(r)
  PROVE  /\ Bounded(klWindow, klGiven, klTime)'
         /\ TakePermit(r) => Recent(klGiven', klTime) <= klClient[r].key.rpm
<1>1. PICK now, rpm : now = klClient[r].now /\ rpm = klClient[r].key.rpm
  OBVIOUS
<1>2. klClient[r] \in Request /\ klTime \in Nat /\ klClient[r].at = "timed"
  BY DEF KlTyped, TakePermit, RefusePermit, At
<1>3. now \in Int /\ now <= klTime /\ klTime <= now + MaxLag
  BY <1>1, <1>2 DEF KlRate, InTime, Request
<1>4. rpm \in Nat
  BY <1>1, <1>2, SettingsAssumption DEF KlRate, InTime
<1>5. PICK permit : permit = Permit(klWindow, now, rpm)
  OBVIOUS
<1>6. /\ permit.given => /\ Bounded(permit.times, Append(klGiven, klTime), klTime)
                          /\ Recent(Append(klGiven, klTime), klTime) <= rpm
      /\ ~permit.given => Bounded(permit.times, klGiven, klTime)
  <2>1. Bounded(klWindow, klGiven, klTime) /\ klTime \in Int /\ klTime <= klTime
    BY <1>2 DEF KlRate
  <2> QED BY <1>3, <1>4, <1>5, <2>1, PermitBounded
<1>7. CASE TakePermit(r)
  <2>1. /\ permit.given /\ klWindow' = permit.times /\ klTime' = klTime
        /\ klGiven' = Append(klGiven, klTime)
    BY <1>1, <1>5, <1>7 DEF TakePermit
  <2> QED BY <1>1, <1>6, <2>1 DEF Bounded
<1>8. CASE RefusePermit(r)
  <2>1. ~permit.given /\ klWindow' = permit.times /\ klTime' = klTime /\ klGiven' = klGiven
    BY <1>1, <1>5, <1>8 DEF RefusePermit
  <2>2. ~TakePermit(r)
    BY <1>1, <1>5, <2>1 DEF TakePermit
  <2> QED BY <1>6, <2>1, <2>2 DEF Bounded
<1> QED BY <1>7, <1>8

LEMMA KlRateStep == KlInv /\ KlRate /\ KlNext => KlRate'
<1> SUFFICES ASSUME KlTyped, KlRate, KlNext
             PROVE  KlRate'
  BY DEF KlInv
<1>1. CASE KlTick
  <2>1. klTime \in Int /\ klTime' \in Int /\ klTime <= klTime' /\ klTime' = klTime + 1
        /\ klWindow' = klWindow /\ klGiven' = klGiven /\ klClient' = klClient
    BY <1>1 DEF KlTick, KlTyped
  <2>2. Bounded(klWindow, klGiven, klTime')
    BY <2>1, BoundedLater DEF KlRate
  <2>3. Bounded(klWindow, klGiven, klTime)'
    BY <2>1, <2>2 DEF Bounded
  <2>4. ASSUME NEW r \in Clients
        PROVE  InTime(klClient[r], klTime)'
    <3>1. klClient[r] \in Request /\ InTime(klClient[r], klTime)
      BY DEF KlTyped, KlRate
    <3>2. klClient[r].now \in Nat /\ klTime \in Nat /\ MaxLag \in Nat
      BY <3>1, WindowAssumption DEF KlTyped, Request
    <3>3. klClient[r].at = "timed" => klTime < klClient[r].now + MaxLag
      BY <1>1 DEF KlTick, At
    <3> QED BY <2>1, <3>1, <3>2, <3>3 DEF InTime
  <2> QED BY <2>3, <2>4 DEF KlRate
<1>2. CASE ChangeKey \/ DeleteKey
  BY <1>2 DEF ChangeKey, DeleteKey, KlRate, Bounded, InTime
<1>3. CASE CleanUpKey
  <2>1. /\ klWindow' = <<>> /\ klGiven' = <<>> /\ klTime' = klTime /\ klClient' = klClient
        /\ klTime \in Int
    BY <1>3 DEF CleanUpKey, KlTyped
  <2>2. Bounded(klWindow, klGiven, klTime)'
    BY <2>1, BoundedEmpty
  <2> QED BY <2>1, <2>2 DEF KlRate, InTime
<1>4. ASSUME NEW r \in Clients, Authenticate(r)
      PROVE  KlRate'
  <2> DEFINE q == [Waiting EXCEPT !.key = klKey,
                           !.at = IF ~Valid(klKey, klTime) THEN "refused"
                                  ELSE IF klKey.slots = 0 THEN "counted" ELSE "valid"]
  <2>1. UNCHANGED <<klTime, klWindow, klGiven>> /\ klClient' = [klClient EXCEPT ![r] = q]
    BY <1>4 DEF Authenticate
  <2>2. InTime(q, klTime)
    <3>1. q.at # "timed" /\ q.key = klKey
      BY DEF Waiting
    <3>2. q.at # "refused" => klKey \in Settings
      BY DEF Waiting, Valid, KlTyped
    <3> QED BY <3>1, <3>2 DEF InTime
  <2> HIDE DEF q
  <2> QED BY <2>1, <2>2, InTimeMoves DEF KlRate, Bounded
<1>5. ASSUME NEW r \in Clients, FindCounter(r) \/ TakeSlot(r) \/ ReadClock(r) \/ Served(r)
      PROVE  KlRate'
  <2>1. klTime \in Nat /\ klClient[r] \in Request /\ MaxLag \in Nat
        /\ InTime(klClient[r], klTime)
    BY WindowAssumption DEF KlTyped, KlRate
  <2>2. UNCHANGED <<klTime, klWindow, klGiven>>
    BY <1>5 DEF FindCounter, TakeSlot, ReadClock, Served
  <2>3. PICK q : klClient' = [klClient EXCEPT ![r] = q] /\ InTime(q, klTime)
    <3>1. CASE FindCounter(r) \/ TakeSlot(r) \/ Served(r)
      <4> DEFINE q == klClient'[r]
      <4>1. klClient' = [klClient EXCEPT ![r] = q]
        BY <3>1 DEF FindCounter, TakeSlot, Served, KlTyped
      <4>2. /\ q.at \in {"found", "refused", "counted", "served"} /\ q.key = klClient[r].key
            /\ q.at \in {"found", "counted"} => klClient[r].at \in {"valid", "found"}
        BY <2>1, <3>1 DEF FindCounter, TakeSlot, Served, KlTyped, Request, At
      <4> HIDE DEF q
      <4>3. InTime(q, klTime)
        BY <2>1, <4>2 DEF InTime
      <4> QED BY <4>1, <4>3
    <3>2. CASE ReadClock(r)
      <4> DEFINE q == klClient'[r]
      <4>1. klClient' = [klClient EXCEPT ![r] = q]
        BY <3>2 DEF ReadClock, KlTyped
      <4>2. q.at = "timed" /\ q.key = klClient[r].key /\ q.now = klTime
            /\ klClient[r].at = "counted"
        BY <2>1, <3>2 DEF ReadClock, KlTyped, Request, At
      <4> HIDE DEF q
      <4>3. InTime(q, klTime)
        BY <2>1, <4>2 DEF InTime
      <4> QED BY <4>1, <4>3
    <3> QED BY <1>5, <3>1, <3>2
  <2> QED BY <2>2, <2>3, InTimeMoves DEF KlRate, Bounded
<1>6. ASSUME NEW r \in Clients, PassUnlimited(r) \/ TakePermit(r) \/ RefusePermit(r)
      PROVE  KlRate'
  <2>1. klTime' = klTime /\ klTime \in Int
    BY <1>6 DEF PassUnlimited, TakePermit, RefusePermit, KlTyped
  <2>2. PICK q : klClient' = [klClient EXCEPT ![r] = q] /\ q.at \in {"serving", "refused"}
    <3> DEFINE q == klClient'[r]
    <3>1. klClient' = [klClient EXCEPT ![r] = q] /\ q.at \in {"serving", "refused"}
      BY <1>6 DEF PassUnlimited, TakePermit, RefusePermit, KlTyped, Request
    <3> QED BY <3>1
  <2>3. InTime(q, klTime)
    BY <2>2 DEF InTime
  <2>4. Bounded(klWindow, klGiven, klTime)'
    <3>1. CASE PassUnlimited(r)
      BY <2>1, <3>1, BoundedEmpty DEF PassUnlimited
    <3>2. CASE TakePermit(r) \/ RefusePermit(r)
      BY <3>2, KlPermit
    <3> QED BY <1>6, <3>1, <3>2
  <2> QED BY <2>1, <2>2, <2>3, <2>4, InTimeMoves DEF KlRate
<1> QED BY <1>1, <1>2, <1>3, <1>4, <1>5, <1>6 DEF KlNext

-----------------------------------------------------------------------------
(* The rate limit of a channel's keys, and their cooldowns.                *)

KcTables ==
    /\ kcTime \in Nat /\ kcWipes \in Nat
    /\ kcCooling \in [KeySet -> Nat]
    /\ kcWindow = [k \in KeySet |-> kcWindow[k]]
    /\ kcGiven = [k \in KeySet |-> kcGiven[k]]

\* Without a limit no window is kept and nobody asks.
KcBounded == Rpm # 0 => \A k \in KeySet : Bounded(kcWindow[k], kcGiven[k], kcTime)

\* A round that has read the clock is not left behind.
RoundInTime(q, time) ==
    q.at = "timed" => Rpm # 0 /\ q.now \in Nat /\ q.now <= time /\ time <= q.now + MaxLag

KcInTime == \A a \in Rounds : RoundInTime(kcRound[a], kcTime)

KcRate == KcTables /\ KcBounded /\ KcInTime

\* A round that moves on without having read the clock.
LEMMA RoundMovesOn ==
  ASSUME KcInTime, NEW a \in Rounds, NEW place, Moved(a, place), place # "timed",
         kcTime' = kcTime
  PROVE  KcInTime'
  BY DEF KcInTime, RoundInTime, Moved

\* The windows and the clock as they were.
LEMMA WindowsStay ==
  ASSUME KcBounded, UNCHANGED <<kcTime, kcWindow, kcGiven>>
  PROVE  KcBounded'
  BY DEF KcBounded, Bounded

LEMMA KcRateInit == KcInit => KcRate
<1> SUFFICES ASSUME KcInit
             PROVE  KcRate
  OBVIOUS
<1>1. KcTables
  BY DEF KcInit, KcTables
<1>2. KcBounded
  <2>1. kcTime \in Int /\ \A k \in KeySet : kcWindow[k] = <<>> /\ kcGiven[k] = <<>>
    BY DEF KcInit
  <2> QED BY <2>1, BoundedEmpty DEF KcBounded
<1>3. KcInTime
  BY DEF KcInit, Fresh, KcInTime, RoundInTime
<1> QED BY <1>1, <1>2, <1>3 DEF KcRate

\* A permit, given or refused.
LEMMA KcPermit ==
  ASSUME KcTyped, KcRate, NEW a \in Rounds, TryPermit(a)
  PROVE  /\ KcBounded'
         /\ \A k \in KeySet : kcGiven'[k] # kcGiven[k] => Recent(kcGiven'[k], kcTime) <= Rpm
<1>1. PICK key, now : key = KeyOf(a) /\ now = kcRound[a].now
  OBVIOUS
<1>2. /\ now \in Int /\ now <= kcTime /\ kcTime <= now + MaxLag /\ Rpm # 0
      /\ kcTime \in Int /\ kcTime' = kcTime /\ kcTime <= kcTime
  <2>1. kcRound[a].at = "timed" /\ kcTime' = kcTime
    BY DEF TryPermit, In
  <2>2. kcTime \in Nat
    BY DEF KcRate, KcTables
  <2>3. Rpm # 0 /\ now \in Nat /\ now <= kcTime /\ kcTime <= now + MaxLag
    BY <1>1, <2>1 DEF KcRate, KcInTime, RoundInTime
  <2> QED BY <2>1, <2>2, <2>3
<1>3. Rpm \in Nat
  BY LimitAssumption
<1>4. PICK permit : permit = Permit(kcWindow[key], now, Rpm)
  OBVIOUS
<1>5. /\ kcWindow' = [kcWindow EXCEPT ![key] = permit.times]
      /\ kcGiven' = [kcGiven EXCEPT ![key] =
                        IF permit.given THEN Append(@, kcTime) ELSE @]
  BY <1>1, <1>4 DEF TryPermit
<1>6. ASSUME NEW k \in KeySet, k # key
      PROVE  Bounded(kcWindow[k], kcGiven[k], kcTime)' /\ kcGiven'[k] = kcGiven[k]
  <2>1. kcWindow'[k] = kcWindow[k] /\ kcGiven'[k] = kcGiven[k]
    BY <1>5, <1>6 DEF KcRate, KcTables
  <2> QED BY <1>2, <2>1 DEF KcRate, KcBounded, Bounded
<1>7. ASSUME key \in KeySet
      PROVE  /\ Bounded(kcWindow[key], kcGiven[key], kcTime)'
             /\ kcGiven'[key] # kcGiven[key] => Recent(kcGiven'[key], kcTime) <= Rpm
  <2>1. /\ kcWindow'[key] = permit.times
        /\ kcGiven'[key] = IF permit.given THEN Append(kcGiven[key], kcTime) ELSE kcGiven[key]
    BY <1>5, <1>7 DEF KcRate, KcTables
  <2>2. Bounded(kcWindow[key], kcGiven[key], kcTime)
    BY <1>2, <1>7 DEF KcRate, KcBounded
  <2>3. /\ permit.given => /\ Bounded(permit.times, Append(kcGiven[key], kcTime), kcTime)
                           /\ Recent(Append(kcGiven[key], kcTime), kcTime) <= Rpm
        /\ ~permit.given => Bounded(permit.times, kcGiven[key], kcTime)
    BY <1>2, <1>3, <1>4, <2>2, PermitBounded
  <2>4. CASE permit.given
    <3>1. kcWindow'[key] = permit.times /\ kcGiven'[key] = Append(kcGiven[key], kcTime)
      BY <2>1, <2>4
    <3> QED BY <1>2, <2>3, <2>4, <3>1 DEF Bounded
  <2>5. CASE ~permit.given
    <3>1. kcWindow'[key] = permit.times /\ kcGiven'[key] = kcGiven[key]
      BY <2>1, <2>5
    <3> QED BY <1>2, <2>3, <2>5, <3>1 DEF Bounded
  <2> QED BY <2>4, <2>5
<1> QED BY <1>6, <1>7 DEF KcBounded

\* The step of a round that reads the clock.
LEMMA AskInTime ==
  ASSUME KcTyped, KcRate, NEW a \in Rounds, AskPermit(a)
  PROVE  KcInTime'
<1>1. /\ kcTime' = kcTime /\ kcTime \in Nat /\ MaxLag \in Nat
      /\ kcRound' = [kcRound EXCEPT ![a].at = IF Rpm = 0 THEN "ready" ELSE "timed",
                                    ![a].now = IF Rpm = 0 THEN 0 ELSE kcTime]
  BY WindowAssumption DEF AskPermit, KcRate, KcTables
<1>2. \A b \in Rounds \ {a} : kcRound'[b] = kcRound[b]
  BY <1>1 DEF KcTyped
<1>3. /\ kcRound'[a].at = "timed" => Rpm # 0
      /\ Rpm # 0 => kcRound'[a].now = kcTime
  <2>1. {"at", "now"} \subseteq DOMAIN kcRound[a] /\ a \in DOMAIN kcRound
    BY DEF KcTyped
  <2> QED BY <1>1, <2>1
<1>4. RoundInTime(kcRound[a], kcTime)'
  BY <1>1, <1>3 DEF RoundInTime
<1>5. \A b \in Rounds \ {a} : RoundInTime(kcRound[b], kcTime)'
  BY <1>1, <1>2 DEF KcRate, KcInTime, RoundInTime
<1> QED BY <1>4, <1>5 DEF KcInTime

\* What a round does to the tables, whatever it does.
LEMMA RoundTables ==
  ASSUME KcTables, NEW a \in Rounds,
         \/ TakeTicket(a) \/ LookAtKey(a) \/ DropExpired(a) \/ AskPermit(a) \/ TryPermit(a)
         \/ WakeUp(a) \/ LeaveWait(a) \/ OpenSlot(a) \/ SlotsFull(a) \/ SendFails(a)
         \/ Rejected(a) \/ CoolKey(a) \/ Answered(a) \/ OpenStream(a) \/ ReadFrame(a)
         \/ StreamBreaks(a) \/ CloseAnswer(a) \/ RoundPanics(a)
  PROVE  /\ KcTables' /\ kcTime' = kcTime
         /\ \A k \in KeySet : kcTime < kcCooling[k] => kcTime < kcCooling'[k]
<1>1. kcTime' = kcTime /\ kcWipes' = kcWipes
  BY DEF TakeTicket, LookAtKey, DropExpired, AskPermit, TryPermit, WakeUp, LeaveWait, OpenSlot,
         SlotsFull, SendFails, Rejected, CoolKey, Answered, OpenStream, ReadFrame, StreamBreaks,
         CloseAnswer, RoundPanics, Unmoved
<1>2. /\ \/ kcWindow' = kcWindow
         \/ \E key, window : kcWindow' = [kcWindow EXCEPT ![key] = window]
      /\ \/ kcGiven' = kcGiven
         \/ \E key, given : kcGiven' = [kcGiven EXCEPT ![key] = given]
  <2>1. CASE AskPermit(a)
    BY <2>1 DEF AskPermit
  <2>2. CASE TryPermit(a)
    BY <2>2 DEF TryPermit
  <2>3. CASE ~AskPermit(a) /\ ~TryPermit(a)
    BY <2>3 DEF TakeTicket, LookAtKey, DropExpired, WakeUp, LeaveWait, OpenSlot, SlotsFull,
                SendFails, Rejected, CoolKey, Answered, OpenStream, ReadFrame, StreamBreaks,
                CloseAnswer, RoundPanics, Unmoved
  <2> QED BY <2>1, <2>2, <2>3
<1>3. /\ kcWindow' = [k \in KeySet |-> kcWindow'[k]]
      /\ kcGiven' = [k \in KeySet |-> kcGiven'[k]]
  BY <1>2 DEF KcTables
<1>4. /\ kcCooling' \in [KeySet -> Nat]
      /\ \A k \in KeySet : kcTime < kcCooling[k] => kcTime < kcCooling'[k]
  <2>1. CASE DropExpired(a)
    <3>1. kcCooling' = [kcCooling EXCEPT ![KeyOf(a)] = IF Stale(KeyOf(a)) THEN 0 ELSE @]
      BY <2>1 DEF DropExpired
    <3>2. PICK key : key = KeyOf(a)
      OBVIOUS
    <3>3. kcCooling' = [kcCooling EXCEPT ![key] = IF Stale(key) THEN 0 ELSE @]
      BY <3>1, <3>2
    <3>4. kcCooling \in [KeySet -> Nat] /\ kcTime \in Nat
      BY DEF KcTables
    <3>5. kcCooling' \in [KeySet -> Nat]
      BY <3>3, <3>4
    <3>6. ASSUME NEW k \in KeySet, kcTime < kcCooling[k]
          PROVE  kcTime < kcCooling'[k]
      <4>1. kcCooling[k] \in Nat
        BY <3>4
      <4>2. ~Stale(k)
        BY <3>4, <3>6, <4>1 DEF Stale
      <4>3. kcCooling'[k] = kcCooling[k]
        BY <3>3, <3>4, <4>2
      <4> QED BY <3>6, <4>3
    <3> QED BY <3>5, <3>6
  <2>2. CASE CoolKey(a)
    <3>1. PICK length \in Cooldowns : kcCooling' = [kcCooling EXCEPT ![KeyOf(a)] = kcTime + length]
      BY <2>2 DEF CoolKey
    <3>2. length \in Nat \ {0}
      BY LimitAssumption
    <3>3. kcTime + length \in Nat /\ kcTime < kcTime + length
      BY <3>2 DEF KcTables
    <3> QED BY <3>1, <3>3 DEF KcTables
  <2>3. CASE ~DropExpired(a) /\ ~CoolKey(a)
    BY <2>3 DEF KcTables, TakeTicket, LookAtKey, AskPermit, TryPermit, WakeUp, LeaveWait,
                OpenSlot, SlotsFull, SendFails, Rejected, Answered, OpenStream, ReadFrame,
                StreamBreaks, CloseAnswer, RoundPanics
  <2> QED BY <2>1, <2>2, <2>3
<1> QED BY <1>1, <1>3, <1>4 DEF KcTables

\* What a step of a round keeps and never does.
LEMMA KcRoundRate ==
  ASSUME KcTyped, KcRate, NEW a \in Rounds,
         \/ TakeTicket(a) \/ LookAtKey(a) \/ DropExpired(a) \/ AskPermit(a) \/ TryPermit(a)
         \/ WakeUp(a) \/ LeaveWait(a) \/ OpenSlot(a) \/ SlotsFull(a) \/ SendFails(a)
         \/ Rejected(a) \/ CoolKey(a) \/ Answered(a) \/ OpenStream(a) \/ ReadFrame(a)
         \/ StreamBreaks(a) \/ CloseAnswer(a) \/ RoundPanics(a)
  PROVE  /\ KcRate'
         /\ \A k \in KeySet : /\ kcGiven'[k] # kcGiven[k] => Recent(kcGiven'[k], kcTime) <= Rpm
                              /\ kcTime < kcCooling[k] => kcTime < kcCooling'[k]
<1>1. /\ KcTables' /\ kcTime' = kcTime
      /\ \A k \in KeySet : kcTime < kcCooling[k] => kcTime < kcCooling'[k]
  BY RoundTables DEF KcRate
<1>2. CASE TryPermit(a)
  <2>1. /\ KcBounded'
        /\ \A k \in KeySet : kcGiven'[k] # kcGiven[k] => Recent(kcGiven'[k], kcTime) <= Rpm
    BY <1>2, KcPermit
  <2>2. PICK place : Moved(a, place) /\ place # "timed"
    <3>1. ~AskPermit(a)
      BY <1>2 DEF TryPermit, AskPermit, In
    <3> QED BY <1>2, <3>1, ChoiceMoves
  <2>3. KcInTime'
    BY <1>1, <2>2, RoundMovesOn DEF KcRate
  <2> QED BY <1>1, <2>1, <2>3 DEF KcRate
<1>3. CASE AskPermit(a)
  <2>1. KcInTime'
    BY <1>3, AskInTime
  <2>2. kcGiven' = kcGiven /\ (Rpm # 0 => kcWindow' = kcWindow)
    <3>1. /\ kcGiven' = kcGiven
          /\ kcWindow' = [kcWindow EXCEPT ![KeyOf(a)] = IF Rpm = 0 THEN <<>> ELSE @]
      BY <1>3 DEF AskPermit
    <3>2. kcWindow = [k \in KeySet |-> kcWindow[k]]
      BY DEF KcRate, KcTables
    <3> QED BY <3>1, <3>2
  <2>3. KcBounded'
    BY <1>1, <2>2 DEF KcRate, KcBounded, Bounded
  <2> QED BY <1>1, <2>1, <2>2, <2>3 DEF KcRate
<1>4. CASE ~TryPermit(a) /\ ~AskPermit(a)
  <2>1. kcWindow' = kcWindow /\ kcGiven' = kcGiven
    BY <1>4 DEF TakeTicket, LookAtKey, DropExpired, WakeUp, LeaveWait, OpenSlot, SlotsFull,
                SendFails, Rejected, CoolKey, Answered, OpenStream, ReadFrame, StreamBreaks,
                CloseAnswer, RoundPanics, Unmoved
  <2>2. KcBounded'
    BY <1>1, <2>1, WindowsStay DEF KcRate
  <2>3. PICK place : Moved(a, place) /\ place # "timed"
    BY <1>4, ChoiceMoves, AnswerMoves
  <2>4. KcInTime'
    BY <1>1, <2>3, RoundMovesOn DEF KcRate
  <2> QED BY <1>1, <2>1, <2>2, <2>4 DEF KcRate
<1> QED BY <1>2, <1>3, <1>4

\* What a step of a channel's keys never does.
KcPromise ==
    \A k \in KeySet :
        /\ kcGiven'[k] # kcGiven[k] => Recent(kcGiven'[k], kcTime) <= Rpm
        /\ kcTime < kcCooling[k] /\ kcCooling'[k] <= kcTime => kcWipes' # kcWipes

LEMMA KcRateStep ==
  ASSUME KcTyped, KcRate, KcNext
  PROVE  KcRate' /\ KcPromise
<1>0. kcTime \in Nat /\ kcWipes \in Nat /\ kcCooling \in [KeySet -> Nat]
  BY DEF KcRate, KcTables
<1>1. CASE KcTick
  <2>1. /\ kcTime' = kcTime + 1
        /\ UNCHANGED <<kcCursor, kcCooling, kcWindow, kcGiven, kcActive, kcRound, kcLeaked,
                       kcWipes>>
    BY <1>1 DEF KcTick
  <2>2. KcTables'
    BY <2>1 DEF KcRate, KcTables
  <2>3. KcBounded'
    <3>1. ASSUME Rpm # 0, NEW k \in KeySet
          PROVE  Bounded(kcWindow[k], kcGiven[k], kcTime)'
      <4>1. kcTime \in Int /\ kcTime' \in Int /\ kcTime <= kcTime'
        BY <1>0, <2>1
      <4>2. Bounded(kcWindow[k], kcGiven[k], kcTime)
        BY <3>1 DEF KcRate, KcBounded
      <4>3. Bounded(kcWindow[k], kcGiven[k], kcTime')
        BY <4>1, <4>2, BoundedLater
      <4> QED BY <2>1, <4>3 DEF Bounded
    <3> QED BY <3>1 DEF KcBounded
  <2>4. ASSUME NEW a \in Rounds, kcRound[a].at = "timed"
        PROVE  kcRound[a].now <= kcTime' /\ kcTime' <= kcRound[a].now + MaxLag
    <3>1. kcTime < kcRound[a].now + MaxLag
      BY <1>1, <2>4 DEF KcTick, In
    <3>2. kcRound[a].now \in Nat /\ kcRound[a].now <= kcTime /\ MaxLag \in Nat
      BY <2>4, WindowAssumption DEF KcRate, KcInTime, RoundInTime
    <3> QED BY <1>0, <2>1, <3>1, <3>2
  <2>5. KcInTime'
    BY <2>1, <2>4 DEF KcRate, KcInTime, RoundInTime
  <2>6. KcPromise
    <3>1. ASSUME NEW k \in KeySet
          PROVE  ~(kcTime < kcCooling[k] /\ kcCooling[k] <= kcTime)
      BY <1>0
    <3> QED BY <2>1, <3>1 DEF KcPromise
  <2> QED BY <2>2, <2>3, <2>5, <2>6 DEF KcRate
<1>2. CASE PruneCooldowns
  <2>1. /\ UNCHANGED <<kcTime, kcWindow, kcGiven, kcWipes, kcRound>>
        /\ kcCooling' = [k \in KeySet |-> IF Stale(k) THEN 0 ELSE kcCooling[k]]
    BY <1>2 DEF PruneCooldowns, Unmoved
  <2>2. KcTables'
    BY <1>0, <2>1 DEF KcRate, KcTables
  <2>3. KcBounded' /\ KcInTime'
    BY <2>1, WindowsStay DEF KcRate, KcInTime, RoundInTime
  <2>4. ASSUME NEW k \in KeySet, kcTime < kcCooling[k]
        PROVE  ~(kcCooling'[k] <= kcTime)
    <3>1. ~Stale(k) /\ kcCooling[k] \in Nat
      BY <1>0, <2>4 DEF Stale
    <3>2. kcCooling'[k] = kcCooling[k]
      BY <2>1, <3>1
    <3> QED BY <1>0, <2>4, <3>1, <3>2
  <2>5. KcPromise
    BY <2>1, <2>4 DEF KcPromise
  <2> QED BY <2>2, <2>3, <2>5 DEF KcRate
<1>3. CASE WipeKeys
  <2>1. /\ UNCHANGED <<kcTime, kcRound>> /\ kcWipes' = kcWipes + 1
        /\ kcCooling' = [k \in KeySet |-> 0]
        /\ kcWindow' = [k \in KeySet |-> <<>>]
        /\ kcGiven' = [k \in KeySet |-> <<>>]
    BY <1>3 DEF WipeKeys
  <2>2. KcTables'
    BY <1>0, <2>1 DEF KcTables
  <2>3. \A k \in KeySet : Bounded(kcWindow[k], kcGiven[k], kcTime)'
    <3>1. kcTime' \in Int
      BY <1>0, <2>1
    <3>2. Bounded(<<>>, <<>>, kcTime')
      BY <3>1, BoundedEmpty
    <3>3. \A k \in KeySet : kcWindow'[k] = <<>> /\ kcGiven'[k] = <<>>
      BY <2>1
    <3> QED BY <3>2, <3>3
  <2>4. KcInTime'
    BY <2>1 DEF KcRate, KcInTime, RoundInTime
  <2>5. Recent(<<>>, kcTime) <= Rpm
    <3>1. Bounded(<<>>, <<>>, kcTime) /\ kcTime \in Int
      BY <1>0, BoundedEmpty
    <3>2. Recent(<<>>, kcTime) <= Len(<<>>) /\ Recent(<<>>, kcTime) \in Nat
      BY <3>1, RecentOnRecord
    <3> QED BY <3>2, LimitAssumption
  <2>6. KcPromise
    BY <1>0, <2>1, <2>5 DEF KcPromise
  <2> QED BY <2>2, <2>3, <2>4, <2>6 DEF KcRate, KcBounded
<1>4. ASSUME NEW a \in Rounds,
             \/ TakeTicket(a) \/ LookAtKey(a) \/ DropExpired(a) \/ AskPermit(a) \/ TryPermit(a)
             \/ WakeUp(a) \/ LeaveWait(a) \/ OpenSlot(a) \/ SlotsFull(a) \/ SendFails(a)
             \/ Rejected(a) \/ CoolKey(a) \/ Answered(a) \/ OpenStream(a) \/ ReadFrame(a)
             \/ StreamBreaks(a) \/ CloseAnswer(a) \/ RoundPanics(a)
      PROVE  KcRate' /\ KcPromise
  <2>1. /\ KcRate'
        /\ \A k \in KeySet : /\ kcGiven'[k] # kcGiven[k] => Recent(kcGiven'[k], kcTime) <= Rpm
                             /\ kcTime < kcCooling[k] => kcTime < kcCooling'[k]
    BY <1>4, KcRoundRate
  <2>2. ASSUME NEW k \in KeySet, kcTime < kcCooling'[k]
        PROVE  ~(kcCooling'[k] <= kcTime)
    <3>1. kcCooling'[k] \in Nat
      BY <2>1 DEF KcRate, KcTables
    <3> QED BY <1>0, <2>2, <3>1
  <2> QED BY <2>1, <2>2 DEF KcPromise
<1> QED BY <1>1, <1>2, <1>3, <1>4 DEF KcNext

\* However many rounds use the keys, however late they are, whatever the limits, the cooldowns
\* and the clearings: neither rate limit lets through more than it says, and a cooldown in
\* force is removed by a clearing only (keylimit.go:109, channellimit.go:161, keyselect.go:67).
\* A key chosen before its cooldown began may be used while it cools.
THEOREM LimitsAlwaysHold == Spec => LimitsHold
<1>1. Init => KlRate /\ KcRate
  BY KlRateInit, KcRateInit DEF Init
<1>2. KlInv /\ KcInv /\ KlRate /\ KcRate /\ [Next]_vars => KlRate' /\ KcRate'
  <2> SUFFICES ASSUME KlInv, KcInv, KlRate, KcRate, [Next]_vars
               PROVE  KlRate' /\ KcRate'
    OBVIOUS
  <2>1. UNCHANGED klVars => KlRate'
    BY DEF klVars, KlRate, Bounded, InTime
  <2>2. UNCHANGED kcVars => KcRate'
    BY DEF kcVars, KcRate, KcTables, KcBounded, Bounded, KcInTime, RoundInTime
  <2>3. CASE LimitsStep
    BY <2>2, <2>3, KlRateStep DEF LimitsStep
  <2>4. CASE KeysStep
    BY <2>1, <2>4, KcRateStep DEF KeysStep, KcInv
  <2>5. CASE AccountStep \/ UpdateStep \/ UsageStep \/ UNCHANGED vars
    BY <2>1, <2>2, <2>5 DEF AccountStep, UpdateStep, UsageStep, vars
  <2> QED BY <2>3, <2>4, <2>5 DEF Next
<1>3. KlInv /\ KlRate /\ [Next]_vars =>
         [\A r \in Clients : TakePermit(r) =>
             Recent(klGiven', klTime) <= klClient[r].key.rpm]_klVars
  BY KlPermit DEF KlInv
<1>4. KcInv /\ KcRate /\ [Next]_vars =>
         /\ [\A k \in KeySet : kcGiven'[k] # kcGiven[k] => Recent(kcGiven'[k], kcTime) <= Rpm]_kcVars
         /\ [\A k \in KeySet :
                kcTime < kcCooling[k] /\ kcCooling'[k] <= kcTime => kcWipes' # kcWipes]_kcVars
  <2> SUFFICES ASSUME KcInv, KcRate, [Next]_vars, kcVars' # kcVars
               PROVE  KcPromise
    BY DEF KcPromise
  <2>1. KeysStep
    BY DEF Next, LimitsStep, AccountStep, UpdateStep, UsageStep, vars
  <2> QED BY <2>1, KcRateStep DEF KeysStep, KcInv
<1> QED BY <1>1, <1>2, <1>3, <1>4, KlAlways, KcAlways, PTL
        DEF Spec, LimitsHold, KlRateHolds, KcRateHolds, CooldownsKept

-----------------------------------------------------------------------------
(* The account.                                                            *)

\* Whatever the number of calls, of secrets and of failures: no token that a change of the
\* password or a logout was to revoke is good again, of two changes that knew the same
\* password one is made, cache and table agree outside a change, the file with the first
\* password does not outlive it unless it cannot be removed, and no more logins fail in the
\* window than the limit and those let in together (op/user.go:142, :168, op/authsecret.go:40,
\* handlers/loginratelimit.go:57).
THEOREM AccountAlwaysSafe == Spec => []AccountSafe
<1>1. Init => AcInv /\ FailInv
  BY AcInitSafe, FailInitSafe DEF Init
<1>2. AcInv /\ FailInv /\ [Next]_vars => AcInv' /\ FailInv'
  <2> SUFFICES ASSUME AcInv, FailInv, [Next]_vars
               PROVE  AcInv' /\ FailInv'
    OBVIOUS
  <2>1. CASE AccountStep
    BY <2>1, AcStep, FailStep DEF AccountStep, AcInv
  <2>2. CASE LimitsStep \/ KeysStep \/ UpdateStep \/ UsageStep \/ UNCHANGED vars
    <3>1. UNCHANGED acVars
      BY <2>2 DEF LimitsStep, KeysStep, UpdateStep, UsageStep, vars
    <3>2. UNCHANGED acSeen /\ UNCHANGED <<acTime, acFails, acCall>>
      BY <3>1 DEF acVars, acSeen, acTables, acCaches, acCounts
    <3> QED BY <3>2, AcStutter, FailStutter
  <2> QED BY <2>1, <2>2 DEF Next
<1>3. AcInv /\ FailInv => AccountSafe
  <2> SUFFICES ASSUME AcInv, FailInv
               PROVE  AccountSafe
    OBVIOUS
  <2>1. RevokedStayOut
    BY DEF AcInv, AcTyped, Secrets, RevokedStayOut
  <2>2. OnePerPassword
    BY DEF AcInv, Passwords, OnePerPassword, Is
  <2>3. PasswordsAgree
    BY DEF AcInv, Passwords, PasswordsAgree, UserLocked, Changing
  <2>4. FirstPasswordGone
    BY DEF AcInv, FirstFile, FirstPasswordGone, UserLocked, Changing
  <2>5. FailuresBounded
    <3>1. Failures(acFails) \in Nat
      BY FS_CardinalityType DEF FailInv, Failures
    <3> QED BY <3>1, FlyingFinite DEF FailInv, FailuresBounded
  <2> QED BY <2>1, <2>2, <2>3, <2>4, <2>5 DEF AccountSafe
<1> QED BY <1>1, <1>2, <1>3, PTL DEF Spec

-----------------------------------------------------------------------------
(* The update.                                                             *)
(* A verified version can always be started or put back, and only an       *)
(* unverified one gives way to it, wherever the process ends and however   *)
(* many renames and writes fail.                                           *)

Lives == {"down", "checking", "putback", "starting", "up"}

\* The steps of an update before and after it has moved the installed version away.
Before == {"begun", "downloaded", "checked", "unpacked", "copied", "compared", "dropped"}
After == {"saved", "failed", "installed"}

Proven(file) == file \in suVerified

SuTyped ==
    /\ suLife \in Lives
    /\ suStep \in {"none"} \cup Before \cup After
    /\ suMarker \in Nat
    /\ suTarget \in Nat
    /\ suHasty \in BOOLEAN

\* Installations are numbered: what is or was in use is none of those to come.
FilesKnown ==
    /\ suVerified \subseteq 0 .. suTarget
    /\ NoFile \notin suVerified
    /\ {suExec, suOld} \subseteq {NoFile} \cup 0 .. suTarget

\* At every step of an update a verified version is at one of the two paths.  Before it is
\* moved away it is the one installed, with no marker; then it is the saved one, while the
\* file at .new, which is the target, has never been verified.
UpdateKeeps ==
    /\ suStep # "none" => suLife = "up" /\ ~suClearing /\ suMarker = 0 /\ ~Proven(suTarget)
    /\ suStep \in Before => Proven(suExec)
    /\ suStep \in {"compared", "dropped", "saved"} => suNew = suTarget
    /\ suStep = "copied" => suNew \in {suTarget, Partial}
    /\ suStep \in After => Proven(suOld) /\ ~Proven(suExec)

\* A marker is about an executable that is not verified, but between the roll-back and the
\* removal of the marker: then nothing is left to be put back once more.
MarkerJustified ==
    /\ suClearing => suLife = "up" /\ ~Proven(suExec)
    /\ suMarker > 0 /\ Proven(suExec) =>
          /\ suLife \in {"down", "checking", "putback"}
          /\ suOld = NoFile
          /\ suMarker >= MaxRetries
    /\ suLife = "putback" => Proven(suExec)

\* While nothing hasty was begun, a verified version is there, for these reasons.
Grounded == ~suHasty => VersionKept /\ FilesKnown /\ UpdateKeeps /\ MarkerJustified

SuInv == SuTyped /\ Grounded

-----------------------------------------------------------------------------

\* The first version is installed and verified, and there is no marker.
LEMMA SuInitSafe == SuInit => SuInv
<1> SUFFICES ASSUME SuInit
             PROVE  SuInv
  OBVIOUS
<1>1. SuTyped
  BY DEF SuInit, SuTyped, Lives
<1>2. NoFile # 0
  BY UpdateAssumption DEF Installations
<1>3. FilesKnown
  BY <1>2 DEF SuInit, FilesKnown
<1>4. VersionKept /\ UpdateKeeps /\ MarkerJustified
  BY DEF SuInit, VersionKept, UpdateKeeps, MarkerJustified, Proven, Before, After
<1> QED BY <1>1, <1>3, <1>4 DEF SuInv, Grounded

\* An update begins: unless it is hasty, the installed version is verified, no marker is left,
\* and the target is a new number.
LEMMA BeginSafe ==
  ASSUME SuInv, BeginUpdate
  PROVE  SuInv'
<1>1. SuTyped'
  BY DEF SuInv, SuTyped, BeginUpdate, suFiles, Before, Lives
<1>2. ASSUME ~suHasty'
      PROVE  (VersionKept /\ FilesKnown /\ UpdateKeeps /\ MarkerJustified)'
  <2>1. /\ ~suHasty /\ Proven(suExec)
        /\ UNCHANGED <<suExec, suOld, suMarker, suLife, suClearing, suVerified>>
        /\ suLife = "up" /\ suStep' = "begun" /\ suTarget' = suTarget + 1
    BY <1>2 DEF BeginUpdate, Proven, suFiles
  <2>2. FilesKnown /\ MarkerJustified /\ suMarker \in Nat /\ suTarget \in Nat
    BY <2>1 DEF SuInv, Grounded, SuTyped
  <2>3. FilesKnown' /\ suTarget' \notin suVerified
    BY <2>1, <2>2 DEF FilesKnown
  <2>4. suMarker = 0 /\ ~suClearing
    BY <2>1, <2>2 DEF MarkerJustified
  <2> QED BY <2>1, <2>3, <2>4 DEF VersionKept, UpdateKeeps, MarkerJustified, Proven, Before, After
<1> QED BY <1>1, <1>2 DEF SuInv, Grounded

\* Up to the removal of the old copy the installed version stays where it is.
LEMMA PrepareSafe ==
  ASSUME SuInv, Download \/ CheckArchive \/ Unpack \/ CopyNew \/ CompareNew \/ DropOld
  PROVE  SuInv'
<1>1. /\ suStep \in Before /\ suStep' \in {"none"} \cup Before
      /\ UNCHANGED <<suExec, suMarker, suLife, suClearing, suTarget, suVerified, suHasty>>
      /\ suOld' \in {suOld, NoFile}
  BY DEF Download, CheckArchive, Unpack, CopyNew, CompareNew, DropOld, UpdateGoes, suFiles,
         Before, suHistory
<1>2. SuTyped'
  BY <1>1 DEF SuInv, SuTyped
<1>3. ASSUME ~suHasty
      PROVE  (VersionKept /\ FilesKnown /\ UpdateKeeps /\ MarkerJustified)'
  <2>1. FilesKnown /\ UpdateKeeps
    BY <1>3 DEF SuInv, Grounded
  <2>2. /\ suStep' \in {"compared", "dropped", "saved"} => suNew' = suTarget'
        /\ suStep' = "copied" => suNew' \in {suTarget', Partial}
    BY <2>1 DEF UpdateKeeps, Download, CheckArchive, Unpack, CopyNew, CompareNew, DropOld,
                UpdateGoes, suFiles, Before
  <2>3. Proven(suExec) /\ suLife = "up" /\ ~suClearing /\ suMarker = 0
        /\ ~Proven(suTarget) /\ suStep' \notin After
    BY <1>1, <2>1 DEF UpdateKeeps, Before, After
  <2>4. FilesKnown'
    BY <1>1, <2>1 DEF FilesKnown
  <2> QED BY <1>1, <2>2, <2>3, <2>4 DEF VersionKept, UpdateKeeps, MarkerJustified, Proven
<1> QED BY <1>1, <1>2, <1>3 DEF SuInv, Grounded

\* From then on it is the saved copy that is verified, until it is back in its place.
LEMMA ReplaceSafe ==
  ASSUME SuInv, SaveOld \/ Install \/ UndoSave \/ MarkPending
  PROVE  SuInv'
<1>1. UNCHANGED <<suLife, suClearing, suTarget, suVerified, suHasty>>
  BY DEF SaveOld, Install, UndoSave, MarkPending, suHistory
<1>2. suStep' \in {"none"} \cup After /\ suMarker' \in {suMarker, 1}
  BY DEF SaveOld, Install, UndoSave, MarkPending, After
<1>3. SuTyped'
  BY <1>1, <1>2 DEF SuInv, SuTyped
<1>4. ASSUME ~suHasty
      PROVE  (VersionKept /\ FilesKnown /\ UpdateKeeps /\ MarkerJustified)'
  <2>0. VersionKept /\ FilesKnown /\ UpdateKeeps /\ MarkerJustified /\ suTarget \in Nat
    BY <1>4 DEF SuInv, Grounded, SuTyped
  <2>1. NoFile \notin suVerified
    BY <2>0 DEF FilesKnown
  <2>2. FilesKnown'
    <3>1. {suExec', suOld'} \subseteq {suExec, suOld, NoFile, suTarget}
      BY <2>0 DEF SaveOld, Install, UndoSave, MarkPending, UpdateKeeps, After
    <3> QED BY <1>1, <2>0, <3>1 DEF FilesKnown
  <2> USE DEF VersionKept, UpdateKeeps, MarkerJustified, Proven, Before, After
  <2>3. CASE SaveOld
    BY <1>1, <1>4, <2>0, <2>1, <2>2, <2>3 DEF SaveOld
  <2>4. CASE Install
    BY <1>1, <1>4, <2>0, <2>1, <2>2, <2>4 DEF Install
  <2>5. CASE UndoSave
    BY <1>1, <1>4, <2>0, <2>1, <2>2, <2>5 DEF UndoSave
  <2>6. CASE MarkPending
    BY <1>1, <1>4, <2>0, <2>1, <2>2, <2>6 DEF MarkPending
  <2> QED BY <2>3, <2>4, <2>5, <2>6
<1> QED BY <1>1, <1>3, <1>4 DEF SuInv, Grounded

\* A process that ends leaves its files as they are.
LEMMA EndSafe ==
  ASSUME SuInv, Restart \/ ProcessDies
  PROVE  SuInv'
<1>1. /\ suLife' = "down" /\ suStep' = "none" /\ ~suClearing'
      /\ UNCHANGED <<suExec, suOld, suMarker, suTarget, suVerified, suHasty>>
  BY DEF Restart, ProcessDies, Stopped, suFiles, suHistory
<1>2. SuTyped'
  BY <1>1 DEF SuInv, SuTyped, Lives
<1>3. ASSUME ~suHasty
      PROVE  (VersionKept /\ FilesKnown /\ UpdateKeeps /\ MarkerJustified)'
  <2>1. VersionKept /\ FilesKnown /\ UpdateKeeps /\ MarkerJustified
    BY <1>3 DEF SuInv, Grounded
  <2>2. suMarker > 0 /\ Proven(suExec) => suOld = NoFile /\ suMarker >= MaxRetries
    BY <2>1 DEF MarkerJustified
  <2> QED BY <1>1, <2>1, <2>2 DEF VersionKept, FilesKnown, UpdateKeeps, MarkerJustified, Proven,
                                  Before, After
<1> QED BY <1>1, <1>2, <1>3 DEF SuInv, Grounded

\* A start counts the marker, or puts a version back that takes the place of an unverified one.
LEMMA StartSafe ==
  ASSUME SuInv, StartProcess \/ CheckPasses \/ RollBack \/ ExecuteOld \/ RollBackFails
                \/ ServerListens
  PROVE  SuInv'
<1>1. UNCHANGED <<suStep, suTarget, suVerified, suHasty>>
  BY DEF StartProcess, CheckPasses, RollBack, ExecuteOld, RollBackFails, ServerListens,
         suUpdate, suHistory
<1>2. suLife \in Lives \ {"up"} /\ suLife' \in Lives
  BY DEF StartProcess, CheckPasses, RollBack, ExecuteOld, RollBackFails, ServerListens, Lives
<1>3. suMarker \in Nat /\ suMarker' \in {suMarker, 0, suMarker + 1}
  BY DEF SuInv, SuTyped, StartProcess, CheckPasses, RollBack, ExecuteOld, RollBackFails,
         ServerListens, suFiles
<1>4. SuTyped'
  BY <1>1, <1>2, <1>3 DEF SuInv, SuTyped
<1>5. ASSUME ~suHasty
      PROVE  (VersionKept /\ FilesKnown /\ UpdateKeeps /\ MarkerJustified)'
  <2>0. VersionKept /\ FilesKnown /\ UpdateKeeps /\ MarkerJustified
    BY <1>5 DEF SuInv, Grounded
  <2>1. suStep = "none" /\ suStep' = "none"
    BY <1>1, <1>2, <2>0 DEF UpdateKeeps
  <2>2. UpdateKeeps'
    BY <2>1 DEF UpdateKeeps, Before, After
  <2>3. FilesKnown'
    <3>1. {suExec', suOld'} \subseteq {suExec, suOld, NoFile}
      BY DEF StartProcess, CheckPasses, RollBack, ExecuteOld, RollBackFails, ServerListens, suFiles
    <3> QED BY <1>1, <2>0, <3>1 DEF FilesKnown
  <2>4. NoFile \notin suVerified /\ MaxRetries \in Nat \ {0}
    BY <2>0, UpdateAssumption DEF FilesKnown
  <2> USE DEF VersionKept, MarkerJustified, Proven
  <2>5. CASE StartProcess
    BY <1>1, <1>5, <2>0, <2>2, <2>3, <2>5 DEF StartProcess, suFiles
  <2>6. CASE CheckPasses
    BY <1>1, <1>3, <1>5, <2>0, <2>2, <2>3, <2>4, <2>6 DEF CheckPasses
  <2>7. CASE RollBack
    BY <1>1, <1>3, <1>5, <2>0, <2>2, <2>3, <2>4, <2>7 DEF RollBack
  <2>8. CASE ExecuteOld
    BY <1>1, <1>5, <2>0, <2>2, <2>3, <2>8 DEF ExecuteOld
  <2>9. CASE RollBackFails
    BY <1>1, <1>5, <2>0, <2>2, <2>3, <2>9 DEF RollBackFails
  <2>10. CASE ServerListens
    BY <1>1, <1>5, <2>0, <2>2, <2>3, <2>10 DEF ServerListens, suFiles
  <2> QED BY <2>5, <2>6, <2>7, <2>8, <2>9, <2>10
<1> QED BY <1>1, <1>4, <1>5 DEF SuInv, Grounded

\* The marker goes when the installed version has proved itself.
LEMMA ClearSafe ==
  ASSUME SuInv, ClearMarker
  PROVE  SuInv'
<1>1. /\ suMarker' = 0 /\ ~suClearing'
      /\ UNCHANGED <<suExec, suOld, suNew, suLife, suStep, suTarget, suHasty>>
      /\ suVerified' \in {suVerified, suVerified \cup ({suExec} \ {NoFile})}
  BY DEF ClearMarker, suUpdate
<1>2. SuTyped'
  BY <1>1 DEF SuInv, SuTyped
<1>3. ASSUME ~suHasty
      PROVE  (VersionKept /\ FilesKnown /\ UpdateKeeps /\ MarkerJustified)'
  <2>1. VersionKept /\ FilesKnown /\ UpdateKeeps /\ MarkerJustified
    BY <1>3 DEF SuInv, Grounded
  <2>2. suLife = "up" /\ suStep = "none"
    BY <2>1 DEF MarkerJustified, UpdateKeeps, ClearMarker
  <2>3. FilesKnown'
    BY <1>1, <2>1 DEF FilesKnown
  <2> QED BY <1>1, <1>3, <2>1, <2>2, <2>3
          DEF VersionKept, UpdateKeeps, MarkerJustified, Proven, Before, After
<1> QED BY <1>1, <1>2, <1>3 DEF SuInv, Grounded

\* Every step of the update, of the ends and of the starts keeps the invariant.
LEMMA SuStep == SuInv /\ SuNext => SuInv'
  BY BeginSafe, PrepareSafe, ReplaceSafe, EndSafe, StartSafe, ClearSafe DEF SuNext

\* What leaves the update alone keeps it too.
LEMMA SuStutter == SuInv /\ UNCHANGED suVars => SuInv'
  BY DEF SuInv, Grounded, SuTyped, VersionKept, FilesKnown, UpdateKeeps, MarkerJustified, Proven,
         suVars, suFiles, suUpdate, suHistory

\* A version is put back in the place of one that was never verified: the marker of a
\* verified one is only there when nothing is left to be put back.
LEMMA RollBackSafe == SuInv /\ RollBack /\ ~suHasty => suExec \notin suVerified
  BY UpdateAssumption DEF SuInv, Grounded, SuTyped, MarkerJustified, Proven, RollBack

\* However many updates, ends of the process and failing renames: while no update is begun on
\* a version that is not verified yet, a verified one can be started or put back, and only an
\* unverified one gives way to it (update/core.go:163, :246).
THEOREM UpdateAlwaysSafe == Spec => UpdateSafe
<1>1. Init => SuInv
  BY SuInitSafe DEF Init
<1>2. SuInv /\ [Next]_vars => SuInv'
  <2> SUFFICES ASSUME SuInv, [Next]_vars
               PROVE  SuInv'
    OBVIOUS
  <2>1. CASE UpdateStep
    BY <2>1, SuStep DEF UpdateStep
  <2>2. CASE LimitsStep \/ KeysStep \/ AccountStep \/ UsageStep \/ UNCHANGED vars
    <3>1. UNCHANGED suVars
      BY <2>2 DEF LimitsStep, KeysStep, AccountStep, UsageStep, vars
    <3> QED BY <3>1, SuStutter
  <2> QED BY <2>1, <2>2 DEF Next
<1>3. SuInv => VersionKept
  BY DEF SuInv, Grounded, VersionKept
<1>4. SuInv /\ [Next]_vars => [RollBack /\ ~suHasty => suExec \notin suVerified]_suVars
  BY RollBackSafe
<1> QED BY <1>1, <1>2, <1>3, <1>4, PTL DEF Spec, UpdateSafe, RollBackJustified
=============================================================================
