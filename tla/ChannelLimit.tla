---------------------------- MODULE ChannelLimit ----------------------------
(***************************************************************************)
(* The concurrency limit of one upstream channel                           *)
(* (internal/relay/channellimit.go): a counter object with a wake          *)
(* generation, found through a table, the limit being whatever the         *)
(* channel's configuration said when the attempt began.  Attempts look     *)
(* the object up, try, wait for a release and try again, hold a slot, and  *)
(* give it back; the administrator changes the limit and clears the        *)
(* channel's state in between.                                             *)
(*                                                                         *)
(* An object is a member of Objects.  One that neither the table nor an    *)
(* attempt refers to is garbage and stands for the next one allocated: the *)
(* attempt that allocates has none, so as many objects as there are        *)
(* attempts are always enough.                                             *)
(***************************************************************************)
EXTENDS Integers, FiniteSets

CONSTANTS
    Attempts,   \* upstream attempts on the channel, each made over and over
    Objects,    \* channelConcurrencyState objects
    NoObject,   \* no entry in the table, or an attempt without an object
    Limits,     \* the values of Channel.MaxConcurrent
    AdminLimit, \* whether the limit may change
    AdminClear  \* whether the state of the live channel may be cleared

ASSUME ObjectsAssumption ==
    /\ IsFiniteSet(Attempts)
    /\ IsFiniteSet(Objects)
    /\ NoObject \notin Objects
ASSUME LimitsAssumption ==
    /\ Limits \subseteq Int /\ Limits # {}
    /\ AdminLimit \in BOOLEAN
    /\ AdminClear \in BOOLEAN

VARIABLES
    maxConcurrent, \* Channel.MaxConcurrent
    table,         \* channelConcurrencyStates[channelID]
    active,        \* st.active
    pc,            \* where an attempt is
    limit,         \* the limit it was called with
    object,        \* the object it found
    woken          \* the wake channel it recorded has been closed

vars == <<maxConcurrent, table, active, pc, limit, object, woken>>

Places == {"idle", "lookup", "try", "waiting", "holding", "unlimited"}

TypeOK ==
    /\ maxConcurrent \in Limits
    /\ table \in Objects \cup {NoObject}
    /\ active \in [Objects -> Nat]
    /\ pc \in [Attempts -> Places]
    /\ limit \in [Attempts -> Limits]
    /\ object \in [Attempts -> Objects \cup {NoObject}]
    /\ woken \in [Attempts -> BOOLEAN]
    /\ \A a \in Attempts :
          pc[a] \in {"try", "waiting", "holding"} => object[a] # NoObject

Init ==
    /\ maxConcurrent \in Limits
    /\ table = NoObject
    /\ active = [o \in Objects |-> 0]
    /\ pc = [a \in Attempts |-> "idle"]
    /\ limit = [a \in Attempts |-> maxConcurrent]
    /\ object = [a \in Attempts |-> NoObject]
    /\ woken = [a \in Attempts |-> FALSE]

Users(o) == {a \in Attempts : object[a] = o}
Holders(o) == {a \in Attempts : pc[a] = "holding" /\ object[a] = o}

Goto(a, place) == pc' = [pc EXCEPT ![a] = place]

-----------------------------------------------------------------------------
(* The attempt reads the channel's configuration; a limit that is not      *)
(* positive is no limit and takes no slot.                                 *)
Begin(a) ==
    /\ pc[a] = "idle"
    /\ limit' = [limit EXCEPT ![a] = maxConcurrent]
    /\ Goto(a, IF maxConcurrent <= 0 THEN "unlimited" ELSE "lookup")
    /\ UNCHANGED <<maxConcurrent, table, active, object, woken>>

Find(a, o) ==
    /\ object' = [object EXCEPT ![a] = o]
    /\ Goto(a, "try")
    /\ UNCHANGED <<maxConcurrent, limit, woken>>

LookUp(a) ==
    /\ pc[a] = "lookup"
    /\ \/ /\ table # NoObject
          /\ Find(a, table)
          /\ UNCHANGED <<table, active>>
       \/ /\ table = NoObject
          /\ \E o \in Objects :
                /\ Users(o) = {}
                /\ table' = o
                /\ active' = [active EXCEPT ![o] = 0]
                /\ Find(a, o)

\* Mutated: off by one.
AdmitOneMore(a) ==
    /\ pc[a] = "try"
    /\ active[object[a]] <= limit[a]
    /\ active' = [active EXCEPT ![object[a]] = @ + 1]
    /\ Goto(a, "holding")
    /\ UNCHANGED <<maxConcurrent, table, limit, object, woken>>

Admit(a) ==
    /\ pc[a] = "try"
    /\ active[object[a]] < limit[a]
    /\ active' = [active EXCEPT ![object[a]] = @ + 1]
    /\ Goto(a, "holding")
    /\ UNCHANGED <<maxConcurrent, table, limit, object, woken>>

\* The slots are taken: the current wake generation is noted down.
Block(a) ==
    /\ pc[a] = "try"
    /\ active[object[a]] >= limit[a]
    /\ woken' = [woken EXCEPT ![a] = FALSE]
    /\ Goto(a, "waiting")
    /\ UNCHANGED <<maxConcurrent, table, active, limit, object>>

Retry(a) ==
    /\ pc[a] = "waiting"
    /\ woken[a]
    /\ Goto(a, "try")
    /\ UNCHANGED <<maxConcurrent, table, active, limit, object, woken>>

Leave(a) ==
    /\ Goto(a, "idle")
    /\ object' = [object EXCEPT ![a] = NoObject]
    /\ UNCHANGED <<maxConcurrent, table, limit>>

\* The second is over, or the context ended.
TimeOut(a) ==
    /\ pc[a] = "waiting"
    /\ Leave(a)
    /\ UNCHANGED <<active, woken>>

\* Mutated: only the waiters of the object in the table are woken.
ReleaseWakesTable(a) ==
    /\ pc[a] = "holding"
    /\ active' = [active EXCEPT ![object[a]] = IF @ > 0 THEN @ - 1 ELSE @]
    /\ woken' = [b \in Attempts |->
                    woken[b] \/ (pc[b] = "waiting" /\ object[a] = table
                                   /\ object[b] = table)]
    /\ Leave(a)

\* The idempotent closure gives the slot back and wakes all who wait.
Release(a) ==
    /\ pc[a] = "holding"
    /\ active' = [active EXCEPT ![object[a]] = IF @ > 0 THEN @ - 1 ELSE @]
    /\ woken' = [b \in Attempts |->
                    woken[b] \/ (pc[b] = "waiting" /\ object[b] = object[a])]
    /\ Leave(a)

EndUnlimited(a) ==
    /\ pc[a] = "unlimited"
    /\ Leave(a)
    /\ UNCHANGED <<active, woken>>

-----------------------------------------------------------------------------
ChangeLimit ==
    /\ AdminLimit
    /\ \E n \in Limits \ {maxConcurrent} : maxConcurrent' = n
    /\ UNCHANGED <<table, active, pc, limit, object, woken>>

\* Mutated: the counter is cleared in place.
CleanupInPlace ==
    /\ AdminClear
    /\ table # NoObject
    /\ active' = [active EXCEPT ![table] = 0]
    /\ UNCHANGED <<maxConcurrent, table, pc, limit, object, woken>>

\* cleanupChannelLimits drops the entry; the holders keep the object.
Cleanup ==
    /\ AdminClear
    /\ table # NoObject
    /\ table' = NoObject
    /\ UNCHANGED <<maxConcurrent, active, pc, limit, object, woken>>

Acquire(a) == LookUp(a) \/ Admit(a) \/ Block(a) \/ Retry(a)

Attempt(a) ==
    \/ Begin(a) \/ Acquire(a) \/ TimeOut(a) \/ Release(a) \/ EndUnlimited(a)

Next == (\E a \in Attempts : Attempt(a)) \/ ChangeLimit \/ Cleanup

Spec == Init /\ [][Next]_vars

\* A goroutine that can run does; a response is closed in the end.
Fairness == \A a \in Attempts : WF_vars(Acquire(a)) /\ WF_vars(Release(a))

FairSpec == Spec /\ Fairness

-----------------------------------------------------------------------------
(* Safety.                                                                 *)

\* No slot is lost or counted twice, whatever happens to the limit and to the
\* table: an object counts exactly the attempts that hold one of its slots.
SlotsAccounted == \A o \in Objects : active[o] = Cardinality(Holders(o))

\* No wakeup is lost: an attempt that sleeps on a wake channel nobody has
\* closed sleeps for a reason, its limit is still reached.
NoLostWakeup ==
    \A a \in Attempts :
        pc[a] = "waiting" /\ ~woken[a] => active[object[a]] >= limit[a]

\* Attempts that find the same object never hold more slots of it than the
\* limit the last one admitted was called with.
AdmissionBounded ==
    [][\A a \in Attempts :
        pc[a] = "try" /\ pc'[a] = "holding" =>
            Cardinality(Holders(object[a])') <= limit[a]]_vars

(***************************************************************************)
(* The abstract pool of slots, an object being a pool.                     *)
(***************************************************************************)
held == [o \in Objects |-> Holders(o)]

Pool == INSTANCE SlotPool
            WITH Takers <- Attempts, Pools <- Objects, Asked <- Limits, asked <- limit

\* The objects, their counters and the table are an implementation of pools of slots: an
\* attempt holds a slot of one object at most, takes it below its own limit, keeps it when
\* the table forgets the object and gives it back once (channellimit.go:60).
ImplementsPool == Pool!Spec

-----------------------------------------------------------------------------
(* Liveness.                                                               *)

\* An object that was dropped from the table still serves those who found it:
\* every waiter is woken, admitted and gone, with no help of the timeout.
DroppedDrained == \A o \in Objects : table # o ~> Users(o) = {}
=============================================================================
