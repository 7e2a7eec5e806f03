------------------------- MODULE ChannelLimit_proofs -------------------------
(***************************************************************************)
(* The counter of a channel is exact and no wakeup is lost, for any number *)
(* of attempts, any limits and any changes the administrator makes.        *)
(***************************************************************************)
EXTENDS ChannelLimit, FiniteSetTheorems, TLAPS

\* The initial states are well typed.
LEMMA InitType == Init => TypeOK
  BY LimitsAssumption, ObjectsAssumption DEF Init, TypeOK, Places

\* Every step keeps the type.
LEMMA NextType == TypeOK /\ [Next]_vars => TypeOK'
<1> SUFFICES ASSUME TypeOK, [Next]_vars
             PROVE  TypeOK'
  OBVIOUS
<1> USE DEF TypeOK, Places, Goto
<1>1. ASSUME NEW a \in Attempts, Begin(a)
      PROVE  TypeOK'
  BY <1>1 DEF Begin
<1>2. ASSUME NEW a \in Attempts, LookUp(a)
      PROVE  TypeOK'
  BY <1>2, ObjectsAssumption DEF LookUp, Find
<1>3. ASSUME NEW a \in Attempts, Admit(a)
      PROVE  TypeOK'
  BY <1>3 DEF Admit
<1>4. ASSUME NEW a \in Attempts, Block(a) \/ Retry(a)
      PROVE  TypeOK'
  BY <1>4 DEF Block, Retry
<1>5. ASSUME NEW a \in Attempts, TimeOut(a) \/ EndUnlimited(a)
      PROVE  TypeOK'
  BY <1>5 DEF TimeOut, EndUnlimited, Leave
<1>6. ASSUME NEW a \in Attempts, Release(a)
      PROVE  TypeOK'
  BY <1>6 DEF Release, Leave
<1>7. CASE ChangeLimit
  BY <1>7 DEF ChangeLimit
<1>8. CASE Cleanup
  BY <1>8 DEF Cleanup
<1>9. CASE UNCHANGED vars
  BY <1>9 DEF vars
<1> QED
  BY <1>1, <1>2, <1>3, <1>4, <1>5, <1>6, <1>7, <1>8, <1>9
  DEF Next, Attempt, Acquire

\* Every variable keeps its type, and an attempt that tries, waits or holds
\* has an object to do it on.
THEOREM TypeCorrect == Spec => []TypeOK
<1> QED BY InitType, NextType, PTL DEF Spec

-----------------------------------------------------------------------------
\* No step leaves a waiter asleep without a reason.
LEMMA WakeupStep == TypeOK /\ NoLostWakeup /\ [Next]_vars => NoLostWakeup'
<1> SUFFICES ASSUME TypeOK, NoLostWakeup, [Next]_vars,
                    NEW b \in Attempts, pc'[b] = "waiting", ~woken'[b]
             PROVE  active'[object'[b]] >= limit'[b]
  BY DEF NoLostWakeup
<1> USE DEF TypeOK, Places, Goto, NoLostWakeup
<1>1. ASSUME NEW a \in Attempts, Begin(a)
      PROVE  active'[object'[b]] >= limit'[b]
  BY <1>1 DEF Begin
<1>2. ASSUME NEW a \in Attempts, LookUp(a)
      PROVE  active'[object'[b]] >= limit'[b]
  BY <1>2 DEF LookUp, Find, Users
<1>3. ASSUME NEW a \in Attempts, Admit(a)
      PROVE  active'[object'[b]] >= limit'[b]
  <2>1. pc[b] = "waiting" /\ ~woken[b] /\ b # a
    BY <1>3 DEF Admit
  <2>2. active[object[b]] \in Nat /\ limit[b] \in Int /\ object[b] \in Objects
    BY <2>1, LimitsAssumption
  <2>3. active'[object[b]] \in {active[object[b]], active[object[b]] + 1}
    BY <1>3, <2>2 DEF Admit
  <2>4. active[object[b]] >= limit[b]
    BY <2>1
  <2> QED BY <1>3, <2>2, <2>3, <2>4 DEF Admit
<1>4. ASSUME NEW a \in Attempts, Block(a) \/ Retry(a)
      PROVE  active'[object'[b]] >= limit'[b]
  BY <1>4 DEF Block, Retry
<1>5. ASSUME NEW a \in Attempts, TimeOut(a) \/ EndUnlimited(a)
      PROVE  active'[object'[b]] >= limit'[b]
  BY <1>5 DEF TimeOut, EndUnlimited, Leave
<1>6. ASSUME NEW a \in Attempts, Release(a)
      PROVE  active'[object'[b]] >= limit'[b]
  BY <1>6 DEF Release, Leave
<1>7. CASE ChangeLimit \/ Cleanup \/ UNCHANGED vars
  BY <1>7 DEF ChangeLimit, Cleanup, vars
<1> QED
  BY <1>1, <1>2, <1>3, <1>4, <1>5, <1>6, <1>7 DEF Next, Attempt, Acquire

\* An attempt asleep on a wake channel nobody has closed is asleep because
\* its limit is reached: a release never passes it by.
THEOREM WakeupNeverLost == Spec => []NoLostWakeup
<1>1. Init => NoLostWakeup
  BY DEF Init, NoLostWakeup
<1> QED BY <1>1, WakeupStep, TypeCorrect, PTL DEF Spec

-----------------------------------------------------------------------------
\* An object has finitely many holders.
LEMMA HoldersFinite == \A o : IsFiniteSet(Holders(o))
<1> TAKE o
<1>1. Holders(o) \subseteq Attempts
  BY DEF Holders
<1> QED BY <1>1, ObjectsAssumption, FS_Subset

\* Every step keeps the counters equal to the numbers of holders.
LEMMA SlotStep == TypeOK /\ SlotsAccounted /\ [Next]_vars => SlotsAccounted'
<1> SUFFICES ASSUME TypeOK, SlotsAccounted, [Next]_vars, NEW o \in Objects
             PROVE  active'[o] = Cardinality(Holders(o)')
  BY DEF SlotsAccounted
<1>0. active[o] = Cardinality(Holders(o)) /\ active[o] \in Nat
  BY DEF SlotsAccounted, TypeOK
<1>1. ASSUME Holders(o)' = Holders(o), active'[o] = active[o]
      PROVE  active'[o] = Cardinality(Holders(o)')
  BY <1>0, <1>1
<1>2. ASSUME NEW a \in Attempts, Begin(a)
      PROVE  active'[o] = Cardinality(Holders(o)')
  BY <1>1, <1>2 DEF Begin, Goto, Holders, TypeOK
<1>3. ASSUME NEW a \in Attempts, LookUp(a)
      PROVE  active'[o] = Cardinality(Holders(o)')
  <2>1. Holders(o)' = Holders(o)
    BY <1>3 DEF LookUp, Find, Goto, Holders, TypeOK
  <2>2. CASE active'[o] = active[o]
    BY <1>1, <2>1, <2>2
  <2>3. CASE active'[o] # active[o]
    <3>1. Users(o) = {} /\ active'[o] = 0
      BY <1>3, <2>3 DEF LookUp, Find, TypeOK
    <3>2. Holders(o) = {}
      BY <3>1 DEF Users, Holders
    <3> QED BY <2>1, <3>1, <3>2, FS_EmptySet
  <2> QED BY <2>2, <2>3
<1>4. ASSUME NEW a \in Attempts, Admit(a)
      PROVE  active'[o] = Cardinality(Holders(o)')
  <2>1. CASE object[a] # o
    BY <1>1, <1>4, <2>1 DEF Admit, Goto, Holders, TypeOK
  <2>2. CASE object[a] = o
    <3>1. Holders(o)' = Holders(o) \cup {a} /\ a \notin Holders(o)
      BY <1>4, <2>2 DEF Admit, Goto, Holders, TypeOK
    <3>2. Cardinality(Holders(o)') = Cardinality(Holders(o)) + 1
      BY <3>1, HoldersFinite, FS_AddElement
    <3>3. active'[o] = active[o] + 1
      BY <1>4, <2>2 DEF Admit, TypeOK
    <3> QED BY <1>0, <3>2, <3>3
  <2> QED BY <2>1, <2>2
<1>5. ASSUME NEW a \in Attempts, Block(a) \/ Retry(a) \/ TimeOut(a) \/ EndUnlimited(a)
      PROVE  active'[o] = Cardinality(Holders(o)')
  BY <1>1, <1>5, ObjectsAssumption
  DEF Block, Retry, TimeOut, EndUnlimited, Leave, Goto, Holders, TypeOK
<1>6. ASSUME NEW a \in Attempts, Release(a)
      PROVE  active'[o] = Cardinality(Holders(o)')
  <2>1. CASE object[a] # o
    BY <1>1, <1>6, <2>1, ObjectsAssumption DEF Release, Leave, Goto, Holders, TypeOK
  <2>2. CASE object[a] = o
    <3>1. Holders(o)' = Holders(o) \ {a} /\ a \in Holders(o)
      BY <1>6, <2>2, ObjectsAssumption DEF Release, Leave, Goto, Holders, TypeOK
    <3>2. Cardinality(Holders(o)') = Cardinality(Holders(o)) - 1
      BY <3>1, HoldersFinite, FS_RemoveElement
    <3>3. Cardinality(Holders(o)) # 0
      BY <3>1, HoldersFinite, FS_EmptySet
    <3>4. active'[o] = active[o] - 1
      BY <1>0, <1>6, <2>2, <3>3 DEF Release, TypeOK
    <3> QED BY <1>0, <3>2, <3>4
  <2> QED BY <2>1, <2>2
<1>7. CASE ChangeLimit \/ Cleanup \/ UNCHANGED vars
  BY <1>1, <1>7 DEF ChangeLimit, Cleanup, vars, Holders
<1> QED
  BY <1>2, <1>3, <1>4, <1>5, <1>6, <1>7 DEF Next, Attempt, Acquire

\* active is exactly the number of attempts that hold a slot of the object,
\* through every change of the limit and every clearing of the table.
THEOREM SlotsAlwaysAccounted == Spec => []SlotsAccounted
<1>1. Init => SlotsAccounted
  BY FS_EmptySet DEF Init, SlotsAccounted, Holders
<1> QED BY <1>1, SlotStep, TypeCorrect, PTL DEF Spec

-----------------------------------------------------------------------------
\* An admission takes a slot below the limit it was called with.
LEMMA AdmissionStep ==
  ASSUME TypeOK, SlotsAccounted, SlotsAccounted', [Next]_vars,
         NEW a \in Attempts, pc[a] = "try", pc'[a] = "holding"
  PROVE  Cardinality(Holders(object[a])') <= limit[a]
<1>1. Admit(a)
  BY DEF Next, Attempt, Acquire, Begin, LookUp, Find, Admit, Block, Retry,
     TimeOut, Release, EndUnlimited, Leave, Goto, ChangeLimit, Cleanup, vars, TypeOK
<1>2. object[a] \in Objects /\ active[object[a]] \in Nat /\ limit[a] \in Int
  BY LimitsAssumption DEF TypeOK
<1>3. active'[object[a]] = active[object[a]] + 1
  BY <1>1, <1>2 DEF Admit, TypeOK
<1>4. \A o \in Objects : active'[o] = Cardinality(Holders(o)')
  BY DEF SlotsAccounted
<1>5. PICK o \in Objects : o = object[a]
  BY <1>2
<1>6. Holders(object[a])' = Holders(o)'
  BY <1>1, <1>5 DEF Admit, Holders
<1>7. active'[o] = Cardinality(Holders(object[a])')
  BY <1>4, <1>6
<1> QED BY <1>1, <1>2, <1>3, <1>5, <1>7 DEF Admit

\* An admission never leaves more attempts with a slot of the object than the
\* limit the admitted one was called with.
THEOREM AdmissionAlwaysBounded == Spec => AdmissionBounded
<1>1. TypeOK /\ SlotsAccounted /\ SlotsAccounted' /\ [Next]_vars =>
        [\A a \in Attempts :
            pc[a] = "try" /\ pc'[a] = "holding" =>
                Cardinality(Holders(object[a])') <= limit[a]]_vars
  BY AdmissionStep
<1> QED BY <1>1, SlotsAlwaysAccounted, TypeCorrect, PTL DEF Spec, AdmissionBounded

-----------------------------------------------------------------------------
\* The initial states have no holders.
LEMMA PoolInit == Init => Pool!Init
  BY DEF Init, Pool!Init, held, Holders

\* Who holds a slot in the abstract pool holds it.
LEMMA PoolHolding ==
  ASSUME TypeOK, NEW a \in Attempts
  PROVE  Pool!Holding(a) <=> pc[a] = "holding"
  BY DEF TypeOK, Pool!Holding, held, Holders

\* The abstract pool counts as this module does.
LEMMA PoolCounts == \A S : Pool!Cardinality(S) = Cardinality(S)
  BY DEF Pool!Cardinality, Cardinality

\* Every step takes a slot, gives one back, asks, or changes nothing the abstract pool knows.
LEMMA PoolStep ==
  TypeOK /\ SlotsAccounted /\ [Next]_vars => [Pool!Next]_<<held, limit>>
<1> SUFFICES ASSUME TypeOK, SlotsAccounted, [Next]_vars
             PROVE  [Pool!Next]_<<held, limit>>
  OBVIOUS
<1>1. ASSUME NEW a \in Attempts, Begin(a)
      PROVE  [Pool!Next]_<<held, limit>>
  <2>1. ~Pool!Holding(a)
    BY <1>1, PoolHolding DEF Begin
  <2>2. held' = held
    BY <1>1 DEF Begin, Goto, held, Holders, TypeOK
  <2>3. limit' = [limit EXCEPT ![a] = maxConcurrent] /\ maxConcurrent \in Limits
    BY <1>1 DEF Begin, TypeOK
  <2>4. Pool!Ask(a, maxConcurrent)
    BY <2>1, <2>2, <2>3 DEF Pool!Ask
  <2> QED BY <2>3, <2>4 DEF Pool!Next
<1>2. ASSUME NEW a \in Attempts, Admit(a)
      PROVE  [Pool!Next]_<<held, limit>>
  <2>1. PICK o \in Objects : o = object[a]
    BY <1>2 DEF Admit, TypeOK
  <2>2. ~Pool!Holding(a)
    BY <1>2, PoolHolding DEF Admit
  <2>3. Pool!Cardinality(held[o]) < limit[a]
    BY <1>2, <2>1, PoolCounts DEF Admit, SlotsAccounted, held
  <2>4. held' = [held EXCEPT ![o] = @ \cup {a}]
    <3>1. ASSUME NEW p \in Objects
          PROVE  Holders(p)' = IF p = o THEN Holders(p) \cup {a} ELSE Holders(p)
      BY <1>2, <2>1 DEF Admit, Goto, Holders, TypeOK
    <3> QED BY <3>1 DEF held
  <2>5. Pool!Take(a, o)
    BY <1>2, <2>2, <2>3, <2>4 DEF Admit, Pool!Take
  <2> QED BY <2>5 DEF Pool!Next
<1>3. ASSUME NEW a \in Attempts, Release(a)
      PROVE  [Pool!Next]_<<held, limit>>
  <2>1. PICK o \in Objects : o = object[a]
    BY <1>3 DEF Release, TypeOK
  <2>2. a \in held[o]
    BY <1>3, <2>1 DEF Release, held, Holders
  <2>3. held' = [held EXCEPT ![o] = @ \ {a}]
    <3>1. ASSUME NEW p \in Objects
          PROVE  Holders(p)' = IF p = o THEN Holders(p) \ {a} ELSE Holders(p)
      BY <1>3, <2>1, ObjectsAssumption DEF Release, Leave, Goto, Holders, TypeOK
    <3> QED BY <3>1 DEF held
  <2>4. Pool!Give(a, o)
    BY <1>3, <2>2, <2>3 DEF Release, Leave, Pool!Give
  <2> QED BY <2>4 DEF Pool!Next
<1>4. ASSUME NEW a \in Attempts,
             LookUp(a) \/ Block(a) \/ Retry(a) \/ TimeOut(a) \/ EndUnlimited(a)
      PROVE  [Pool!Next]_<<held, limit>>
  <2>1. ASSUME NEW o \in Objects
        PROVE  Holders(o)' = Holders(o)
    BY <1>4, ObjectsAssumption
    DEF LookUp, Find, Block, Retry, TimeOut, EndUnlimited, Leave, Goto, Holders, TypeOK
  <2>2. held' = held
    BY <2>1 DEF held
  <2>3. limit' = limit
    BY <1>4 DEF LookUp, Find, Block, Retry, TimeOut, EndUnlimited, Leave
  <2> QED BY <2>2, <2>3
<1>5. CASE ChangeLimit \/ Cleanup \/ UNCHANGED vars
  BY <1>5 DEF ChangeLimit, Cleanup, vars, held, Holders
<1> QED
  BY <1>1, <1>2, <1>3, <1>4, <1>5 DEF Next, Attempt, Acquire

\* The counter objects implement the abstract pools of slots, for any attempts and limits.
THEOREM PoolImplemented == Spec => ImplementsPool
<1> QED
  BY PoolInit, PoolStep, TypeCorrect, SlotsAlwaysAccounted, PTL
  DEF Spec, ImplementsPool, Pool!Spec
=============================================================================
