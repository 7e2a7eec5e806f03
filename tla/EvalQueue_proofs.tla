--------------------------- MODULE EvalQueue_proofs ---------------------------
(***************************************************************************)
(* The dispatch of tasks is exact for any number of tasks, goroutines,     *)
(* calls of the panel and restarts: a task has one worker, the workers are *)
(* counted and bounded, no running row is without an owner, and Stop       *)
(* leaves nothing behind.                                                  *)
(***************************************************************************)
EXTENDS EvalQueue, FiniteSetTheorems, TLAPS

-----------------------------------------------------------------------------
(* Facts about the queries.                                                *)

\* The tasks are finitely many, and so is what a call keeps of a batch.
LEMMA TasksFinite == IsFiniteSet(Tasks) /\ Tasks \subseteq Nat
  BY BoundsAssumption, FS_Interval DEF Tasks

\* The number of entries kept of a batch is a number.
LEMMA KeptFinite ==
  ASSUME NEW batch \in Batches, NEW active
  PROVE  Cardinality(Kept(batch, active)) \in Nat /\ Kept(batch, active) \subseteq DOMAIN batch
<1>1. Kept(batch, active) \subseteq DOMAIN batch
  BY DEF Kept
<1>2. DOMAIN batch = 1 .. Len(batch) /\ Len(batch) \in Nat
  BY BatchesAssumption
<1>3. IsFiniteSet(DOMAIN batch)
  BY <1>2, FS_Interval
<1> QED BY <1>1, <1>3, FS_Subset, FS_CardinalityType

\* LIMIT n is kept: the first n of a set in the order of the queue are at
\* most n, since Before is a strict order and so no two have the same number
\* of predecessors.
LEMMA SelectionBounded ==
  ASSUME NEW S \in SUBSET Tasks, NEW n \in Nat, position \in [Tasks -> Nat]
  PROVE  /\ FirstOf(S, n) \subseteq S
         /\ IsFiniteSet(FirstOf(S, n))
         /\ Cardinality(FirstOf(S, n)) <= n
<1> DEFINE P(t) == {u \in S : Before(u, t)}
           f == [t \in FirstOf(S, n) |-> Cardinality(P(t))]
<1>1. FirstOf(S, n) \subseteq S
  BY DEF FirstOf
<1>2. ASSUME NEW t \in S
      PROVE  IsFiniteSet(P(t)) /\ Cardinality(P(t)) \in Nat
  <2>1. IsFiniteSet(S)
    BY TasksFinite, FS_Subset
  <2> QED BY <2>1, FS_Subset, FS_CardinalityType
<1>3. ASSUME NEW t \in S, NEW u \in S, Before(t, u)
      PROVE  Cardinality(P(t)) < Cardinality(P(u))
  <2>1. S \subseteq Nat /\ \A v \in S : position[v] \in Nat
    BY TasksFinite
  <2>2. P(t) \subseteq P(u)
    <3> SUFFICES ASSUME NEW v \in S, Before(v, t)
                 PROVE  Before(v, u)
      OBVIOUS
    <3>1. position[v] \in Nat /\ position[t] \in Nat /\ position[u] \in Nat
      BY <2>1
    <3>2. v \in Nat /\ t \in Nat /\ u \in Nat
      BY <2>1
    <3> QED BY <1>3, <3>1, <3>2 DEF Before
  <2>3. t \in P(u) /\ t \notin P(t)
    BY <1>3, <2>1 DEF Before
  <2>4. P(t) # P(u)
    BY <2>3
  <2>5. Cardinality(P(t)) <= Cardinality(P(u))
        /\ Cardinality(P(t)) # Cardinality(P(u))
    BY <1>2, <2>2, <2>4, FS_Subset
  <2> QED BY <1>2, <2>5
<1>4. \A t, u \in S : t # u => Before(t, u) \/ Before(u, t)
  BY TasksFinite DEF Before
<1>5. f \in [FirstOf(S, n) -> 0 .. (n - 1)]
  <2> SUFFICES ASSUME NEW t \in FirstOf(S, n)
               PROVE  Cardinality(P(t)) \in 0 .. (n - 1)
    OBVIOUS
  <2>1. Cardinality(P(t)) < n /\ Cardinality(P(t)) \in Nat
    BY <1>1, <1>2 DEF FirstOf
  <2> QED BY <2>1
<1>6. \A t, u \in FirstOf(S, n) : f[t] = f[u] => t = u
  <2> SUFFICES ASSUME NEW t \in FirstOf(S, n), NEW u \in FirstOf(S, n), t # u
               PROVE  Cardinality(P(t)) # Cardinality(P(u))
    OBVIOUS
  <2>1. t \in S /\ u \in S
    BY <1>1
  <2>2. Cardinality(P(t)) \in Nat /\ Cardinality(P(u)) \in Nat
    BY <1>2, <2>1
  <2>3. Before(t, u) \/ Before(u, t)
    BY <1>4, <2>1
  <2>4. Cardinality(P(t)) < Cardinality(P(u)) \/ Cardinality(P(u)) < Cardinality(P(t))
    BY <1>3, <2>1, <2>3
  <2> HIDE DEF P
  <2> QED BY <2>2, <2>4
<1>7. f \in Injection(FirstOf(S, n), 0 .. (n - 1))
  BY <1>5, <1>6 DEF Injection, IsInjective
<1>8. IsFiniteSet(0 .. (n - 1)) /\ Cardinality(0 .. (n - 1)) = n
  BY FS_Interval
<1>9. IsFiniteSet(FirstOf(S, n)) /\ Cardinality(FirstOf(S, n)) <= n
  <2> HIDE DEF f
  <2> QED BY <1>7, <1>8, FS_Injection
<1> QED BY <1>1, <1>9

-----------------------------------------------------------------------------
(* Types.                                                                  *)

\* The initial states are well typed.
LEMMA InitType == Init => TypeOK
<1> SUFFICES ASSUME Init
             PROVE  TypeOK
  OBVIOUS
<1>1. created \in 0 .. MaxTasks /\ ends \in 0 .. MaxEnds
  BY BoundsAssumption DEF Init
<1>2. call \in [Admins -> Calls]
  BY DEF Init, Calls
<1> QED BY <1>1, <1>2 DEF Init, TypeOK, Models

\* The record of a call may be replaced by any record of a call.
LEMMA SetCallType ==
  ASSUME TypeOK, NEW a \in Admins, NEW c \in Calls, SetCall(a, c)
  PROVE  call' \in [Admins -> Calls]
  BY DEF TypeOK, SetCall

\* What a call has read has its type.
LEMMA CallFields ==
  ASSUME TypeOK, NEW a \in Admins
  PROVE  /\ call[a].step \in {"idle", "notify", "max", "create", "list", "swap", "stop"}
         /\ call[a].step = "idle" => call[a] = Idle
         /\ call[a].step \in {"max", "create"} =>
               call[a].batch \in Batches /\ call[a].active \in SUBSET Models
         /\ call[a].step = "create" => call[a].base \in Nat
         /\ call[a].step \in {"list", "swap", "stop"} => call[a].task \in Tasks
         /\ call[a].step \in {"list", "swap"} => call[a].from \in Nat
         /\ call[a].step = "swap" => call[a].other \in Tasks /\ call[a].to \in Nat
<1>1. call[a] \in Calls
  BY DEF TypeOK
<1> QED BY <1>1 DEF Calls, Idle, Notifying

\* A new row's target is an entry of the batch; its position is a number.
LEMMA CreateTasksType ==
  ASSUME TypeOK, NEW a \in Admins, CreateTasks(a)
  PROVE  TypeOK'
<1> DEFINE c == call[a]
           K == Kept(c.batch, c.active)
           n == Cardinality(K)
<1>1. c.step = "create" /\ c.batch \in Batches /\ c.base \in Nat
  BY CallFields DEF CreateTasks, Call
<1>2. n \in Nat /\ K \subseteq DOMAIN c.batch
  BY <1>1, KeptFinite
<1>3. c.batch \in Seq(Targets)
  BY <1>1, BatchesAssumption
<1>4. created \in Nat /\ created' = created + n /\ created' <= MaxTasks
  BY <1>2, BoundsAssumption DEF CreateTasks, TypeOK
<1>5. \A t \in (created + 1) .. (created + n) :
         t - created \in 1 .. n /\ c.base + t - created - 1 \in Nat
  BY <1>1, <1>2, <1>4
<1> HIDE DEF n, K
<1>6. target' \in [Tasks -> Models]
  <2>1. PICK f \in InOrder(K) :
           target' = [t \in Tasks |->
                         IF t \in (created + 1) .. (created + n)
                         THEN c.batch[f[t - created]] ELSE target[t]]
    BY DEF CreateTasks, K, n
  <2>2. \A i \in 1 .. n : c.batch[f[i]] \in Targets
    BY <1>2, <1>3, <2>1 DEF InOrder, n
  <2> QED BY <1>5, <2>1, <2>2 DEF TypeOK, Models
<1>7. position' \in [Tasks -> Nat]
  <2>1. position' = [t \in Tasks |->
                         IF t \in (created + 1) .. (created + n)
                         THEN c.base + t - created - 1 ELSE position[t]]
    BY DEF CreateTasks, K, n
  <2> QED BY <1>5, <2>1 DEF TypeOK
<1>8. status' \in [Tasks -> {"none", "queued", "running", "done", "stopped"}]
  BY DEF CreateTasks, TypeOK
<1>9. call' \in [Admins -> Calls]
  BY SetCallType DEF CreateTasks, Calls
<1>10. created' \in 0 .. MaxTasks
  BY <1>2, <1>4, BoundsAssumption
<1>11. UNCHANGED <<process, running, notified, loop, selected, workers, stranded>>
  BY DEF CreateTasks, Call
<1> QED
  BY <1>6, <1>7, <1>8, <1>9, <1>10, <1>11 DEF TypeOK, process, workers

\* The panel's calls keep the type.
LEMMA AdminType ==
  ASSUME TypeOK, NEW a \in Admins, Admin(a)
  PROVE  TypeOK'
<1> USE DEF TypeOK, table, process, workers, Call, Begins
<1>0. Notifying \in Calls /\ Idle \in Calls
  BY DEF Calls
<1>1. ASSUME NEW batch \in Batches, Enqueue(a, batch)
      PROVE  TypeOK'
  <2>1. Active \subseteq Models
    BY DEF Active, Queued, Running
  <2>2. [step |-> "max", batch |-> batch, active |-> Active] \in Calls
    BY <2>1 DEF Calls
  <2> QED BY <1>1, <2>2, SetCallType DEF Enqueue
<1>2. CASE ReadLastPosition(a)
  <2>1. call[a].batch \in Batches /\ call[a].active \in SUBSET Models
    BY <1>2, CallFields DEF ReadLastPosition
  <2>2. \A t \in Tasks : position[t] + 1 \in Nat
    OBVIOUS
  <2>3. PICK p \in {0} \cup {position[t] + 1 : t \in Rows} :
           SetCall(a, [step |-> "create", batch |-> call[a].batch,
                       active |-> call[a].active, base |-> p])
    BY <1>2 DEF ReadLastPosition
  <2>4. p \in Nat
    BY <2>2, <2>3 DEF Rows
  <2>5. [step |-> "create", batch |-> call[a].batch,
         active |-> call[a].active, base |-> p] \in Calls
    BY <2>1, <2>4 DEF Calls
  <2>6. call' \in [Admins -> Calls]
    BY <2>3, <2>5, SetCallType
  <2> QED BY <1>2, <2>6 DEF ReadLastPosition
<1>3. CASE CreateTasks(a)
  BY <1>3, CreateTasksType
<1>4. ASSUME NEW t \in Tasks, MoveUp(a, t)
      PROVE  TypeOK'
  <2>1. [step |-> "list", task |-> t, from |-> position[t]] \in Calls
    BY DEF Calls
  <2> QED BY <1>4, <2>1, SetCallType DEF MoveUp
<1>5. ASSUME NEW u \in Tasks, FindNeighbor(a, u)
      PROVE  TypeOK'
  <2>1. call[a].task \in Tasks /\ call[a].from \in Nat
    BY <1>5, CallFields DEF FindNeighbor
  <2>2. [step |-> "swap", task |-> call[a].task, from |-> call[a].from,
         other |-> u, to |-> position[u]] \in Calls
    BY <2>1 DEF Calls
  <2> QED BY <1>5, <2>2, SetCallType DEF FindNeighbor
<1>6. CASE SwapPositions(a)
  <2>1. call[a].from \in Nat /\ call[a].to \in Nat
    BY <1>6, CallFields DEF SwapPositions
  <2>2. position' \in [Tasks -> Nat]
    BY <1>6, <2>1 DEF SwapPositions
  <2> QED BY <1>0, <1>6, <2>2, SetCallType DEF SwapPositions
<1>7. ASSUME NEW t \in Tasks, Stop(a, t)
      PROVE  TypeOK'
  <2>1. [step |-> "stop", task |-> t] \in Calls
    BY DEF Calls
  <2> QED BY <1>7, <2>1, SetCallType DEF Stop
<1>8. CASE MarkStopped(a)
  <2>1. status' \in [Tasks -> {"none", "queued", "running", "done", "stopped"}]
    BY <1>8 DEF MarkStopped, SetStatus
  <2> QED BY <1>0, <1>8, <2>1, SetCallType DEF MarkStopped
<1>9. CASE Clear(a)
  BY <1>0, <1>9, SetCallType DEF Clear, Models
<1>10. CASE Notify(a) \/ FailCall(a)
  BY <1>0, <1>10, SetCallType DEF Notify, FailCall
<1> QED
  BY <1>1, <1>2, <1>3, <1>4, <1>5, <1>6, <1>7, <1>8, <1>9, <1>10 DEF Admin

\* The loop keeps the type.
LEMMA DispatchType == TypeOK /\ Dispatch => TypeOK'
<1> SUFFICES ASSUME TypeOK, Dispatch
             PROVE  TypeOK'
  OBVIOUS
<1> USE DEF TypeOK, process, workers, Loop
<1>1. CASE DispatchNothing \/ SpawnedAll \/ Wake \/ LoopExits
  BY <1>1 DEF DispatchNothing, SpawnedAll, Wake, LoopExits
<1>2. CASE SelectTasks
  BY <1>2 DEF SelectTasks, FirstOf, Queued
<1>3. CASE PopTasks \/ PopFails
  BY <1>3 DEF PopTasks, PopFails, Queued
<1>4. ASSUME NEW w \in Goroutines, NEW t \in Tasks, Spawn(w, t)
      PROVE  TypeOK'
  BY <1>4 DEF Spawn
<1> QED BY <1>1, <1>2, <1>3, <1>4 DEF Dispatch

-----------------------------------------------------------------------------
(* The inductive invariant.                                                *)

\* A goroutine has a job while it evaluates, and only then.
Employed == \A w \in Goroutines : stage[w] = "evaluating" <=> job[w] # NoTask

\* What the loop has selected nobody evaluates, and no two goroutines have
\* the same job.
TakenApart ==
    /\ \A w \in Evaluating : job[w] \notin selected
    /\ \A v, w \in Evaluating : job[v] = job[w] => v = w

\* What is taken from the queue is a row that was created and is no longer
\* queued, once the UPDATE of the pop is done.
TakenStarted ==
    /\ \A t \in selected : t <= created /\ (loop = "spawn" => status[t] # "queued")
    /\ \A w \in Evaluating : job[w] <= created /\ status[job[w]] # "queued"

\* The loop's batch, the end of the loop and of the process.
LoopInv ==
    /\ selected # {} => loop \in {"update", "spawn"}
    /\ phase \in {"draining", "closed"} => loop = "exited"
    /\ phase = "closed" => AtWork = {}
    /\ phase = "down" => loop = "off" /\ AtWork = {} /\ selected = {}
    /\ phase # "down" => ends < MaxEnds

\* Ids that have not been given out have no row.
RowsCreated == \A t \in Tasks : t > created => status[t] = "none"

Structure ==
    Employed /\ TakenApart /\ TakenStarted /\ LoopInv /\ RowsCreated /\ RunningOwned

\* Slots in use and slots about to be used.
SlotsCounted ==
    /\ running = Cardinality(AtWork)
    /\ running + Cardinality(selected) <= EvalConcurrency

DispatchInv == TypeOK /\ Structure /\ SlotsCounted

\* The panel's calls leave the scheduler alone; a row they touch is neither
\* made queued again nor made running.
LEMMA AdminRows ==
  ASSUME TypeOK, NEW a \in Admins, Admin(a)
  PROVE  /\ UNCHANGED <<phase, ends, running, loop, selected, job, stage, stranded>>
         /\ created' \in Nat /\ created <= created'
         /\ \A t \in Tasks : t <= created =>
               status'[t] = status[t] \/ status'[t] \in {"none", "stopped"}
         /\ \A t \in Tasks : t > created =>
               status'[t] \in {status[t], "none", "queued", "stopped"}
         /\ \A t \in Tasks : t > created' /\ status[t] = "none" => status'[t] = "none"
<1> USE DEF TypeOK, table, process, workers, Call, Begins
<1>1. CASE CreateTasks(a)
  <2> DEFINE n == Cardinality(Kept(call[a].batch, call[a].active))
  <2>1. n \in Nat
    BY <1>1, CallFields, KeptFinite DEF CreateTasks
  <2>2. created \in Nat /\ created' = created + n /\ Tasks \subseteq Nat
    BY <1>1, BoundsAssumption, TasksFinite DEF CreateTasks
  <2>3. status' = [t \in Tasks |->
                      IF t \in (created + 1) .. (created + n) THEN "queued" ELSE status[t]]
    BY <1>1 DEF CreateTasks
  <2> HIDE DEF n
  <2> QED BY <1>1, <2>1, <2>2, <2>3 DEF CreateTasks
<1>2. CASE ~CreateTasks(a)
  <2>0. created \in Nat /\ Tasks \subseteq Nat
    BY BoundsAssumption, TasksFinite
  <2>1. created' = created
    BY <1>2
    DEF Admin, Enqueue, ReadLastPosition, MoveUp, FindNeighbor, Stop,
        SwapPositions, MarkStopped, Clear, Notify, FailCall
  <2>2. UNCHANGED <<phase, ends, running, loop, selected, job, stage, stranded>>
    BY <1>2
    DEF Admin, Enqueue, ReadLastPosition, MoveUp, FindNeighbor, Stop,
        SwapPositions, MarkStopped, Clear, Notify, FailCall
  <2>3. CASE MarkStopped(a)
    BY <2>0, <2>1, <2>2, <2>3 DEF MarkStopped, SetStatus
  <2>4. CASE Clear(a)
    BY <2>0, <2>1, <2>2, <2>4 DEF Clear
  <2>5. CASE ~MarkStopped(a) /\ ~Clear(a)
    <3>1. status' = status
      BY <1>2, <2>5
      DEF Admin, Enqueue, ReadLastPosition, MoveUp, FindNeighbor, Stop,
          SwapPositions, Notify, FailCall
    <3> QED BY <2>0, <2>1, <2>2, <3>1
  <2> QED BY <2>3, <2>4, <2>5
<1> QED BY <1>1, <1>2

LEMMA AdminStructure ==
  ASSUME TypeOK, Structure, NEW a \in Admins, Admin(a)
  PROVE  Structure'
<1>1. UNCHANGED <<phase, ends, running, loop, selected, job, stage, stranded>>
  BY AdminRows
<1>2. created \in Nat /\ created' \in Nat /\ created <= created' /\ Tasks \subseteq Nat
  BY AdminRows, BoundsAssumption, TasksFinite DEF TypeOK
<1>3. Employed' /\ TakenApart' /\ LoopInv'
  BY <1>1 DEF Structure, Employed, TakenApart, LoopInv, Evaluating, AtWork
<1>4. TakenStarted'
  <2>1. \A t \in Tasks : t <= created /\ status[t] # "queued" => status'[t] # "queued"
    BY AdminRows
  <2>2. \A t \in selected : t \in Tasks /\ t <= created' /\ t <= created
    BY <1>2 DEF Structure, TakenStarted, TypeOK
  <2>3. \A w \in Evaluating : job[w] \in Tasks /\ job[w] <= created' /\ job[w] <= created
    <3> SUFFICES ASSUME NEW w \in Evaluating
                 PROVE  job[w] \in Tasks /\ job[w] <= created' /\ job[w] <= created
      OBVIOUS
    <3>1. job[w] \in Tasks /\ job[w] <= created
      BY DEF Structure, Employed, TakenStarted, Evaluating, TypeOK
    <3>2. job[w] \in Nat
      BY <1>2, <3>1
    <3>3. job[w] <= created'
      BY <1>2, <3>1, <3>2
    <3> QED BY <3>1, <3>3
  <2> QED BY <1>1, <2>1, <2>2, <2>3 DEF Structure, TakenStarted, Evaluating
<1>5. RowsCreated'
  BY <1>2, AdminRows DEF Structure, RowsCreated
<1>6. RunningOwned'
  <2>1. Running' \subseteq Running
    <3> SUFFICES ASSUME NEW t \in Tasks, status'[t] = "running"
                 PROVE  status[t] = "running"
      BY DEF Running
    <3>1. CASE t <= created
      BY <3>1, AdminRows
    <3>2. CASE t > created
      BY <3>2, AdminRows
    <3> QED BY <1>2, <3>1, <3>2
  <2> QED BY <1>1, <2>1 DEF Structure, RunningOwned, Evaluating
<1> QED BY <1>3, <1>4, <1>5, <1>6 DEF Structure

LEMMA DispatchStructure == TypeOK /\ Structure /\ Dispatch => Structure'
<1> SUFFICES ASSUME TypeOK, Structure, Dispatch
             PROVE  Structure'
  OBVIOUS
<1>0. created \in Nat /\ Tasks \subseteq Nat /\ selected \subseteq Tasks
  BY BoundsAssumption, TasksFinite DEF TypeOK
<1> USE DEF TypeOK, Structure, process, workers, Loop, Evaluating, AtWork
<1>1. CASE DispatchNothing \/ SpawnedAll \/ Wake \/ LoopExits
  <2>1. UNCHANGED <<status, created, phase, ends, selected, job, stage, stranded>>
    BY <1>1 DEF DispatchNothing, SpawnedAll, Wake, LoopExits
  <2>2. selected = {} /\ loop \in {"dispatch", "spawn", "wait"} /\ loop' # "off"
    BY <1>1 DEF DispatchNothing, SpawnedAll, Wake, LoopExits, LoopInv
  <2>3. Employed' /\ TakenApart' /\ TakenStarted' /\ RowsCreated'
    BY <2>1, <2>2 DEF Employed, TakenApart, TakenStarted, RowsCreated
  <2>4. LoopInv'
    BY <2>1, <2>2 DEF LoopInv
  <2>5. RunningOwned'
    BY <2>1, <2>2 DEF RunningOwned, Running
  <2> QED BY <2>3, <2>4, <2>5
<1>2. CASE SelectTasks
  <2>1. selected' \subseteq Queued /\ selected = {}
    BY <1>2 DEF SelectTasks, FirstOf, LoopInv
  <2>2. \A t \in Queued : t <= created
    BY <1>0 DEF Queued, RowsCreated
  <2>3. UNCHANGED <<status, created, phase, ends, job, stage, stranded>>
        /\ loop = "dispatch" /\ loop' = "update" /\ phase = "up"
    BY <1>2 DEF SelectTasks
  <2>4. Employed' /\ TakenApart' /\ TakenStarted' /\ RowsCreated'
    BY <2>1, <2>2, <2>3
    DEF Employed, TakenApart, TakenStarted, RowsCreated, Queued
  <2>5. LoopInv' /\ RunningOwned'
    BY <2>3 DEF LoopInv, RunningOwned, Running
  <2> QED BY <2>4, <2>5
<1>3. CASE PopTasks
  <2>1. UNCHANGED <<created, phase, ends, selected, job, stage, stranded>>
        /\ loop = "update" /\ loop' = "spawn"
        /\ \A t \in Tasks : status'[t] =
              IF t \in selected /\ status[t] = "queued" THEN "running" ELSE status[t]
    BY <1>3 DEF PopTasks, Queued
  <2>2. Employed' /\ TakenApart' /\ RowsCreated' /\ LoopInv'
    BY <2>1, <1>0 DEF Employed, TakenApart, TakenStarted, RowsCreated, LoopInv
  <2>3. TakenStarted'
    BY <2>1, <1>0 DEF TakenStarted, Employed
  <2>4. RunningOwned'
    BY <2>1 DEF RunningOwned, Running
  <2> QED BY <2>2, <2>3, <2>4
<1>4. CASE PopFails
  <2>1. UNCHANGED <<created, phase, ends, job, stage>> /\ selected' = {}
        /\ loop = "update" /\ loop' = "wait"
    BY <1>4 DEF PopFails
  <2>2. \A t \in Tasks : \/ status'[t] = status[t]
                         \/ t \in selected /\ status[t] = "queued"
                            /\ status'[t] = "running" /\ t \in stranded'
    BY <1>4 DEF PopFails, Queued
  <2>3. stranded \subseteq stranded'
    BY <1>4 DEF PopFails
  <2>4. Employed' /\ TakenApart' /\ LoopInv'
    BY <2>1 DEF Employed, TakenApart, LoopInv
  <2>5. \A t \in Tasks : /\ status'[t] = "queued" => status[t] = "queued"
                         /\ status'[t] = "none" <=> status[t] = "none"
    BY <2>2
  <2>7. TakenStarted'
    BY <2>1, <2>5, <1>0 DEF TakenStarted, Employed
  <2>8. RowsCreated'
    BY <2>1, <2>5, <1>0 DEF RowsCreated
  <2>6. RunningOwned'
    BY <2>1, <2>2, <2>3 DEF RunningOwned, Running
  <2> QED BY <2>4, <2>6, <2>7, <2>8
<1>5. ASSUME NEW w \in Goroutines, NEW t \in Tasks, Spawn(w, t)
      PROVE  Structure'
  <2>1. UNCHANGED <<status, created, phase, ends, loop, stranded>> /\ loop = "spawn"
        /\ t \in selected /\ stage[w] = "idle" /\ selected' = selected \ {t}
        /\ job' = [job EXCEPT ![w] = t] /\ stage' = [stage EXCEPT ![w] = "evaluating"]
    BY <1>5 DEF Spawn
  <2>2. Evaluating' = Evaluating \cup {w} /\ w \notin Evaluating
        /\ \A v \in Evaluating : job'[v] = job[v]
        /\ job'[w] = t /\ t # NoTask
    BY <2>1, NamesAssumption
  <2>3. Employed'
    BY <2>1, NamesAssumption DEF Employed
  <2>4. TakenApart' /\ TakenStarted'
    BY <2>1, <2>2 DEF TakenApart, TakenStarted
  <2>5. RowsCreated' /\ LoopInv'
    BY <2>1 DEF RowsCreated, LoopInv
  <2>6. RunningOwned'
    BY <2>1, <2>2 DEF RunningOwned, Running
  <2> QED BY <2>3, <2>4, <2>5, <2>6
<1> QED BY <1>1, <1>2, <1>3, <1>4, <1>5 DEF Dispatch

LEMMA WorkStructure ==
  ASSUME TypeOK, Structure, NEW w \in Goroutines, Work(w)
  PROVE  Structure'
<1> USE DEF TypeOK, Structure, process, Worker, Evaluating, AtWork
<1>0. created \in Nat /\ Tasks \subseteq Nat
  BY BoundsAssumption, TasksFinite
<1>1. UNCHANGED <<created, phase, ends, loop, selected>> /\ stage[w] # "idle"
      /\ \A v \in Goroutines : stage[v] = "idle" => stage'[v] = "idle"
  BY DEF Work, FinishTask, AbandonTask, NotifyLoop, Leave
<1>2. CASE FinishTask(w) \/ AbandonTask(w)
  <2>1. stage[w] = "evaluating" /\ job' = [job EXCEPT ![w] = NoTask]
        /\ stage' = [stage EXCEPT ![w] = "notify"]
    BY <1>2 DEF FinishTask, AbandonTask
  <2>2. Evaluating' = Evaluating \ {w} /\ \A v \in Evaluating' : job'[v] = job[v]
    BY <2>1
  <2>3. \A t \in Tasks :
           \/ status'[t] = status[t]
           \/ t = job[w] /\ status[t] # "none" /\ status'[t] = "done"
    <3>1. CASE FinishTask(w)
      BY <3>1 DEF FinishTask, SetStatus
    <3>2. CASE AbandonTask(w)
      BY <3>2 DEF AbandonTask
    <3> QED BY <1>2, <3>1, <3>2
  <2>4. job[w] \in Tasks
    BY <2>1 DEF Employed
  <2>5. status'[job[w]] = "running" => job[w] \in stranded'
    BY <1>2, <2>4 DEF FinishTask, AbandonTask, SetStatus
  <2>6. stranded \subseteq stranded'
    BY <1>2 DEF FinishTask, AbandonTask
  <2>7. Employed' /\ TakenApart'
    BY <1>1, <2>1, <2>2 DEF Employed, TakenApart
  <2>8. TakenStarted' /\ RowsCreated'
    <3>1. \A t \in Tasks : status[t] # "queued" => status'[t] # "queued"
      BY <2>3
    <3>2. \A v \in Evaluating' : job'[v] \in Tasks /\ v \in Evaluating /\ job'[v] = job[v]
      BY <2>2 DEF Employed
    <3>3. TakenStarted'
      BY <1>1, <3>1, <3>2 DEF TakenStarted
    <3>4. RowsCreated'
      BY <1>1, <2>3 DEF RowsCreated
    <3> QED BY <3>3, <3>4
  <2>9. LoopInv'
    BY <1>1 DEF LoopInv
  <2>10. RunningOwned'
    BY <1>1, <2>2, <2>3, <2>5, <2>6 DEF RunningOwned, Running
  <2> QED BY <2>7, <2>8, <2>9, <2>10
<1>3. CASE NotifyLoop(w) \/ Leave(w)
  <2>1. UNCHANGED <<status, job, stranded>> /\ Evaluating' = Evaluating
        /\ \A v \in Goroutines : stage'[v] = "evaluating" <=> stage[v] = "evaluating"
    BY <1>3 DEF NotifyLoop, Leave
  <2>2. Employed' /\ TakenApart' /\ TakenStarted' /\ RowsCreated'
    BY <1>1, <2>1 DEF Employed, TakenApart, TakenStarted, RowsCreated
  <2>3. LoopInv'
    BY <1>1 DEF LoopInv
  <2>4. RunningOwned'
    BY <1>1, <2>1 DEF RunningOwned, Running
  <2> QED BY <2>2, <2>3, <2>4
<1> QED BY <1>2, <1>3 DEF Work

LEMMA LifetimeStructure == TypeOK /\ Structure /\ Lifetime => Structure'
<1> SUFFICES ASSUME TypeOK, Structure, Lifetime
             PROVE  Structure'
  OBVIOUS
<1> USE DEF TypeOK, Structure, scheduler, workers, Evaluating, AtWork, table
<1>0. created \in Nat /\ Tasks \subseteq Nat /\ ends \in Nat
  BY BoundsAssumption, TasksFinite
<1>1. CASE Start
  <2>1. selected = {} /\ AtWork = {} /\ Evaluating = {}
    BY <1>1 DEF Start, LoopInv
  <2>2. UNCHANGED <<created, ends, selected, job, stage>>
        /\ phase' = "up" /\ loop' = "dispatch" /\ ends < MaxEnds
        /\ \A t \in Tasks : status'[t] # "running"
                            /\ (status[t] = "none" => status'[t] = "none")
    BY <1>1 DEF Start
  <2>3. Evaluating' = {} /\ AtWork' = {}
    BY <2>1, <2>2
  <2>4. Employed' /\ TakenApart' /\ TakenStarted' /\ RowsCreated' /\ LoopInv'
    BY <2>1, <2>2, <2>3 DEF Employed, TakenApart, TakenStarted, RowsCreated, LoopInv
  <2>5. RunningOwned'
    BY <2>2 DEF RunningOwned, Running
  <2> QED BY <2>4, <2>5
<1>2. CASE BeginStop \/ StopAwaitsLoop \/ StopAwaitsWorkers
  <2>1. UNCHANGED <<status, created, ends, loop, selected, job, stage, stranded>>
    BY <1>2 DEF BeginStop, StopAwaitsLoop, StopAwaitsWorkers
  <2>2. phase # "down" /\ phase' # "down"
        /\ (phase' \in {"draining", "closed"} => loop = "exited")
        /\ (phase' = "closed" => AtWork = {})
    BY <1>2 DEF BeginStop, StopAwaitsLoop, StopAwaitsWorkers, LoopInv
  <2>3. Employed' /\ TakenApart' /\ TakenStarted' /\ RowsCreated'
    BY <2>1 DEF Employed, TakenApart, TakenStarted, RowsCreated
  <2>4. LoopInv' /\ RunningOwned'
    BY <2>1, <2>2 DEF LoopInv, RunningOwned, Running
  <2> QED BY <2>3, <2>4
<1>3. CASE ProcessEnds
  <2>1. Evaluating' = {} /\ AtWork' = {}
    BY <1>3 DEF ProcessEnds
  <2>2. Employed' /\ TakenApart' /\ TakenStarted' /\ RowsCreated'
    BY <1>3, <2>1 DEF ProcessEnds, Employed, TakenApart, TakenStarted, RowsCreated
  <2>3. LoopInv' /\ RunningOwned'
    BY <1>3, <2>1 DEF ProcessEnds, LoopInv, RunningOwned
  <2> QED BY <2>2, <2>3
<1> QED BY <1>1, <1>2, <1>3 DEF Lifetime

\* The sets that are counted are finite.
LEMMA CountsFinite ==
  ASSUME TypeOK
  PROVE  /\ IsFiniteSet(AtWork) /\ Cardinality(AtWork) \in Nat
         /\ IsFiniteSet(selected) /\ Cardinality(selected) \in Nat
<1>1. IsFiniteSet(AtWork)
  BY NamesAssumption, FS_Subset DEF AtWork
<1>2. IsFiniteSet(selected)
  BY TasksFinite, FS_Subset DEF TypeOK
<1> QED BY <1>1, <1>2, FS_CardinalityType

\* A goroutine that leaves was counted.
LEMMA LeaverCounted ==
  ASSUME TypeOK, SlotsCounted, NEW w \in Goroutines, stage[w] # "idle"
  PROVE  running > 0
<1>1. w \in AtWork
  BY DEF AtWork
<1>2. Cardinality(AtWork) # 0
  BY <1>1, CountsFinite, FS_EmptySet
<1> QED BY <1>2, CountsFinite DEF SlotsCounted

LEMMA DispatchCounted ==
  TypeOK /\ Structure /\ SlotsCounted /\ Dispatch => SlotsCounted'
<1> SUFFICES ASSUME TypeOK, Structure, SlotsCounted, Dispatch
             PROVE  SlotsCounted'
  OBVIOUS
<1>0. EvalConcurrency \in Nat /\ running \in Nat
  BY BoundsAssumption DEF TypeOK
<1> USE DEF Loop, workers, SlotsCounted
<1>1. CASE DispatchNothing \/ SpawnedAll \/ Wake \/ LoopExits \/ PopTasks
  <2>1. AtWork' = AtWork /\ running' = running /\ selected' = selected
    BY <1>1 DEF DispatchNothing, SpawnedAll, Wake, LoopExits, PopTasks, AtWork
  <2> QED BY <2>1
<1>2. CASE SelectTasks
  <2>1. AtWork' = AtWork /\ running' = running /\ Need \in Nat
    BY <1>0, <1>2 DEF SelectTasks, AtWork, Need
  <2>2. selected' = FirstOf(Queued, Need)
    BY <1>2 DEF SelectTasks
  <2>3. Queued \in SUBSET Tasks /\ position \in [Tasks -> Nat]
    BY DEF Queued, TypeOK
  <2>4. IsFiniteSet(selected') /\ Cardinality(selected') <= Need
    BY <2>1, <2>2, <2>3, SelectionBounded
  <2>5. Cardinality(selected') \in Nat
    BY <2>4, FS_CardinalityType
  <2> QED BY <1>0, <2>1, <2>4, <2>5 DEF Need
<1>3. CASE PopFails
  <2>1. AtWork' = AtWork /\ running' = running /\ selected' = {}
    BY <1>3 DEF PopFails, AtWork
  <2> QED BY <1>0, <2>1, CountsFinite, FS_EmptySet
<1>4. ASSUME NEW w \in Goroutines, NEW t \in Tasks, Spawn(w, t)
      PROVE  SlotsCounted'
  <2>1. AtWork' = AtWork \cup {w} /\ w \notin AtWork
    BY <1>4 DEF Spawn, AtWork, TypeOK
  <2>2. selected' = selected \ {t} /\ t \in selected /\ running' = running + 1
    BY <1>4 DEF Spawn
  <2>3. Cardinality(AtWork') = Cardinality(AtWork) + 1
    BY <2>1, CountsFinite, FS_AddElement
  <2>4. Cardinality(selected') = Cardinality(selected) - 1
    BY <2>2, CountsFinite, FS_RemoveElement
  <2> QED BY <1>0, <2>2, <2>3, <2>4, CountsFinite
<1> QED BY <1>1, <1>2, <1>3, <1>4 DEF Dispatch

LEMMA WorkCounted ==
  ASSUME TypeOK, SlotsCounted, NEW w \in Goroutines, Work(w)
  PROVE  SlotsCounted'
<1> USE DEF Worker, SlotsCounted
<1>0. EvalConcurrency \in Nat /\ running \in Nat
  BY BoundsAssumption DEF TypeOK
<1>1. CASE FinishTask(w) \/ AbandonTask(w) \/ NotifyLoop(w)
  <2>1. AtWork' = AtWork /\ running' = running /\ selected' = selected
    BY <1>1 DEF FinishTask, AbandonTask, NotifyLoop, AtWork, TypeOK
  <2> QED BY <2>1
<1>2. CASE Leave(w)
  <2>1. AtWork' = AtWork \ {w} /\ w \in AtWork
    BY <1>2 DEF Leave, AtWork, TypeOK
  <2>2. running' = running - 1 /\ selected' = selected
    BY <1>2 DEF Leave
  <2>3. Cardinality(AtWork') = Cardinality(AtWork) - 1
    BY <2>1, CountsFinite, FS_RemoveElement
  <2> QED BY <1>0, <2>2, <2>3, CountsFinite
<1> QED BY <1>1, <1>2 DEF Work

LEMMA LifetimeCounted == TypeOK /\ SlotsCounted /\ Lifetime => SlotsCounted'
<1> SUFFICES ASSUME TypeOK, SlotsCounted, Lifetime
             PROVE  SlotsCounted'
  OBVIOUS
<1> USE DEF scheduler, workers, SlotsCounted
<1>1. CASE ProcessEnds
  <2>1. AtWork' = {} /\ selected' = {} /\ running' = 0
    BY <1>1 DEF ProcessEnds, AtWork
  <2> QED BY <2>1, FS_EmptySet, BoundsAssumption
<1>2. CASE ~ProcessEnds
  <2>1. AtWork' = AtWork /\ selected' = selected /\ running' = running
    BY <1>2 DEF Lifetime, Start, BeginStop, StopAwaitsLoop, StopAwaitsWorkers, AtWork
  <2> QED BY <2>1
<1> QED BY <1>1, <1>2

\* A worker keeps the type, since it has a job and a slot to give back.
LEMMA WorkType ==
  ASSUME TypeOK, Structure, SlotsCounted, NEW w \in Goroutines, Work(w)
  PROVE  TypeOK'
<1> USE DEF TypeOK, process, Worker
<1>1. CASE FinishTask(w)
  BY <1>1 DEF FinishTask, SetStatus
<1>2. CASE AbandonTask(w)
  <2>1. job[w] \in Tasks
    BY <1>2 DEF AbandonTask, Structure, Employed
  <2> QED BY <1>2, <2>1 DEF AbandonTask
<1>3. CASE NotifyLoop(w)
  BY <1>3 DEF NotifyLoop
<1>4. CASE Leave(w)
  <2>1. running' \in Nat
    BY <1>4, LeaverCounted DEF Leave
  <2> QED BY <1>4, <2>1 DEF Leave
<1> QED BY <1>1, <1>2, <1>3, <1>4 DEF Work

\* The life of the process keeps the type.
LEMMA LifetimeType == TypeOK /\ Structure /\ Lifetime => TypeOK'
<1> SUFFICES ASSUME TypeOK, Structure, Lifetime
             PROVE  TypeOK'
  OBVIOUS
<1> USE DEF TypeOK, table, scheduler, workers
<1>1. CASE Start
  BY <1>1 DEF Start
<1>2. CASE BeginStop \/ StopAwaitsLoop \/ StopAwaitsWorkers
  BY <1>2 DEF BeginStop, StopAwaitsLoop, StopAwaitsWorkers
<1>3. CASE ProcessEnds
  <2>1. ends' \in 0 .. MaxEnds
    BY <1>3, BoundsAssumption DEF ProcessEnds, Structure, LoopInv
  <2>2. Idle \in Calls
    BY DEF Calls
  <2> QED BY <1>3, <2>1, <2>2 DEF ProcessEnds
<1> QED BY <1>1, <1>2, <1>3 DEF Lifetime

-----------------------------------------------------------------------------
(* The theorems.                                                           *)

LEMMA DispatchInit == Init => DispatchInv
<1> SUFFICES ASSUME Init
             PROVE  DispatchInv
  OBVIOUS
<1>1. TypeOK
  BY InitType
<1>2. AtWork = {} /\ Evaluating = {} /\ selected = {} /\ running = 0
  BY DEF Init, AtWork, Evaluating
<1>3. Structure
  BY <1>2 DEF Init, Structure, Employed, TakenApart, TakenStarted, LoopInv,
              RowsCreated, RunningOwned, Running
<1>4. SlotsCounted
  BY <1>2, FS_EmptySet, BoundsAssumption DEF SlotsCounted
<1> QED BY <1>1, <1>3, <1>4 DEF DispatchInv

LEMMA DispatchStep == DispatchInv /\ [Next]_vars => DispatchInv'
<1> SUFFICES ASSUME DispatchInv, [Next]_vars
             PROVE  DispatchInv'
  OBVIOUS
<1> USE DEF DispatchInv
<1>1. CASE Lifetime
  BY <1>1, LifetimeType, LifetimeStructure, LifetimeCounted
<1>2. CASE Dispatch
  BY <1>2, DispatchType, DispatchStructure, DispatchCounted
<1>3. ASSUME NEW w \in Goroutines, Work(w)
      PROVE  DispatchInv'
  BY <1>3, WorkType, WorkStructure, WorkCounted
<1>4. ASSUME NEW a \in Admins, Admin(a)
      PROVE  DispatchInv'
  <2>1. AtWork' = AtWork /\ selected' = selected /\ running' = running
    BY <1>4, AdminRows DEF AtWork
  <2>2. SlotsCounted'
    BY <2>1 DEF SlotsCounted
  <2> QED BY <1>4, <2>2, AdminType, AdminStructure
<1>5. CASE Terminated \/ UNCHANGED vars
  <2>1. UNCHANGED vars
    BY <1>5 DEF Terminated
  <2> USE <2>1 DEF vars, table, process, scheduler, workers
  <2>2. TypeOK'
    BY DEF TypeOK
  <2>3. Structure'
    BY DEF Structure, Employed, TakenApart, TakenStarted, LoopInv, RowsCreated,
           RunningOwned, Running, Evaluating, AtWork
  <2>4. SlotsCounted'
    BY DEF SlotsCounted, AtWork
  <2> QED BY <2>2, <2>3, <2>4
<1> QED BY <1>1, <1>2, <1>3, <1>4, <1>5 DEF Next

LEMMA DispatchInvariant == Spec => []DispatchInv
<1> QED BY DispatchInit, DispatchStep, PTL DEF Spec

\* The queue, the scheduler and the calls of the panel keep their types; in
\* particular the counter of workers never falls below zero.
THEOREM TypeCorrect == Spec => []TypeOK
<1>1. DispatchInv => TypeOK
  BY DEF DispatchInv
<1> QED BY <1>1, DispatchInvariant, PTL

\* A task is evaluated by one goroutine at a time, for any number of tasks and
\* whatever calls of the panel fall between the statements of a pop.
THEOREM OneWorkerAlways == Spec => []OneWorkerPerTask
<1>1. DispatchInv => OneWorkerPerTask
  BY DEF DispatchInv, Structure, TakenApart, OneWorkerPerTask
<1> QED BY <1>1, DispatchInvariant, PTL

\* running counts the goroutines, and they are never more than
\* EvalConcurrency.
THEOREM WorkersAlwaysBounded == Spec => []WorkersBounded
<1>1. DispatchInv => WorkersBounded
  BY CountsFinite, BoundsAssumption DEF DispatchInv, SlotsCounted, WorkersBounded
<1> QED BY <1>1, DispatchInvariant, PTL

\* A row that says running has a goroutine, is about to get one, or met an
\* error in this process.
THEOREM RunningAlwaysOwned == Spec => []RunningOwned
<1>1. DispatchInv => RunningOwned
  BY DEF DispatchInv, Structure
<1> QED BY <1>1, DispatchInvariant, PTL

\* When Stop has returned, the loop has ended and no goroutine is at work.
THEOREM StopAlwaysDrains == Spec => []StopDrains
<1>1. DispatchInv => StopDrains
  BY DEF DispatchInv, Structure, LoopInv, StopDrains
<1> QED BY <1>1, DispatchInvariant, PTL

\* What is done, stopped or cleared is never queued nor running again: only
\* the UPDATE of a pop makes a row running, and only one that is still queued.
THEOREM FinishedAlwaysFinished == Spec => FinishedStaysFinished
<1> DEFINE Over == {"done", "stopped", "none"}
<1>1. ASSUME TypeOK, [Next]_vars, NEW t \in Tasks, t <= created, status[t] \in Over
      PROVE  status'[t] \in Over
  <2> USE <1>1
  <2>1. CASE Lifetime
    BY <2>1 DEF Lifetime, Start, BeginStop, StopAwaitsLoop, StopAwaitsWorkers,
                ProcessEnds, table
  <2>2. CASE Dispatch
    BY <2>2 DEF Dispatch, DispatchNothing, SelectTasks, PopTasks, PopFails, Spawn,
                SpawnedAll, Wake, LoopExits, Queued
  <2>3. ASSUME NEW w \in Goroutines, Work(w)
        PROVE  status'[t] \in Over
    BY <2>3 DEF Work, FinishTask, AbandonTask, NotifyLoop, Leave, SetStatus, TypeOK
  <2>4. ASSUME NEW a \in Admins, Admin(a)
        PROVE  status'[t] \in Over
    BY <2>4, AdminRows
  <2>5. CASE Terminated \/ UNCHANGED vars
    BY <2>5 DEF Terminated, vars, table
  <2> QED BY <2>1, <2>2, <2>3, <2>4, <2>5 DEF Next
<1>2. TypeOK /\ [Next]_vars =>
        [\A t \in Tasks : t <= created /\ status[t] \in Over => status'[t] \in Over]_vars
  BY <1>1
<1> QED BY <1>2, TypeCorrect, PTL DEF Spec, FinishedStaysFinished

-----------------------------------------------------------------------------
(* No two active rows about one model.                                     *)

\* Whoever is enqueueing has read all models that are active by now.
EnqueueKnows ==
    \A a \in Admins : call[a].step \in {"max", "create"} =>
        a \in Enqueuers /\ Active \subseteq call[a].active

\* A row that is active after the step was so before it, about the same model.
ActiveShrinks ==
    \A t \in (Queued \cup Running)' :
        t \in Queued \cup Running /\ target'[t] = target[t]

\* The calls that enqueue go on with what they have read.
ReadsKept ==
    \A a \in Admins : call'[a].step \in {"max", "create"} =>
        call[a].step \in {"max", "create"} /\ call'[a].active = call[a].active

LEMMA ShrinkKeeps ==
  ASSUME ActiveDistinct, EnqueueKnows, ActiveShrinks, ReadsKept
  PROVE  ActiveDistinct' /\ EnqueueKnows'
<1>1. ActiveDistinct'
  BY DEF ActiveDistinct, ActiveShrinks
<1>2. Active' \subseteq Active
  BY DEF Active, ActiveShrinks
<1>3. EnqueueKnows'
  BY <1>2 DEF EnqueueKnows, ReadsKept
<1> QED BY <1>1, <1>3

\* The rows of a batch are about different models, none of them active.
LEMMA CreateDistinct ==
  ASSUME TypeOK, RowsCreated, ActiveDistinct, EnqueueKnows,
         NEW a \in Admins, CreateTasks(a)
  PROVE  ActiveDistinct'
<1> DEFINE c == call[a]
           K == Kept(c.batch, c.active)
           n == Cardinality(K)
           new == (created + 1) .. (created + n)
<1>1. c.step = "create" /\ c.batch \in Batches /\ Active \subseteq c.active
  BY CallFields DEF CreateTasks, Call, EnqueueKnows
<1>2. n \in Nat /\ K \subseteq DOMAIN c.batch /\ created \in Nat /\ Tasks \subseteq Nat
  BY <1>1, KeptFinite, BoundsAssumption, TasksFinite DEF TypeOK
<1>3. c.batch \in Seq(Targets)
  BY <1>1, BatchesAssumption
<1>4. K \subseteq Nat /\ \A i \in K : i > 0
  BY <1>2, <1>3
<1>5. \A i, j \in K : i < j => c.batch[i] # c.batch[j]
  BY <1>4 DEF Kept
<1>6. \A i \in K : c.batch[i] \notin c.active
  BY DEF Kept
<1>7. PICK f \in InOrder(K) :
         target' = [t \in Tasks |->
                       IF t \in new THEN c.batch[f[t - created]] ELSE target[t]]
  BY DEF CreateTasks
<1>8. status' = [t \in Tasks |-> IF t \in new THEN "queued" ELSE status[t]]
  BY DEF CreateTasks
<1> HIDE DEF c, K, n
<1>9. ASSUME NEW i \in 1 .. n, NEW j \in 1 .. n, i # j
      PROVE  c.batch[f[i]] # c.batch[f[j]]
  <2>1. f[i] \in K /\ f[j] \in K
    BY DEF InOrder, n
  <2>2. f[i] < f[j] \/ f[j] < f[i]
    BY <1>2, <1>9 DEF InOrder, n
  <2> QED BY <1>5, <2>1, <2>2
<1>10. \A t \in new : t - created \in 1 .. n
  BY <1>2
<1>11. \A t \in Tasks : t \in new => target'[t] \notin Active
  BY <1>1, <1>6, <1>7, <1>10 DEF InOrder, n
<1>12. \A t \in Tasks \ new : target'[t] = target[t] /\ status'[t] = status[t]
  BY <1>7, <1>8
<1> SUFFICES ASSUME NEW t \in Tasks, NEW u \in Tasks,
                    status'[t] \in {"queued", "running"},
                    status'[u] \in {"queued", "running"},
                    target'[t] = target'[u], t # u
             PROVE  FALSE
  BY DEF ActiveDistinct, Queued, Running
<1>13. CASE t \in new /\ u \in new
  <2>1. t - created # u - created
    BY <1>2
  <2>2. t - created \in 1 .. n /\ u - created \in 1 .. n
    BY <1>10, <1>13
  <2> QED BY <1>7, <1>9, <1>13, <2>1, <2>2
<1>14. CASE t \in new /\ u \notin new
  BY <1>11, <1>12, <1>14 DEF Active, Queued, Running
<1>15. CASE t \notin new /\ u \in new
  BY <1>11, <1>12, <1>15 DEF Active, Queued, Running
<1>16. CASE t \notin new /\ u \notin new
  BY <1>12, <1>16 DEF ActiveDistinct, Queued, Running
<1> QED BY <1>13, <1>14, <1>15, <1>16

\* A call of the panel, when at most one of them may enqueue.
LEMMA AdminDistinct ==
  ASSUME TypeOK, RowsCreated, ActiveDistinct, EnqueueKnows,
         \A b, c \in Enqueuers : b = c,
         NEW a \in Admins, Admin(a)
  PROVE  ActiveDistinct' /\ EnqueueKnows'
<1> USE DEF Call, Begins, SetCall, table, Idle, Notifying
<1>0. \A b \in Admins \ {a} : call'[b] = call[b]
  BY DEF Admin, Enqueue, ReadLastPosition, CreateTasks, MoveUp, FindNeighbor, Stop,
         SwapPositions, MarkStopped, Clear, Notify, FailCall, TypeOK
<1>1. ASSUME NEW batch \in Batches, Enqueue(a, batch)
      PROVE  ActiveDistinct' /\ EnqueueKnows'
  <2>1. status' = status /\ target' = target /\ a \in Enqueuers
        /\ call'[a].active = Active
    BY <1>1 DEF Enqueue, TypeOK
  <2>2. Active' = Active
    BY <2>1 DEF Active, Queued, Running
  <2>3. ActiveDistinct'
    BY <2>1 DEF ActiveDistinct, Queued, Running
  <2>4. EnqueueKnows'
    BY <1>0, <2>1, <2>2 DEF EnqueueKnows
  <2> QED BY <2>3, <2>4
<1>2. CASE CreateTasks(a)
  <2>1. call[a].step = "create" /\ call'[a].step = "notify"
    BY <1>2 DEF CreateTasks, TypeOK
  <2>2. a \in Enqueuers
    BY <2>1 DEF EnqueueKnows
  <2>3. EnqueueKnows'
    BY <1>0, <2>1, <2>2 DEF EnqueueKnows
  <2> QED BY <1>2, <2>3, CreateDistinct
<1>3. CASE ReadLastPosition(a)
  <2>1. status' = status /\ target' = target /\ call[a].step = "max"
        /\ call'[a].active = call[a].active
    BY <1>3 DEF ReadLastPosition, TypeOK
  <2>2. ReadsKept
    BY <1>0, <2>1 DEF ReadsKept
  <2>3. ActiveShrinks
    BY <2>1 DEF ActiveShrinks, Queued, Running
  <2> QED BY <2>2, <2>3, ShrinkKeeps
<1>4. CASE MarkStopped(a) \/ Clear(a)
  <2>1. ActiveShrinks
    BY <1>4 DEF MarkStopped, Clear, SetStatus, ActiveShrinks, Queued, Running, TypeOK
  <2>2. call'[a].step = "notify"
    BY <1>4 DEF MarkStopped, Clear, TypeOK
  <2>3. ReadsKept
    BY <1>0, <2>2 DEF ReadsKept
  <2> QED BY <2>1, <2>3, ShrinkKeeps
<1>5. CASE SwapPositions(a) \/ Notify(a) \/ FailCall(a)
           \/ \E t \in Tasks : MoveUp(a, t) \/ FindNeighbor(a, t) \/ Stop(a, t)
  <2>1. status' = status /\ target' = target
        /\ call'[a].step \notin {"max", "create"}
    BY <1>5 DEF SwapPositions, Notify, FailCall, MoveUp, FindNeighbor, Stop, TypeOK
  <2>2. ReadsKept
    BY <1>0, <2>1 DEF ReadsKept
  <2>3. ActiveShrinks
    BY <2>1 DEF ActiveShrinks, Queued, Running
  <2> QED BY <2>2, <2>3, ShrinkKeeps
<1> QED BY <1>1, <1>2, <1>3, <1>4, <1>5 DEF Admin

\* The steps of the scheduler and of the process.
LEMMA SchedulerDistinct ==
  ASSUME TypeOK, ActiveDistinct, EnqueueKnows,
         Lifetime \/ Dispatch \/ \E w \in Goroutines : Work(w)
  PROVE  ActiveDistinct' /\ EnqueueKnows'
<1>1. target' = target
  BY DEF Lifetime, Start, BeginStop, StopAwaitsLoop, StopAwaitsWorkers, ProcessEnds,
         Dispatch, DispatchNothing, SelectTasks, PopTasks, PopFails, Spawn,
         SpawnedAll, Wake, LoopExits, Loop,
         Work, FinishTask, AbandonTask, NotifyLoop, Leave, Worker, table
<1>2. \A t \in Tasks : status'[t] \in {"queued", "running"}
                          => status[t] \in {"queued", "running"}
  <2>1. CASE Lifetime
    BY <2>1 DEF Lifetime, Start, BeginStop, StopAwaitsLoop, StopAwaitsWorkers,
                ProcessEnds, table
  <2>2. CASE Dispatch
    BY <2>2 DEF Dispatch, DispatchNothing, SelectTasks, PopTasks, PopFails, Spawn,
                SpawnedAll, Wake, LoopExits, Queued
  <2>3. ASSUME NEW w \in Goroutines, Work(w)
        PROVE  \A t \in Tasks : status'[t] \in {"queued", "running"}
                                   => status[t] \in {"queued", "running"}
    BY <2>3 DEF Work, FinishTask, AbandonTask, NotifyLoop, Leave, SetStatus, TypeOK
  <2> QED BY <2>1, <2>2, <2>3
<1>3. call' = call \/ call' = [a \in Admins |-> Idle]
  BY DEF Lifetime, Start, BeginStop, StopAwaitsLoop, StopAwaitsWorkers, ProcessEnds,
         Dispatch, DispatchNothing, SelectTasks, PopTasks, PopFails, Spawn,
         SpawnedAll, Wake, LoopExits, Loop,
         Work, FinishTask, AbandonTask, NotifyLoop, Leave, Worker
<1>4. ReadsKept
  BY <1>3 DEF ReadsKept, Idle
<1>5. ActiveShrinks
  BY <1>1, <1>2 DEF ActiveShrinks, Queued, Running
<1> QED BY <1>4, <1>5, ShrinkKeeps

\* While one call at a time enqueues, no two active rows are about the same
\* model, for any number of rows, models and other calls of the panel.
THEOREM ActiveAlwaysDistinct ==
  ASSUME \A b, c \in Enqueuers : b = c
  PROVE  Spec => []ActiveDistinct
<1>1. Init => ActiveDistinct /\ EnqueueKnows
  BY DEF Init, ActiveDistinct, EnqueueKnows, Queued, Running, Idle
<1>2. DispatchInv /\ ActiveDistinct /\ EnqueueKnows /\ [Next]_vars
        => ActiveDistinct' /\ EnqueueKnows'
  <2> SUFFICES ASSUME DispatchInv, ActiveDistinct, EnqueueKnows, [Next]_vars
               PROVE  ActiveDistinct' /\ EnqueueKnows'
    OBVIOUS
  <2>1. TypeOK /\ RowsCreated
    BY DEF DispatchInv, Structure
  <2>2. CASE Lifetime \/ Dispatch \/ \E w \in Goroutines : Work(w)
    BY <2>1, <2>2, SchedulerDistinct
  <2>3. ASSUME NEW a \in Admins, Admin(a)
        PROVE  ActiveDistinct' /\ EnqueueKnows'
    BY <2>1, <2>3, AdminDistinct
  <2>4. CASE Terminated \/ UNCHANGED vars
    BY <2>4 DEF Terminated, vars, table, ActiveDistinct, EnqueueKnows, Active,
                Queued, Running
  <2> QED BY <2>2, <2>3, <2>4 DEF Next
<1> QED BY <1>1, <1>2, DispatchInvariant, PTL DEF Spec
=============================================================================
