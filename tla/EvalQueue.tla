------------------------------ MODULE EvalQueue ------------------------------
(***************************************************************************)
(* The queue of evaluations (internal/op/model_eval_queue.go), its         *)
(* scheduler (internal/eval/scheduler.go) and the panel's calls on it      *)
(* (internal/server/handlers/model_eval_queue.go), over restarts of the    *)
(* process.                                                                *)
(*                                                                         *)
(* The rows of the table survive a restart; the dispatch loop, the worker  *)
(* goroutines and the calls in progress do not.  An action is one SQL      *)
(* statement or transaction, or one step of a goroutine.  Databases with   *)
(* the isolation of MySQL and Postgres are meant: a row may change between *)
(* the SELECT and the UPDATE of PopNext.  An evaluation and its result are *)
(* data; only that it ends, and how the row is marked, is kept.            *)
(***************************************************************************)
EXTENDS Integers, FiniteSets, Sequences

CONSTANTS
    MaxTasks,        \* bound: rows ever created
    Targets,         \* models of channels, what a row is about
    NoTarget,        \* what an id without a row is about
    EvalConcurrency, \* EvalConcurrency
    Goroutines,      \* names for worker goroutines
    NoTask,          \* the job of a goroutine that has none
    Admins,          \* calls of the panel in progress at the same time
    Enqueuers,       \* those that may be calls to enqueue
    Batches,         \* sequences of targets such a call asks for
    MaxEnds          \* bound: times the process ends

Tasks == 1 .. MaxTasks

ASSUME BoundsAssumption == 
    MaxTasks \in Nat /\ MaxEnds \in Nat /\ EvalConcurrency \in Nat \ {0}
ASSUME NamesAssumption ==
    /\ NoTask \notin Tasks
    /\ NoTarget \notin Targets
    /\ Enqueuers \subseteq Admins
    /\ IsFiniteSet(Goroutines)
ASSUME BatchesAssumption == Batches \subseteq Seq(Targets)

VARIABLES
    status,    \* Status of each row, "none" when there is no row
    target,    \* ChannelID and ModelName
    position,  \* Position
    created,   \* rows ever created: their ids are 1 .. created
    phase,     \* life of the process and of Stop
    running,   \* Scheduler.running
    notified,  \* Scheduler.notify holds a token
    loop,      \* where the dispatch loop is
    selected,  \* the tasks PopNext has read, not yet handed to a worker
    job,       \* the task of each goroutine
    stage,     \* where it is
    call,      \* the panel's calls
    stranded,  \* history: running tasks whose worker or pop ended in an error
    ends       \* times the process has ended

table == <<status, target, position, created>>
scheduler == <<running, notified, loop, selected>>
workers == <<job, stage>>
process == <<phase, ends>>
vars == <<table, process, scheduler, workers, call, stranded>>

Idle == [step |-> "idle"]
Notifying == [step |-> "notify"]

Models == Targets \cup {NoTarget}

Calls ==
    {Idle, Notifying}
    \cup [step : {"max"}, batch : Batches, active : SUBSET Models]
    \cup [step : {"create"}, batch : Batches, active : SUBSET Models, base : Nat]
    \cup [step : {"list"}, task : Tasks, from : Nat]
    \cup [step : {"swap"}, task : Tasks, from : Nat, other : Tasks, to : Nat]
    \cup [step : {"stop"}, task : Tasks]

TypeOK ==
    /\ status \in [Tasks -> {"none", "queued", "running", "done", "stopped"}]
    /\ target \in [Tasks -> Models]
    /\ position \in [Tasks -> Nat]
    /\ created \in 0 .. MaxTasks
    /\ phase \in {"down", "up", "stopping", "draining", "closed"}
    /\ running \in Nat
    /\ notified \in BOOLEAN
    /\ loop \in {"off", "dispatch", "update", "spawn", "wait", "exited"}
    /\ selected \in SUBSET Tasks
    /\ job \in [Goroutines -> Tasks \cup {NoTask}]
    /\ stage \in [Goroutines -> {"idle", "evaluating", "notify", "leave"}]
    /\ call \in [Admins -> Calls]
    /\ stranded \in SUBSET Tasks
    /\ ends \in 0 .. MaxEnds

Init ==
    /\ status = [t \in Tasks |-> "none"]
    /\ target = [t \in Tasks |-> NoTarget]
    /\ position = [t \in Tasks |-> 0]
    /\ created = 0
    /\ phase = "down"
    /\ running = 0
    /\ notified = FALSE
    /\ loop = "off"
    /\ selected = {}
    /\ job = [w \in Goroutines |-> NoTask]
    /\ stage = [w \in Goroutines |-> "idle"]
    /\ call = [a \in Admins |-> Idle]
    /\ stranded = {}
    /\ ends = 0

-----------------------------------------------------------------------------
(* What the queries select.                                                *)

Rows == {t \in Tasks : status[t] # "none"}
Queued == {t \in Tasks : status[t] = "queued"}
Running == {t \in Tasks : status[t] = "running"}

\* ORDER BY position, id
Before(t, u) ==
    \/ position[t] < position[u]
    \/ position[t] = position[u] /\ t < u

FirstOf(S, n) == {t \in S : Cardinality({u \in S : Before(u, t)}) < n}

\* Mutated: only what is waiting counts as a duplicate.
ActiveWaiting == {target[t] : t \in Queued}

Active == {target[t] : t \in Queued \cup Running}

SetStatus(t, s) ==
    status' = [status EXCEPT ![t] = IF @ = "none" THEN @ ELSE s]

-----------------------------------------------------------------------------
(* Start, Stop and the end of the process.                                 *)

\* Mutated: what was running when the process ended is left running.
StartUnreset ==
    /\ phase = "down" /\ ends < MaxEnds
    /\ phase' = "up"
    /\ loop' = "dispatch"
    /\ UNCHANGED <<table, ends, running, notified, selected, workers, call, stranded>>

\* Start puts back what was running when the process ended.  The last process
\* the bound allows is not followed by another.
Start ==
    /\ phase = "down" /\ ends < MaxEnds
    /\ status' = [t \in Tasks |->
                     IF status[t] = "running" THEN "queued" ELSE status[t]]
    /\ phase' = "up"
    /\ loop' = "dispatch"
    /\ UNCHANGED <<target, position, created, ends, running, notified,
                   selected, workers, call, stranded>>

BeginStop ==
    /\ phase = "up"
    /\ phase' = "stopping"
    /\ UNCHANGED <<table, ends, scheduler, workers, call, stranded>>

\* Mutated: the loop is not waited for.
StopSkipsLoop ==
    /\ phase = "stopping"
    /\ phase' = "draining"
    /\ UNCHANGED <<table, ends, scheduler, workers, call, stranded>>

\* loopWG.Wait, and then workerWG.Wait
StopAwaitsLoop ==
    /\ phase = "stopping" /\ loop = "exited"
    /\ phase' = "draining"
    /\ UNCHANGED <<table, ends, scheduler, workers, call, stranded>>

StopAwaitsWorkers ==
    /\ phase = "draining"
    /\ \A w \in Goroutines : stage[w] = "idle"
    /\ phase' = "closed"
    /\ UNCHANGED <<table, ends, scheduler, workers, call, stranded>>

\* An exit after Stop, an exit after a hook that timed out, or a crash.
ProcessEnds ==
    /\ phase # "down"
    /\ phase' = "down"
    /\ ends' = ends + 1
    /\ running' = 0
    /\ notified' = FALSE
    /\ loop' = "off"
    /\ selected' = {}
    /\ job' = [w \in Goroutines |-> NoTask]
    /\ stage' = [w \in Goroutines |-> "idle"]
    /\ call' = [a \in Admins |-> Idle]
    /\ stranded' = {}
    /\ UNCHANGED table

-----------------------------------------------------------------------------
(* The dispatch loop.                                                      *)

Loop(place) ==
    loop = place /\ UNCHANGED <<target, position, created, process, call>>

\* Mutated: the workers at work are not counted.
NeedUncounted == EvalConcurrency

Need == EvalConcurrency - running

\* Stopped, no slot, no task, or an error of the database.
DispatchNothing ==
    /\ Loop("dispatch")
    /\ loop' = "wait"
    /\ UNCHANGED <<status, running, notified, selected, workers, stranded>>

\* Mutated: what runs is selected again.
SelectUnfinished ==
    /\ Loop("dispatch")
    /\ phase = "up" /\ Need > 0 /\ Queued # {}
    /\ selected' = FirstOf(Queued \cup Running, Need)
    /\ loop' = "update"
    /\ UNCHANGED <<status, running, notified, workers, stranded>>

SelectTasks ==
    /\ Loop("dispatch")
    /\ phase = "up" /\ Need > 0 /\ Queued # {}
    /\ selected' = FirstOf(Queued, Need)
    /\ loop' = "update"
    /\ UNCHANGED <<status, running, notified, workers, stranded>>

\* Mutated: the status is not looked at again.
PopAnyway ==
    /\ Loop("update")
    /\ status' = [t \in Tasks |->
                     IF t \in selected \cap Rows THEN "running" ELSE status[t]]
    /\ loop' = "spawn"
    /\ UNCHANGED <<running, notified, selected, workers, stranded>>

\* Of the tasks selected, those still queued become running; all of them are
\* returned.
PopTasks ==
    /\ Loop("update")
    /\ status' = [t \in Tasks |->
                     IF t \in selected \cap Queued THEN "running" ELSE status[t]]
    /\ loop' = "spawn"
    /\ UNCHANGED <<running, notified, selected, workers, stranded>>

\* The transaction fails.  When it is the answer to the commit that is lost,
\* the tasks are running and nobody runs them.
PopFails ==
    /\ Loop("update")
    /\ \/ UNCHANGED <<status, stranded>>
       \/ /\ status' = [t \in Tasks |->
                           IF t \in selected \cap Queued THEN "running" ELSE status[t]]
          /\ stranded' = stranded \cup (selected \cap Queued)
    /\ selected' = {}
    /\ loop' = "wait"
    /\ UNCHANGED <<running, notified, workers>>

Spawn(w, t) ==
    /\ Loop("spawn")
    /\ t \in selected /\ stage[w] = "idle"
    /\ job' = [job EXCEPT ![w] = t]
    /\ stage' = [stage EXCEPT ![w] = "evaluating"]
    /\ running' = running + 1
    /\ selected' = selected \ {t}
    /\ UNCHANGED <<status, notified, loop, stranded>>

SpawnedAll ==
    /\ Loop("spawn")
    /\ selected = {}
    /\ loop' = "wait"
    /\ UNCHANGED <<status, running, notified, selected, workers, stranded>>

\* Mutated: the loop has no ticker.
WakeOnToken ==
    /\ Loop("wait")
    /\ notified
    /\ notified' = FALSE
    /\ loop' = "dispatch"
    /\ UNCHANGED <<status, running, selected, workers, stranded>>

\* A token or the ticker wakes the loop.
Wake ==
    /\ Loop("wait")
    /\ notified' \in {FALSE, notified}
    /\ loop' = "dispatch"
    /\ UNCHANGED <<status, running, selected, workers, stranded>>

LoopExits ==
    /\ Loop("wait")
    /\ phase \notin {"down", "up"}
    /\ loop' = "exited"
    /\ UNCHANGED <<status, running, notified, selected, workers, stranded>>

-----------------------------------------------------------------------------
(* A worker.                                                               *)

Worker(w, place) ==
    /\ stage[w] = place
    /\ UNCHANGED <<target, position, created, process, loop, selected, call>>

\* The evaluation ends, at the latest by its timeout, and the row is marked
\* whatever its status is by now.
FinishTask(w) ==
    /\ Worker(w, "evaluating")
    /\ SetStatus(job[w], "done")
    /\ job' = [job EXCEPT ![w] = NoTask]
    /\ stage' = [stage EXCEPT ![w] = "notify"]
    /\ UNCHANGED <<running, notified, stranded>>

\* Mutated: a panic skips the deferred calls.
AbandonUndeferred(w) ==
    /\ Worker(w, "evaluating")
    /\ stranded' = stranded \cup {job[w]}
    /\ job' = [job EXCEPT ![w] = NoTask]
    /\ stage' = [stage EXCEPT ![w] = "lost"]
    /\ UNCHANGED <<status, running, notified>>

\* The worker panics, or the row cannot be marked: it stays as it is.
AbandonTask(w) ==
    /\ Worker(w, "evaluating")
    /\ stranded' = stranded \cup {job[w]}
    /\ job' = [job EXCEPT ![w] = NoTask]
    /\ stage' = [stage EXCEPT ![w] = "notify"]
    /\ UNCHANGED <<status, running, notified>>

NotifyLoop(w) ==
    /\ Worker(w, "notify")
    /\ notified' = TRUE
    /\ stage' = [stage EXCEPT ![w] = "leave"]
    /\ UNCHANGED <<status, running, job, stranded>>

\* The slot is given back after the loop has been notified; workerWG.Done, just
\* before it, is part of the same step.
Leave(w) ==
    /\ Worker(w, "leave")
    /\ running' = running - 1
    /\ stage' = [stage EXCEPT ![w] = "idle"]
    /\ UNCHANGED <<status, notified, job, stranded>>

-----------------------------------------------------------------------------
(* Calls of the panel.                                                     *)

Call(a, step) ==
    call[a].step = step /\ UNCHANGED <<process, running, loop, selected, workers, stranded>>

Begins(a) == phase = "up" /\ Call(a, "idle")

SetCall(a, c) == call' = [call EXCEPT ![a] = c]

\* ModelEvalQueueEnqueue reads the active tasks, then the last position, then
\* inserts what is new in the batch.
Enqueue(a, batch) ==
    /\ a \in Enqueuers
    /\ Begins(a)
    /\ SetCall(a, [step |-> "max", batch |-> batch, active |-> Active])
    /\ UNCHANGED <<table, notified>>

ReadLastPosition(a) ==
    /\ Call(a, "max")
    /\ \E p \in {0} \cup {position[t] + 1 : t \in Rows} :
          /\ \A t \in Rows : position[t] < p
          /\ SetCall(a, [step |-> "create", batch |-> call[a].batch,
                         active |-> call[a].active, base |-> p])
    /\ UNCHANGED <<table, notified>>

\* The entries of the batch that are kept: the first of each new target.
Kept(batch, active) ==
    {i \in DOMAIN batch :
        batch[i] \notin active /\ \A j \in 1 .. i - 1 : batch[j] # batch[i]}

InOrder(K) ==
    {f \in [1 .. Cardinality(K) -> K] :
        \A i, j \in 1 .. Cardinality(K) : i < j => f[i] < f[j]}

CreateTasks(a) ==
    LET c == call[a]
        K == Kept(c.batch, c.active)
        new == (created + 1) .. (created + Cardinality(K))
    IN  /\ Call(a, "create")
        /\ created + Cardinality(K) <= MaxTasks
        /\ \E f \in InOrder(K) :
              /\ target' = [t \in Tasks |->
                               IF t \in new THEN c.batch[f[t - created]] ELSE target[t]]
              /\ position' = [t \in Tasks |->
                                 IF t \in new THEN c.base + t - created - 1 ELSE position[t]]
        /\ status' = [t \in Tasks |-> IF t \in new THEN "queued" ELSE status[t]]
        /\ created' = created + Cardinality(K)
        /\ SetCall(a, Notifying)
        /\ UNCHANGED notified

\* ModelEvalQueueMoveUp reads the task, then the queue, then exchanges the
\* positions it has read.
MoveUp(a, t) ==
    /\ Begins(a)
    /\ status[t] = "queued"
    /\ SetCall(a, [step |-> "list", task |-> t, from |-> position[t]])
    /\ UNCHANGED <<table, notified>>

FindNeighbor(a, u) ==
    LET t == call[a].task
    IN  /\ Call(a, "list")
        /\ {t, u} \subseteq Queued
        /\ Before(u, t)
        /\ \A v \in Queued : Before(v, t) => v = u \/ Before(v, u)
        /\ SetCall(a, [step |-> "swap", task |-> t, from |-> call[a].from,
                       other |-> u, to |-> position[u]])
        /\ UNCHANGED <<table, notified>>

SwapPositions(a) ==
    LET c == call[a]
    IN  /\ Call(a, "swap")
        /\ position' = [t \in Tasks |->
                           IF t \notin Rows THEN position[t]
                           ELSE IF t = c.other THEN c.from
                           ELSE IF t = c.task THEN c.to ELSE position[t]]
        /\ SetCall(a, Notifying)
        /\ UNCHANGED <<status, target, created, notified>>

\* ModelEvalQueueStop reads the task and then updates it by its id alone.
Stop(a, t) ==
    /\ Begins(a)
    /\ status[t] = "queued"
    /\ SetCall(a, [step |-> "stop", task |-> t])
    /\ UNCHANGED <<table, notified>>

MarkStopped(a) ==
    /\ Call(a, "stop")
    /\ SetStatus(call[a].task, "stopped")
    /\ SetCall(a, Notifying)
    /\ UNCHANGED <<target, position, created, notified>>

Clear(a) ==
    /\ Begins(a)
    /\ status' = [t \in Tasks |-> IF t \in Queued THEN "none" ELSE status[t]]
    /\ target' = [t \in Tasks |-> IF t \in Queued THEN NoTarget ELSE target[t]]
    /\ position' = [t \in Tasks |-> IF t \in Queued THEN 0 ELSE position[t]]
    /\ SetCall(a, Notifying)
    /\ UNCHANGED <<created, notified>>

Notify(a) ==
    /\ Call(a, "notify")
    /\ notified' = TRUE
    /\ SetCall(a, Idle)
    /\ UNCHANGED table

\* A call ends with an error: of the database, of a check, or of its client.
FailCall(a) ==
    /\ call[a] # Idle
    /\ Call(a, call[a].step)
    /\ SetCall(a, Idle)
    /\ UNCHANGED <<table, notified>>

-----------------------------------------------------------------------------
Dispatch ==
    \/ DispatchNothing \/ SelectTasks \/ PopTasks \/ PopFails
    \/ \E w \in Goroutines, t \in Tasks : Spawn(w, t)
    \/ SpawnedAll \/ Wake \/ LoopExits

Work(w) == FinishTask(w) \/ AbandonTask(w) \/ NotifyLoop(w) \/ Leave(w)

Admin(a) ==
    \/ \E batch \in Batches : Enqueue(a, batch)
    \/ ReadLastPosition(a) \/ CreateTasks(a)
    \/ \E t \in Tasks : MoveUp(a, t) \/ FindNeighbor(a, t) \/ Stop(a, t)
    \/ SwapPositions(a) \/ MarkStopped(a) \/ Clear(a)
    \/ Notify(a) \/ FailCall(a)

Lifetime ==
    Start \/ BeginStop \/ StopAwaitsLoop \/ StopAwaitsWorkers \/ ProcessEnds

\* The bound on processes is used up.
Terminated == phase = "down" /\ ends = MaxEnds /\ UNCHANGED vars

Next ==
    \/ Lifetime \/ Dispatch
    \/ \E w \in Goroutines : Work(w)
    \/ \E a \in Admins : Admin(a)
    \/ Terminated

Spec == Init /\ [][Next]_vars

\* Goroutines run, the ticker ticks, an evaluation has its timeout; the
\* database does not fail for ever, and a select with several ready cases
\* takes each of them in turn.
Fairness ==
    /\ WF_vars(Wake)
    /\ WF_vars(SpawnedAll)
    /\ WF_vars(\E w \in Goroutines, t \in Tasks : Spawn(w, t))
    /\ WF_vars(loop = "dispatch" /\ Dispatch)
    /\ SF_vars(SelectTasks)
    /\ WF_vars(loop = "update" /\ Dispatch)
    /\ SF_vars(PopTasks)
    /\ SF_vars(LoopExits)
    /\ \A w \in Goroutines : WF_vars(Work(w))
    /\ WF_vars(StopAwaitsLoop)
    /\ WF_vars(StopAwaitsWorkers)

FairSpec == Spec /\ Fairness

-----------------------------------------------------------------------------
(* Safety.                                                                 *)

Evaluating == {w \in Goroutines : stage[w] = "evaluating"}
AtWork == {w \in Goroutines : stage[w] # "idle"}

\* No two goroutines evaluate one task at the same time, whatever the panel
\* stops, moves or clears between the SELECT and the UPDATE of a pop, and
\* none evaluates a task the loop is about to hand out.
OneWorkerPerTask ==
    /\ \A v, w \in Evaluating : job[v] = job[w] => v = w
    /\ loop = "spawn" => \A w \in Evaluating : job[w] \notin selected

\* running counts the goroutines exactly, and there are never more of them
\* than EvalConcurrency: no pop asks for more than the slots that are free.
WorkersBounded ==
    /\ running = Cardinality(AtWork)
    /\ running <= EvalConcurrency

\* A row that says running has a goroutine, or is about to get one, or its
\* worker or its pop met an error in this process: after a restart none is
\* left over.
RunningOwned ==
    \A t \in Running :
        \/ phase = "down"
        \/ t \in stranded
        \/ loop = "spawn" /\ t \in selected
        \/ \E w \in Evaluating : job[w] = t

\* When Stop has returned nothing of the scheduler is left that could still
\* touch the table, which is about to be closed.
StopDrains == phase = "closed" => loop = "exited" /\ AtWork = {}

\* As long as one call to enqueue is in progress at a time, no two active rows
\* are about the same model, over restarts, stops and pops in between.
ActiveDistinct ==
    \A t, u \in Queued \cup Running : target[t] = target[u] => t = u

\* A task that is done, stopped or cleared is never active again, although a
\* pop may have selected it before.
FinishedStaysFinished ==
    [][\A t \in Tasks :
        t <= created /\ status[t] \in {"done", "stopped", "none"}
            => status'[t] \in {"done", "stopped", "none"}]_vars

-----------------------------------------------------------------------------
(* Liveness.                                                               *)

\* A queued task is taken from the queue as long as the process is up, however
\* the panel reorders the queue and although a worker notifies the loop before
\* it gives its slot back.
QueuedDispatched ==
    \A t \in Tasks : status[t] = "queued" ~> status[t] # "queued" \/ phase # "up"

\* Stop returns: no worker that panics or fails keeps it waiting.
StopReturns == phase = "stopping" ~> phase \in {"closed", "down"}
=============================================================================
