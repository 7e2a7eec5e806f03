# Formal models of NovaVeil

NovaVeil is an LLM gateway: it takes requests in one of several client
protocols, chooses an upstream channel among the members of a *group*, sends
the request there, fails over to other members, and streams the answer back.
This directory holds TLA+ models of it, the TLC configurations that check them
on small instances, and TLAPS proofs of what holds for every instance. Paths
below are relative to `src/internal/` unless they begin with `cmd/`.

## 1. Inventory of the system

| Component | Code | State it keeps | What is hard about it |
|---|---|---|---|
| Group routing | `relay/route.go`, `relay/prober.go`, the loop of `relay/handler.go` | one `RouteState` per group under `routeMu`: current member, candidate, cooldowns, levels, HALF_OPEN claims, strikes, affinity, emergency slots | every request reads it, releases the mutex for a network call, and reports back; probe goroutines, a background task and the panel change it in between |
| Request registry and control | `relay/state.go`, `relay/handler.go`, `relay/upstream.go` | the `requests` map, one `RequestState` per request under `mu`, one `roundLifecycle` per round with its own mutex, the `allStopped` flag | the panel stops, interrupts and clears at any step; a cancel function is called after the unlock; a response must be closed exactly when its round ends |
| Channel concurrency limit | `relay/channellimit.go` | a counter object per channel with a wake generation | lost wakeups, limits that change while slots are held, entries deleted while in use |
| Key selection, rate of a channel's keys | `relay/keyselect.go`, `relay/channellimit.go` | a cursor and a window per channel, cooldowns per key | the time of a permit is read before the lock; cooldowns are looked up and deleted in two steps; the panel wipes it all |
| Streaming | `relay/upstream.go`, `relay/protocol.go` | the window of frames read before the commit | what may still be retried; who closes the answer |
| API key limits | `keylimit`, `server/middleware/auth.go` | counters and windows per key | the key is changed or deleted under its requests |
| Evaluation queue | `eval`, `op/model_eval_queue.go` | tasks in the database, the number of workers | reads and writes in separate statements, restarts |
| Tasks and shutdown | `task`, `utils/shutdown`, `cmd/start.go` | tickers, a WaitGroup, a list of hooks | the order of stops, flushes and close; hooks that time out and run on |
| Error log, conversations, client statistics | `op/error_log.go`, `op/conversation.go`, `op/client_stat.go` | in-memory queues and caches with writers | entries lost between enqueue and exit, batches that fail, stale snapshots |
| Usage statistics | `op/usage_bucket.go` | one row per hour and model | windows cut into points, retention |
| Groups, channels, settings, API keys, backups | `op/group.go`, `op/channel.go`, `op/setting.go`, `op/apikey.go`, `op/backup.go`, `op/cache.go`, `task/sync.go` | tables, and caches beside them that the relay reads | a call checks the cache, writes the table and publishes in three steps; an import replaces what others read |
| Account of the administrator | `op/user.go`, `op/authsecret.go`, `server/auth`, `server/handlers/loginratelimit.go` | a user and a secret in tables and caches, a file with the first password, failed logins | two locks over one secret, crashes between table, cache and file |
| Self update | `update` | the executable, its copies, a marker | crashes and failing renames between any two steps |
| Reference chains and stickiness, masking, reasoning cache, channel tests, evaluation history, migrations, HTTP handlers, web panel | see section 8 | | |

How they interact: an HTTP handler (`Forward`) passes the API key's limits,
registers the request, loops over *select a member* (routing state) → *choose a
key, wait for its rate* → *acquire a channel slot* → *send* → *report* (routing
state), and at its end feeds the error log, the conversation archive, the client
statistics and the usage rows. The panel acts on the registry, on the routing
state and on the tables. The shared state of the relay is in memory and guarded
by mutexes; whatever waits on the network does so with no mutex held. That is
where the interleavings come from, and why an action of the models is **one
critical section with the local steps up to the next one**. Where the state is a
table, an action is one statement or one transaction.

What makes the components correct:

* *Group routing*: a member taken out of service always has someone who will
  conclude about it; the group is never blocked by a candidate nobody confirms;
  backoff and affinity are not corrupted by reports that arrive late.
* *Registry*: a stop reaches whatever the request is doing; no upstream
  response outlives its round; a late cancel does not hit another round; the
  history stays bounded.
* *Limits*: counters count the holders, slots come back on every way out but a
  panic at the wrong moment (section 6), no waiter is forgotten, a rate is never
  exceeded, and a cooldown in force is not removed by who found an older one
  expired.
* *Evaluation queue*: a task has one worker at a time and is not run again after
  it ended, in one process and over restarts; a queued task is started; a stop
  drains.
* *Writers and shutdown*: nothing is lost but what is counted as lost, and an
  exit whose hooks all ended in time has saved everything.
* *Panel data*: the caches follow the tables, references and members point
  somewhere, a deleted API key stays deleted.
* *Account*: revoked tokens stay revoked, a password is changed by one who knew
  it, cache and table agree about it.
* *Self update*: there is always something to start, and a version is given up
  only for one that was verified.
* *Usage*: figures, trend, list and map are of the same rows.

All components, those not modelled too, and the hazards at their lines, are in
`PROJECT.json`.

## 2. Modules

| Module | Models |
|---|---|
| `RouteState` | the record of one group and one operator per function that changes it under `routeMu` |
| `GroupRoute` | requests, probe goroutines, the background task, the administrator and time over one record |
| `RequestControl` | the registry, the lifecycles of rounds, the administrators' calls |
| `SlotPool` | the abstract specification of a limit on concurrency: pools of slots |
| `ChannelLimit` | the counter of one channel, its table entry, its waiters; implements `SlotPool` |
| `EvalQueue` | the table of evaluations, the dispatch loop, its workers, the panel's calls, restarts |
| `Lifecycle` | the signal, the hooks with their timeouts, the tasks' tickers, the requests that feed the writers |
| `ErrorLog`, `Conversation`, `ClientStats` | the three writers, each on top of `Lifecycle` |
| `Writers` | their composition |
| `PanelData` | the tables and caches of the panel, and how a call checks, writes and publishes |
| `Groups`, `Channels`, `Restore` | the calls on groups; on channels, with the synchronisation of models; on settings, API keys and backups |
| `Catalog` | their composition |
| `RateWindow` | the sliding window that two packages keep, as operators |
| `KeyLimits`, `KeyChoice`, `Account`, `SelfUpdate`, `UsageBuckets` | five parts of the process that share no state |
| `Service` | the five over one specification |
| `MC…` | values of the constants for TLC |
| `…_proofs` | theorems and proofs |

### RouteState and GroupRoute

`route` is `routes[group.ID]`. Its fields are those of the Go struct, with
time abstracted away: a cooldown deadline is only compared with *now*, so a
member has no cooldown (`"none"`, CLOSED), one in the future (`"cooling"`) or
one in the past (`"expired"`); time passing is the actions `CooldownExpires`,
`AffinityExpires` and `EmergencyBlockExpires`, at any moment. Levels saturate
at `MaxLevel` since they do nothing but lengthen the next cooldown.
`EmergencyItemID` and `EmergencyActive` of the record are derived from the one
configured member, so that one count is left of them.

A request is in the loop, in a recovery batch (`recoverExpiredItems`, mutex
released), between `pickGroupItem` and `claimEmergencyItem`, between
`allMembersInCooldown` and `ResetGroupCooldown`, in a round, or in a stream.

| Actions | Code |
|---|---|
| `PickBehindCandidate`, `PickAffine`, `PickClosed`, `PickRecovery`, `PickNothing` | the returns of `pickGroupItem`, with the claims the scan makes on its way |
| `RecoveryWon`, `RecoveryLost` | the second half of `recoverExpiredItems` |
| `TakeEmergency`, `NoEmergency` | `claimEmergencyItem` |
| `SeeAllCooling`, `ClearCooldowns`, `WaitForMember` | the branch of the loop that found no member |
| `FailRound`, `Refused`, `SucceedRound`, `RetryRound`, `AbandonRound`, `CancelRound` | what the loop does with the outcome of a round |
| `EndStream`, `FailStream`, `StopStream` | what it does with the outcome of the stream |
| `Panic` | the deferred `recover` |
| `ProbeConcludes` | `runAsyncProbe` |
| `ProbeExpiredItems`, `ResetGroupCooldown`, `ToggleChannel` | background task and panel |

The failure counts of a request saturate when they meet their threshold: from
there on every failure meets it, so nothing is lost. A finished request's
locals are reset, since nobody reads them. Requests start once; a new request
differs from a first one only by the record it finds. What upstream answers is a
free choice among the outcomes the loop tells apart. Left out: manual mode,
sessions, reference chains, edits of the group's members, and the text of errors
(`kind` is the outcome of `isInfrastructureError`).

### RequestControl

The registry with the part of the handler the panel acts on. `life[r][n]` is
the `roundLifecycle` of round `n`: the state of its context, whether it was
stopped, whether a response was attached, and the response. `StopRequest` is
the critical section that sets the mark and captures the cancel function,
followed by `CancelRound` and `HaltRound` (`roundLifecycle.Stop`: first the
context, then the response, under the lifecycle's own mutex) and `CloseStopCh`,
each a step of its own. `captured` keeps the round the captured function
belongs to, so that the model shows which round a late call hits. The end of a
request has the two phases of the code: the status (`markSucceeded`,
`markFailed`, `markCanceled`) and then the trimming of the history (`finish`).
A whole-body response releases its round before the body is written; a stream
when it ends. Which member serves a round is left open.

### SlotPool and ChannelLimit

`acquireChannelConcurrency` split at its unlocks: `LookUp` finds or allocates
the object, `Admit` or `Block` is the critical section of the object, `Retry`
and `TimeOut` are the two branches of the wait. `woken[a]` says that the wake
channel the attempt noted has been closed. `Release` is the idempotent closure;
that it runs once per acquire is the `sync.Once` of the code. `Cleanup` deletes
the entry while holders and waiters keep the object.

`SlotPool` says what any such limit promises: one who holds nothing asks under a
limit, takes a slot of a pool that has fewer holders than that, and gives it back
once. `ChannelLimit` instantiates it with a pool per counter object, whose holders
are the attempts between admission and release, and `ImplementsPool` is the abstract
specification under that mapping. Looking up, waiting, waking, timing out and the
clearing of the table are stutters of it; `LookUp` is an `Ask`, `Admit` a `Take`.
Different objects are different pools because the code lets the table forget an
object whose slots are held.

### EvalQueue

`status`, `target` and `position` are the columns of the table that decide
anything; ids are given in order and never reused. The table survives
`ProcessEnds` (an exit after `Stop`, an exit after a hook that timed out, or a
crash); goroutines, counter and calls do not, and `Start` puts running rows
back.

| Actions | Code |
|---|---|
| `Start`, `BeginStop`, `StopAwaitsLoop`, `StopAwaitsWorkers` | `Scheduler.Start`, and `Stop` at each of its waits |
| `SelectTasks`, `PopTasks`, `PopFails` | the SELECT and the UPDATE of `ModelEvalQueuePopNext`, which MySQL and Postgres let others write between, and its errors |
| `Spawn`, `SpawnedAll`, `Wake`, `LoopExits`, `DispatchNothing` | the rest of `dispatch` and the loop |
| `FinishTask`, `AbandonTask`, `NotifyLoop`, `Leave` | `runWorker` with its deferred calls in their order |
| `Enqueue`, `ReadLastPosition`, `CreateTasks` | the three statements of `ModelEvalQueueEnqueue` |
| `MoveUp`, `FindNeighbor`, `SwapPositions` | the two reads and the transaction of `ModelEvalQueueMoveUp` |
| `Stop`, `MarkStopped`; `Clear`; `Notify`; `FailCall` | the other calls of the panel, and the end they have in common |

`selected` keeps what the pop read: the UPDATE looks at the status again, but all
that was read is handed to workers. `stranded` is a history variable, the
running rows whose pop or worker met an error in this process; only
`RunningOwned` reads it. The evaluation, the record of its result and the final
mark are one step, since nothing here reads the record.

### Lifecycle, ErrorLog, Conversation, ClientStats and Writers

`Lifecycle` is `shutdown.Listen` with the hooks `cmd/start.go` registers, in their
order: drain the server (or force it), stop the tasks, flush the three writers, close
the database. A hook that times out leaves its goroutine at work while the next one
begins (`HookTimesOut`); after the last hook the process exits, whoever is still at
work. A request may be served until the drain has ended, and beyond it if the drain
was forced. The scheduler's hook is `Stop` of `EvalQueue` and touches no writer.

| Actions | Code |
|---|---|
| `EnqueueCapture`, `EnqueueSend` | `ErrorLogEnqueue`: the queue is captured under the lock, the entry sent after it |
| `WriterTakes`, `WriterTick`, `WriterInserts`, `WriterStops` | `errorLogWriterLoop` |
| `FlushStarts`, `FlushDrains`, `FlushInserts`, `FlushGivesUp` | `FlushErrorLogQueue` |
| `SweepCounts`, `SweepCutoff`, `SweepDeletes`, `CleanExpired`, `DeleteAll` | the three statements of `ErrorLogDedupPerClass`, and the other deletions |
| `Capture`, `TakeBatch`, `BatchWritten`, `BatchFails`, `OpenFails` | `CaptureConversation` with its evictions and refusals; `conversationFlushBatch` around its unlock, and its return when the file of today cannot be opened |
| `Housekeep`, `Publish`, `RemoveSource`, `Cleanup`, `Midnight` | the writer's housekeeping: compaction of yesterday's file in two steps, then the retention and the budget of the directory |
| `HookStopsWriter`, `PanelStopsWriter`, `CloserGivesUp`, `HookFlushes`, `PanelClears`, `WriterEnds` | `FlushConversations` and `ClearConversationArchives` |
| `Track`, `TaskCopies`, `TaskWrites`, `HookCopies`, `HookWrites`, `LoadReads`, `LoadMerges` | `TrackClientStat`, `ClientStatFlush` and `ClientStatLoad`, each split where the lock is given back |

A record is the request it is about. Its cost is in units of the budget. Capturing may
discard it, since the archive is switched off or the record alone exceeds the budget;
without a writer it refuses it. `FlushAndClose` is `flushConversationLocked` with the
closing of the file, in its four outcomes: nothing to write, all of it written, a write
that failed, and `Denied`, no room on the disk or no file, when no write is tried. Every
write may fail, `MaxFaults` times; a batch without room on the disk is a step to
`Housekeep`. That a record cannot be encoded is left out. `Cleanup` keeps the days after
`day - RetentionDays`, as the code compares the midnight of a day with this time that
many days ago (`op/conversation.go:765`, `:784`), and then removes archives in any order
until the rest fits: the code sorts them by their last change, which is not the order of
the days. Retention and budgets are fixed in a behaviour, although they are settings. In
one behaviour the requests feed one of the writers (`watched`): the three share nothing
but the sequence of hooks, and that sequence runs in all of them.

### PanelData, Groups, Channels, Restore and Catalog

`PanelData` has the tables (channels, models, groups with their members, settings,
API keys) and the caches (`settingCache`, `channelCache`, `groupCache` with its name
index, `keySnap`). A call is one action per phase: it checks its request against the
caches, writes the tables in one transaction that may fail, and publishes. `Groups`
has create, update, delete, the active member and the replacement of the members by
name; `Channels` has import from text, create, update, enable, delete and the run of
`SyncModelsTask`; `Restore` has settings, API keys under their lock, the export, and
the import with the order in which it reads the caches again.

`suspect` names the caches that two calls wrote at the same time or whose refresh
failed, until a refresh nobody else writes beside: for those the code promises
nothing, and the invariants except them. It also names the references once calls that
check them overlapped, or an import that the cycle check does not cover went through;
section 6 says what can go wrong there.

### Service and its five parts

* `KeyLimits`: `APIKeyAuth` with package `keylimit`. `Authenticate` copies the key,
  `FindCounter` and `TakeSlot` are the two steps of `AcquireConcurrency`, `ReadClock`
  and `TakePermit` those of `AcquireRPMPermit`. `DeleteKey` and `CleanUpKey` are the
  two steps of a deletion: the row, then the counters.
* `KeyChoice`: one channel. `TakeTicket`, `LookAtKey` and `DropExpired` are
  `selectChannelKey` with the lock it gives back between the look-up of a cooldown
  and its deletion; `AskPermit`, `TryPermit`, `WakeUp`, `LeaveWait` are the wait for
  the rate; `OpenSlot` to `CloseAnswer` is the way of an answer, with the exits on
  which the slot has to come back; `RoundPanics` ends the request at any of these steps
  and leaves the slot taken (`kcLeaked`) when no answer was attached yet; `WipeKeys` is
  `CleanupChannelKeyState`.
* `RateWindow`: the window itself, pruned from its front as the code does, whatever
  order the times were appended in.
* `Account`: `Load` to `WriteFirstPassword` is the start; `CheckFirst`, `CheckAgain`,
  `CommitChange`, `PublishChange`, `FinishChange` a change of the password;
  `RotateWrites`, `RotatePublishes` a logout; `LoginChecks` to `IssueToken` a login
  with its limiter. `ProcessEnds` may come between any two of them. Secrets and
  passwords are numbers in the order they were made; hashing and signing are
  identified with what they protect.
* `SelfUpdate`: `BeginUpdate` to `Restart` is `UpdateCore` with the steps of
  `replaceExecutable`; `StartProcess` to `ExecuteOld` is `CheckPendingUpdate` at a
  start; `ServerListens` and `ClearMarker` are the goroutine that verifies a version.
  A supervisor starts what is at the path of the executable.
* `UsageBuckets`: rows are functions of hour and model. The four queries are operators
  (`UsageKPIsByRange`, `UsageTrendPoints`, `UsageTotalsByModelRange`,
  `UsageHeatmapData`); the clock is never read on the hour.

`part` fixes which of the five a behaviour is about. They have no variable in common,
and each property of `Service` speaks of one of them (`SlotsReturned` and
`LimitsHold` of two, as a conjunction), so that a joint behaviour has exactly the
projections that are explored.

## 3. Runs

| Run | Instance | Distinct states | Shows |
|---|---|---|---|
| `GroupRoute` | 2 members, 2 requests that try them in different order, 2 rounds each, failure thresholds 2 (business) and 1 (infrastructure), emergency member with one slot | 188,837, 5 s | claims and candidates always have an owner; affinity has a member; backoff falls only with a restore |
| `GroupRouteLive` | the same with 1 round, and the panel's reset of the group and of channels | 42,024, 19 s | candidates and HALF_OPEN members are resolved, requests leave the loop |
| `RequestControl` | 1 request with a stream, 2 rounds, 2 administrators who stop or interrupt | 147,816, 30 s | responses, stops and rounds, with liveness |
| `RequestHistory` | 2 requests for whole bodies, 1 round, 1 administrator who stops all and clears, `MaxFinished` 1 | 2,107,742, 28 s | coverage of a stop of all, bound of the history |
| `ChannelLimit` | 3 attempts, 2 counter objects, limits 0, 1 and 2, changed and cleared by the panel | 280,848, 29 s | slots, wakeups, the refinement of `SlotPool`, draining |
| `EvalQueue` | 2 rows, 2 models, 2 slots, 2 goroutines, 1 call at a time, 2 lives of the process | 351,325, 6 s | one worker per task, owners of running rows over restarts, drained stops, no duplicates, no second run |
| `EvalQueueLive` | the same with 1 slot and 1 life | 53,443, 15 s | the count of slots; queued tasks are started, a stop returns |
| `Writers` | 3 requests of 2 clients for the statistics, 2 requests for each of the other writers; queue of 1, batches of 2, 1 row kept per class, budget of 2, 2 days of retention, 3 days, 1 fault, 1 clear, 1 reload | 979,470, 14 s | what an exit may lose, the accounts of every entry and record, the budget, totals, the sweep |
| `Catalog` | 3 calls of which 2 overlap, 2 groups, 1 channel with 2 models, 2 API keys, a dump of another installation, depth of references 2 | 620,532, 30 s | caches follow tables; members and references; deleted keys |
| `Service` | 2 requests and 2 rounds for the limits, 2 calls, 3 secrets and 3 passwords for the account, 2 updates with 3 crashes or restarts and 1 failing rename, 2 counted requests for the usage | 787,749, 20 s | slots, rates and cooldowns; tokens and passwords; a program that starts; figures that agree |
| `EmergencyReturn`, `RefusedOnlyAtShutdown` | as small as the counterexample | — | two places where a comment and the code disagree, section 6 |

**Why the bounds are enough.** Two members let one be current while the other cools, is
probed, or serves as the fallback; two requests give every pair of selection, batch,
round and report; two rounds let a request come back after its own report. The emergency
member with one slot is at its limit as soon as one request holds it. The panel's reset
and switch of a channel change the record as other steps also do; they are in the
smaller `GroupRouteLive` (and in the proofs, for every instance). In `RequestControl`
the second round is what a late cancel could hit, and two administrators let a stop and
an interrupt race for the same round; with `MaxFinished = 1` two requests overflow the
history. That several administrators stop all at the same time is left to the proof of
`StopAllCovers`. In `ChannelLimit` three attempts let two be in flight under limit 2
while a third waits under limit 1; the second object is there for those who come after a
clearing, and an object is free again when nobody refers to it. In `EvalQueue` two rows
of one model make a duplicate, and with two slots a pop may meet a worker that is
leaving; the second process meets what the first left. In `Writers` an address that was
evicted and comes back takes three calls, while two entries fill a queue of one, cross
the threshold of a batch and evict each other; three days are today, yesterday's file,
which a retention of two days keeps, and the file of the day before, which it does not.
In `Catalog` two calls that overlap are every pair; the third finds what they left. The
dump has ids and names of its own, a group that is also here, and items whose group it
does not contain. In `Service` the window is two ticks and a time may be read one tick
before it is used; the hours of `UsageBuckets` are on both sides of every edge of the
ranges (a day, thirty days, a year, three years); three secrets are the first and one
after a logout and after a change of the password; two updates and three ends are what a
roll-back after a roll-back takes.

The constants that bound the model and not the code: `MaxRounds` of
`RequestControl` (in `GroupRoute` it is `maxRequestRounds`, a real guard),
`MaxLevel`; `MaxTasks`, `MaxEnds` of `EvalQueue`; `MaxDay`, `MaxFaults`, `MaxClears`,
`MaxReloads`, `MaxLate` of the writers; `MaxCalls`, `MaxOverlap` of `PanelData`;
`MaxTime`, `MaxLag`, `MaxEdits` of `KeyLimits`; `MaxNow`, `MaxTries`, `MaxWipes` of
`KeyChoice`; `MaxSecrets`, `MaxPasswords`, `MaxMishaps` of `Account`; `MaxUpdates`,
`MaxEnds`, `MaxFaults` of `SelfUpdate`; `MaxCounted` of `UsageBuckets`; and the sizes of the
sets.

Symmetry is used in `EvalQueue`, `Service` and `RequestHistory`, whose properties
are of safety; what it permutes differs in name alone. `Writers`, `Catalog` and
`Service` do not check for deadlocks: a behaviour of theirs stops when its bounds are
used up. In the others a model stops only when all its requests, or processes, have
ended, and the check for deadlocks is on.

### Fairness

* `GroupRoute`: weak fairness of a request's own steps and of the conclusion of
  rounds and probes. Every wait of the loop is a timer, every upstream call has
  the member's response timeout (`armRoundTimeout`), every probe has a context
  with a timeout. A stream, once committed, has no overall timeout: its end is
  *not* assumed. Neither is anything of the panel, of the background task or of
  expiring cooldowns.
* `RequestControl`: local steps and timed waits go on, a call of the panel goes
  on once it began; an upstream call and a stream need end only when their
  round has been cut (context ended). This is what makes `CutRoundEnds` and
  `StopHeeded` statements about stops and not about timeouts.
* `ChannelLimit`: runnable goroutines run, and a held slot is released
  (`upstreamResponse.Close` runs on every path, the property `NoOrphanResponse`
  of `RequestControl` and `SlotsReturned` of `Service`), which leaves out the request
  that panics before its answer is attached (section 6). The timeout of the wait is
  not assumed: waiters drain by wakeups alone.
* `EvalQueue`: the loop and the workers run, the ticker ticks, an evaluation has
  its timeout of ten minutes. Strong fairness of `SelectTasks` and `PopTasks`
  says that the database does not fail for ever, and of `LoopExits` that Go's
  `select` chooses among ready cases at random, so that a ticker or a token does
  not keep a cancelled loop alive. Calls of the panel need not end.
* `Writers`, `Catalog`, `Service`: none; their properties are of safety.

Each property of a passing run has a *mutant* in `PROJECT.json`: a plausible bug
of the code, written as an operator beside the correct one (its comment begins
with "Mutated"), under which the property fails.

## 4. Proofs

The theorems hold for all values of the constants that satisfy the named
assumptions, and for sets of any size where no assumption says they are finite.

* `GroupRoute_proofs` first has the lemmas on `RouteState`: every operator maps records
  to records (`Route`), how each changes the candidate and the claims, and that each
  keeps a record *sound*: affinity has a current member, and a level falls only where
  the cooldown goes with it. Then: `TypeCorrect`; `CandidateAlwaysOwned`,
  `HalfOpenAlwaysOwned`; `AffinityAlwaysAnchored`; `LevelFallsWithCooldown`. The
  inductive invariant of the second and third is `Owned`, both ownership invariants
  together over `TypeOK`: neither is inductive alone, since a winner of a recovery
  batch turns a claim into the candidate and a report on a candidate drops its claim.
  The argument per action: a step adds to `halfOpens` only members for which it
  starts a probe, or which it puts in its own batch; it sets `probe` only to the
  member of the round it enters; and a request that leaves a round, or a probe that
  ends, removes its own member from both. `TypeOK` is needed for the counter of probes
  and for the fact that a request in a round has a member. The last two combine the
  lemmas on the operators, action by action.
* `ChannelLimit_proofs`: `TypeCorrect`; `SlotsAlwaysAccounted`, from a lemma on
  the cardinality of the holders when one attempt comes or goes;
  `WakeupNeverLost`; `AdmissionAlwaysBounded`, an action property (no run checks it:
  the refinement contains it); `PoolImplemented`, the refinement
  `Spec => SlotPool`: the first state maps to a first state, each action to a step of
  the pool or a stutter, with `TypeOK` and `SlotsAccounted` as invariants, since what
  the pool compares with the limit is the number of holders and what the code compares
  is its counter. The attempts are assumed to be finitely many.
* `EvalQueue_proofs`: `TypeCorrect`, `OneWorkerAlways`, `WorkersAlwaysBounded`,
  `RunningAlwaysOwned`, `StopAlwaysDrains`, `FinishedAlwaysFinished`. They rest on
  one inductive invariant, `DispatchInv`: a goroutine has a task exactly while it
  evaluates (`Employed`); no two have the same task and none has one the loop
  holds (`TakenApart`); what is held or evaluated is a row that was created and,
  once the UPDATE is done, no longer queued (`TakenStarted`); the loop and the
  process keep their order (`LoopInv`); ids not given out have no row
  (`RowsCreated`); and `running`, with what the loop holds, fits into the slots and
  counts the goroutines (`SlotsCounted`). The last needs lemma `SelectionBounded`:
  the first `n` of a set under `Before` are at most `n`, by an injection into
  `0 .. n-1`. `OneWorkerPerTask` alone is not inductive: a queued task that a worker
  still evaluated could be popped again. `ActiveAlwaysDistinct` assumes that at
  most one call may enqueue; its invariant `EnqueueKnows` says that what a call to
  enqueue read of the active models still covers them when it inserts.
* `RequestControl_proofs`: `TypeCorrect`, over `Typed`, which adds that handlers
  and captured cancel functions are about rounds that exist (`InRounds`, `Aimed`).
  `NoResponseOrphaned`, `StopAlwaysReachesResponse` and `LateStopAlwaysHarmless` come
  from `Fits`: it says of every round, past, current or to come, what its lifecycle
  can be given where its handler is; above all, that a past round has been cut.
  `StopAllAlwaysCovers` from `Covered`, which follows a record from the registration
  to its end and says where it is relative to flag and snapshot.
  `HistoryAlwaysBounded` needs that a trimming finds something to delete: a non-empty
  set of finished records has an oldest (`OldestExists`, the well-foundedness of the
  naturals).
* `Service_proofs`: `SlotsAlwaysReturned`, from an invariant for each of the two limits:
  `KlInv` (the counter of the key is that of the calls that hold it, and a call that has
  found a counter still has that one) and `KcInv` (a panic moves the slot of a round
  without an attached answer to the leaked ones). It assumes finitely many clients
  (`ClientsAssumption`) and rounds (`RoundsAssumption`). `AccountAlwaysSafe`: all five
  conjuncts of `AccountSafe`, the bound on failed logins among them. `UpdateAlwaysSafe`:
  the copies of the program through any number of updates, ends of the process and
  failing renames. Its invariant `SuInv` says, until an update begins on an unverified
  version: a verified one can be started or put back, and for every step of
  `replaceExecutable` which of the paths has it (`UpdateKeeps`); what was ever in use is
  none of the versions to come (`FilesKnown`); a marker is about an executable that is
  not verified, but for the moment after a roll-back, when nothing is left to be put
  back once more (`MarkerJustified`). `LimitsAlwaysHold`: the two rates, and the
  cooldowns that nobody removes while they are in force. A permit is counted at the time
  at which it was given, the record has the time its caller read before the lock;
  `Bounded` relates them: what was given and is no longer on record has left the ticks
  the limit is about, and what is on record lags by `MaxLag` at most. So the permits
  among these ticks are on record, and when one is given the record is shorter than the
  limit (`RecentOnRecord`, `PermitBounded`). `KlRate` and `KcRate` add for every caller
  that its reading is not older than `MaxLag`. The assumptions are those of the code:
  limits are not negative (`SettingsAssumption`, `LimitAssumption`), a cooldown lasts a
  tick at least, and nobody waits for the lock as long as a window (`WindowAssumption`).
* `Account_proofs`: the invariant behind `AccountAlwaysSafe`. `Secrets`: secrets are
  made in order, and one that is not published has signed no token. `Passwords`: at
  most one change is past its second check, under the lock, and cache and table
  agree but for what that change has committed and not published. `FirstFile`: the
  file is named in the table until the password has changed. `FailInv`: the failures
  in the window, with the logins that were let in and have not reported, are at most
  the limit and those let in together.
* `Catalog_proofs`: `CachesAlwaysFollow`, `RevokedKeysAlwaysStayOut` and
  `ReferencesAlwaysHold`. The invariant
  of the first is `CatalogInv`: beside the types (`PanelTyped`) it says that a cache
  that is not suspect has at most one writer, who will leave it as its table is or
  still has to read it (`CachesReady`), and that with the groups the index of their
  names is suspect (`NamesSuspect`), since one refresh writes both. That of the second
  is `KeysInv`: one call at most holds the lock of the API keys; the snapshot is in
  the table until the holder has written, and then what the holder will publish is.
  The third rests on `CatalogInv` and `RefInv`, which says of each call about to write
  groups that what it checked of the caches still *fits* the tables (`Fits`), though
  models were added meanwhile. For the cycles of an update it keeps a set of groups,
  without the group that is written, that references do not leave and that the new
  members lead into (`UpdateFits`); the search for cycles gives that set, because the
  ends of all paths within the limit of depth are such a set when none is longer
  (`PathsClosed`). A table that references into such a set are added to stays without
  cycles (`EdgesInto`). The table holds rows at the start that keep what
  `References` says, ids are positive and requests are sequences
  (`CatalogAssumption`); the code does not repair a table that was wrong before.
* `Writers_proofs`: `QuietExitAlwaysSaves`, `ErrorEntriesAlwaysAccounted`,
  `RecordsAlwaysAccounted`, `BudgetAlwaysHeld`, `TotalsNeverEverFall`,
  `SweepAlwaysKeepsNewest`. They rest on one inductive invariant, `WInv`, with a part
  for the process (`LcInv`) and one for each writer. A writer's part is kept by its
  own actions, one lemma each, and by every step *elsewhere*: one that only moves the
  sequence of hooks forward, and the requests of others (`Elsewhere`).
  * *Error log* (`ErInv`): six places share out the entries sent (`Shares`), where
    the queues are those of every writer that ever lived, since an entry may be sent
    to one that was replaced; a row's id is at most the number of entries stored
    (`RowsFit`), so that none is overwritten; while no hook is late there has been one
    queue, and it is empty once the hook drained it (`ErFlushed`); and the time at
    which the sweep cuts has enough entries after it, inserted or deleted since
    (`ErSweep`).
  * *Archive* (`CvInv`): `CvWhole` is the account with the records a batch shares
    with the list apart; `CvDays` says that a day that is compressed, or will be, is
    before today and before the open file, so that nothing is written to it again, and
    that a day has two files only between the steps of its compaction; `CvHealthy` is
    what holds while no write has failed: the places are disjoint, no record is in two
    days, the records that wait have not been extracted, so that each still costs
    two, and the counter is their cost. Without the last, the subtraction
    of a flush would not end at zero. `CvFlushed` says that once the hook is done
    without a panic the writer is dead, and that the list is empty unless a write failed
    or the last flush was denied.
  * *Statistics* (`CsInv`): the cache is ahead of the table and of every copy; the
    copy the task may still write is ahead of the table until the tasks are
    cancelled, and the hook's copy after that (`CsAhead`): it is the order of the hooks
    that keeps an older copy from being written last.

Only model-checked: `UsageKept` (its sums are folds over functions, and what a fold
gives is an induction over data);
`RefusedOnlyAtShutdown` and the other sentence that is violated; all liveness
(fairness and ENABLED are out of the prover's reach).

## 5. What holds by design of the code

Some facts the models made visible and that a change of the code could easily
break: `ProbeConcludes` checks that the claim is still there, without which a
late probe would restore a member somebody else has reopened; `Nominate` must
drop the claims of all losers in the critical section that sets the candidate;
`Attach` must look at `stopped` under the lifecycle's mutex; `Interrupt` and
`StopRequest` may call the captured function late only because each round has a
lifecycle of its own; `releaseRoundLifecycle` must cancel the context even
after a success; a release must wake *all* waiters, since their limits differ;
`ModelEvalQueuePopNext` must test the status in its UPDATE as well as in its
SELECT; the ticker of the dispatch loop is not an optimisation: a worker
notifies the loop before it lowers the counter, so the loop may use up the token
while the slot still looks taken; `selectChannelKey` must look at the deadline
again before it deletes a cooldown; the release of a slot must keep the counter
object it was taken from, since the table may have another by now; a change of the
password must compare the old one again inside its lock; and the tasks must end
before the last flush of the client statistics, since a copy made earlier would
overwrite a later one.

## 6. Where comments and code disagree

Two violation runs each check one sentence of the code's comments; quotes and lines
are in the findings of `PROJECT.json`.

* `EmergencyReturn`: a round that took an emergency slot and ends without a
  conclusion while its member is HALF_OPEN never gives the slot back; after
  three of them the fallback is closed until a restart.
* `RefusedOnlyAtShutdown`: clearing the conversation archives stops their writer
  for good, and from then on every record is refused as in a shutdown.

More were seen while the models were built and have no run of their own.

*Routing and requests.*
Failures after the commit cool a member without ending its affinity, so that it goes
on serving every new request (`relay/route.go:118` against `relay/handler.go:887`);
the strikes of such failures are cleared by the first chunk of the same stream, so
that with a threshold above one they never add up (`relay/route.go:400` against
`:435`). Two recovery batches may nominate two candidates, the second over the first
(`relay/route.go:370` against `relay/prober.go:18`). An ordinary round on the
emergency member returns another round's slot (`relay/route.go:591`). A round that
took a HALF_OPEN member as the emergency member and ends without a conclusion drops
the claim of the probe in flight, so that the member can be probed twice at once
(`relay/route.go:584` against `relay/prober.go:14`). A request whose masking failed is
never ended in the registry (`relay/handler.go:111`, `:1119`). A stop that lands
between the top of the loop and `startRound` lets one more attempt start
(`relay/state.go:344` against `:314`).

*Limits.*
Clearing the cooldowns of a live channel also replaces its concurrency counter
(`relay/channellimit.go:193`, `relay/keyselect.go:235` against `:67`). Attempts
admitted while a channel was unlimited are not counted afterwards
(`relay/channellimit.go:86` against `:9`), and neither are requests of an API key
(`keylimit`). A rate that is lowered may give a wait of zero or less; a request
that still holds a copy of the key without a rate deletes the window. A shorter
cooldown overwrites a longer one of the same key, since groups differ in
`MemberCooldownSeconds`. A key may be used while it cools: a round that chose it before
goes on, and one that found an older cooldown expired takes the key although another
round has renewed it meanwhile (`relay/keyselect.go:69-74` returns false either way). A
request that panics after it took a slot of a channel and before its answer is attached
never gives it back, since the release is neither deferred nor attached
(`relay/upstream.go:72`, `:450`, `relay/handler.go:452`), against `relay/handler.go:140`,
which counts the slot among what the `recover` releases.

*Evaluation queue* (`op/model_eval_queue.go`).
A stop of a queued evaluation may mark a row that has begun or ended meanwhile (`:199`
against `:187`); two calls to enqueue at the same time may both insert a model (`:31`
against `:24`); a task stopped or cleared between SELECT and UPDATE is evaluated all
the same (`:132` against `:103`); two moves at the same time may leave two rows with
one position, which the order by id then settles (`:175`).

*Writers and shutdown.*
A flush of the conversations whose context ends, followed by a second one, closes the
stop channel twice and panics with the mutex held (`op/conversation.go:34`, `:169` call
it idempotent). `bufio.Writer` keeps its error until the file is reopened, so that the
retries of `:311` and `:325` fail until then; a batch put back after a failure exceeds
the budget (`:120`) and lets the count of bytes drift; the budget of the directory may
remove the file that is open today; a compaction that failed is not tried again. A flush
without room on the disk counts one entry as dropped, however many wait, and keeps them
all on the list (`:275-282`); when it was the last before the exit they are lost. An
error entry captured before the flush and sent after it stays on a queue that nobody
reads; the writer does not trim after a batch as the comment at `op/error_log.go:251`
says. A client that was evicted counts from one again and overwrites its total in the
table. A ticker that fires late adds to the WaitGroup of the tasks after `StopAll` waits
for it (`task/task.go:188`).

*Panel's data.*
The depth of references is measured downwards only (`op/group.go` against
`model/group.go:152`), and two branches that meet again count as a cycle. An import
checks for cycles under the old names and passes over items whose group is not in the
dump, does not measure the depth, and may leave items that point nowhere
(`op/backup.go:233`); a group without a mode becomes manual there and failover
elsewhere. A synchronisation may delete a model that was added by hand while it asked
the upstream, and its items with it. Overlapping calls may leave a deleted group or
its active member in the cache, and a refresh of the settings that overlaps a write
may drop it until the next. `SettingSetInt` does not refresh the random headers.
`RefreshAll` replaces the cache shard by shard.

*Account and update.*
A crash between the creation of the first user and the writing of the file leaves a
password nobody knows (`op/user.go:69-86`). A change of the name hands the cached user
itself to the database layer, so a transaction that fails leaves the new name in the
cache (`op/user.go:211` against `:163`, `:209`). The change of the password and the
logout write the secret under different locks (`:180`), so that the cache and the table
may hold different secrets and a restart may change which tokens are valid; none that
was revoked before is among them. `CheckPendingUpdate` allows two starts where
`maxUpdateRetries` is three (`update/core.go:253`). An update begun while the last one
is not verified yet replaces the copy of the last verified version, and the sleeping
`ClearUpdateMarker` of the first may remove the marker of the second. A crash between
the two renames of `replaceExecutable` leaves no file at the path of the executable,
although a copy exists.

*Usage* (`op/usage_bucket.go`).
The trend of the panel's default range has 121 points of thirty days, twenty days less
than the 3650 days of its figures, against its own comment (`:109`, `:160-163`). The
window of the figures is one hour longer than that of the trend. Ranges other than
that one count rows past the retention until the daily clean-up (`:237`). Errors are
recorded under the client's name of a model, usage under the upstream's
(`relay/handler.go:1095`, `relay/state.go:588`), so that one model has two rows.

## 7. What the properties except

An exception in a property is a place where the code promises less. `CachesFollowTables`
and `ReferencesHold` except what `suspect` names (section 2). `QuietExitSavesAll` is
about processes whose hooks all ended before their timeouts. For the archive it excepts
a write that failed, a last flush that was denied (`denied`: no room on the disk, or no
file), and a hook that panicked (`jammed`): a clear of the panel gave up waiting for the
writer, and the hook closes the stop channel a second time. For the statistics it
excepts a hook whose write failed. `SlotsReturned` counts the requests that panicked
before their answer was attached as holders for ever. `CooldownsKept`, part of
`LimitsHold`, is about the removal of a cooldown, not about who uses the key.
`ErrorEntriesAccounted` and `RecordsAccounted` count what was discarded, refused,
evicted, dropped or given up as such. `BudgetHeld` ends with the first write that fails,
after which a batch is put back. `TotalsNeverFall` excepts clients that were evicted.
`RunningOwned` excepts rows whose pop or worker met an error in this process.
`HistoryBounded` allows one record for each end in progress. `UpdateSafe` ends with an
update that begins on a version not yet verified.

## 8. Not modelled

* *Reference chains and session stickiness* (`relay/route.go`, `relay/sticky.go`): a key per
  session and a record per group on the way would multiply the state of
  `GroupRoute` beyond what a run can cover. Each hop takes the steps of
  `GroupRoute` on a record of its own; that references have no cycle is
  part of `ReferencesHold` of `Catalog`.
* *Manual mode and edits of a group's members under a running request*: the members of
  `GroupRoute` are fixed. The tables and caches of such edits are in `Catalog`.
* *Protocol conversion* (`relay/protocol.go`) and the text of errors: data. The outcomes
  the loop tells apart are free choices.
* *Masking*: rules are regular expressions and the restorer of a stream works on
  characters; its table belongs to one request.
* *Reasoning cache, random headers*: a bounded cache under one mutex, values drawn once
  per request; no step of one actor depends on another's.
* *Channel tests, evaluation runs and their history*: network calls, whose outcomes are
  free choices, and rows that are written once and pruned.
* *Subscribers of the queue's stream and watchers of the panel*: they receive snapshots;
  an older one after a newer one is a hazard listed in `PROJECT.json` that no property
  covers.
* *Validation of single fields, preview of an import, queries, the times of last use of
  API keys*: no state of others depends on them.
* *Migrations*: they run once, in their order, before anything else starts, as SQL.
* *HTTP routing and encoding, the web panel*: the operations behind them belong to the
  components above.
