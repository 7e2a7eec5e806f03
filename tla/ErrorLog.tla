------------------------------- MODULE ErrorLog -------------------------------
(***************************************************************************)
(* The error log of internal/op/error_log.go: requests that fail put an    *)
(* entry on a bounded queue, a writer goroutine inserts them in batches,   *)
(* the shutdown hook stops the writer and inserts what is left, and three  *)
(* sweeps delete old rows.  An entry is the request it is about; redaction *)
(* and truncation of its text are left out.                                *)
(***************************************************************************)
EXTENDS Lifecycle, SequencesExt

CONSTANTS
    QueueCapacity,   \* errorLogQueueCapacity
    FlushThreshold,  \* errorLogFlushThreshold
    MaxRows,         \* the setting error_retention_max_count; 0 keeps all rows
    Keep             \* rows of one class that the sweep keeps

ASSUME ErrorLogAssumption ==
    /\ QueueCapacity \in Nat \ {0} /\ FlushThreshold \in Nat \ {0}
    /\ MaxRows \in Nat /\ Keep \in Nat \ {0}

VARIABLES
    born,       \* the entries in the order of their created_at
    queues,     \* errorLogQueue and the queues it replaced, oldest first
    writer,     \* "none", "waiting" in its select, "inserting", "leaving", "dead"
    stopping,   \* errorLogStop of the present writer is closed
    batch,      \* the batch of the writer
    sender,     \* per request: the queue ErrorLogEnqueue captured under the lock, or 0
    flush,      \* FlushErrorLogQueue: "off", "waiting", "inserting", "done"
    target,     \* the queue it captured
    rest,       \* the entries it drained
    rows,       \* the table error_logs, from ids to entries
    stored,     \* history: entries that were inserted
    failed,     \* history: entries of a batch that could not be inserted
    dropped,    \* errorLogDropped, as the set of the entries
    sweep       \* the goroutine of ErrorLogDedupPerClass

elVars == <<born, queues, writer, stopping, batch, sender, flush, target, rest, rows,
            stored, failed, dropped, sweep>>

Quiet == [pc |-> "off", cutoff |-> 0]
Age(e) == CHOOSE i \in 1..Len(born) : born[i] = e

ElInit ==
    /\ born = <<>> /\ queues = <<>> /\ writer = "none" /\ stopping = FALSE
    /\ batch = <<>> /\ sender = [h \in Handlers |-> 0]
    /\ flush = "off" /\ target = 0 /\ rest = <<>>
    /\ rows = <<>> /\ stored = {} /\ failed = {} /\ dropped = {}
    /\ sweep = Quiet

-----------------------------------------------------------------------------
(* ErrorLogEnqueue. *)

\* Under the lock: a dead writer is replaced, with a queue and channels of its own.
EnqueueCapture(h) ==
    /\ Up
    /\ watched = "errors"
    /\ handler[h] = "serving"
    /\ handler' = [handler EXCEPT ![h] = "sending"]
    /\ born' = Append(born, h)
    /\ IF writer \in {"none", "dead"}
          THEN queues' = Append(queues, <<>>) /\ writer' = "waiting" /\ stopping' = FALSE
          ELSE UNCHANGED <<queues, writer, stopping>>
    /\ sender' = [sender EXCEPT ![h] = Len(queues')]
    /\ UNCHANGED <<watched, panel, hook, late, cancelled, loop, run, db, batch, flush, target, rest,
                   rows, stored, failed, dropped, sweep>>

\* ErrorLogDedupPerClass: the throttle of one minute per class may refuse.
AskSweep ==
    \/ UNCHANGED sweep
    \/ sweep = Quiet /\ sweep' = [Quiet EXCEPT !.pc = "count"]

\* Outside the lock: a full queue drops the entry.  recordErrorLog then asks for a sweep.
EnqueueSend(h) ==
    /\ Up
    /\ handler[h] = "sending"
    /\ handler' = [handler EXCEPT ![h] = "ended"]
    /\ IF Len(queues[sender[h]]) < QueueCapacity
          THEN queues' = [queues EXCEPT ![sender[h]] = Append(@, h)] /\ UNCHANGED dropped
          ELSE dropped' = dropped \cup {h} /\ UNCHANGED queues
    /\ AskSweep
    /\ UNCHANGED <<watched, panel, hook, late, cancelled, loop, run, db, born, writer, stopping,
                   batch, sender, flush, target, rest, rows, stored, failed>>

-----------------------------------------------------------------------------
(* errorLogWriterLoop, which reads the present queue and stop channel. *)

WriterTakes ==
    /\ Up
    /\ writer = "waiting"
    /\ Last(queues) # <<>>
    /\ batch' = Append(batch, Head(Last(queues)))
    /\ queues' = [queues EXCEPT ![Len(queues)] = Tail(@)]
    /\ writer' = IF Len(batch') >= FlushThreshold THEN "inserting" ELSE "waiting"
    /\ UNCHANGED <<lcVars, born, stopping, sender, flush, target, rest, rows, stored, failed,
                   dropped, sweep>>

WriterTick ==
    /\ Up
    /\ writer = "waiting"
    /\ batch # <<>>
    /\ writer' = "inserting"
    /\ UNCHANGED <<lcVars, born, queues, stopping, batch, sender, flush, target, rest, rows,
                   stored, failed, dropped, sweep>>

\* On stop it drains the queue, inserts for the last time and closes errorLogDone.
WriterStops ==
    /\ Up
    /\ writer = "waiting"
    /\ stopping
    /\ batch' = batch \o Last(queues)
    /\ queues' = [queues EXCEPT ![Len(queues)] = <<>>]
    /\ writer' = "leaving"
    /\ UNCHANGED <<lcVars, born, stopping, sender, flush, target, rest, rows, stored, failed,
                   dropped, sweep>>

\* Ids are given in order and never again.
WithRows(table, entries) ==
    LET last == Cardinality(stored)
    IN [id \in DOMAIN table \cup (last + 1)..(last + Len(entries)) |->
           IF id \in DOMAIN table THEN table[id] ELSE entries[id - last]]

\* One transaction for the batch; when it fails the batch is given up.
Insert(entries) ==
    \/ /\ HookMayWrite
       /\ rows' = WithRows(rows, entries)
       /\ stored' = stored \cup ToSet(entries)
       /\ UNCHANGED failed
    \/ /\ entries # <<>>
       /\ failed' = failed \cup ToSet(entries)
       /\ UNCHANGED <<rows, stored>>

\* Mutated: the batch is not emptied after an insert.
WriterInsertsTwice ==
    /\ Up
    /\ writer \in {"inserting", "leaving"}
    /\ IF batch = <<>> THEN UNCHANGED <<rows, stored, failed>> ELSE Insert(batch)
    /\ batch' = IF writer = "leaving" THEN <<>> ELSE batch
    /\ writer' = IF writer = "leaving" THEN "dead" ELSE "waiting"
    /\ UNCHANGED <<lcVars, born, queues, stopping, sender, flush, target, rest, dropped, sweep>>

WriterInserts ==
    /\ Up
    /\ writer \in {"inserting", "leaving"}
    /\ IF batch = <<>> THEN UNCHANGED <<rows, stored, failed>> ELSE Insert(batch)
    /\ batch' = <<>>
    /\ writer' = IF writer = "leaving" THEN "dead" ELSE "waiting"
    /\ UNCHANGED <<lcVars, born, queues, stopping, sender, flush, target, rest, dropped, sweep>>

-----------------------------------------------------------------------------
(* FlushErrorLogQueue, the hook. *)

\* The rows with the MaxRows greatest ids are kept.
Trim(table) ==
    IF MaxRows = 0 THEN table
    ELSE RestrictDomain(table, LAMBDA id : Cardinality({i \in DOMAIN table : i > id}) < MaxRows)

FlushStarts ==
    /\ Begun("error_log")
    /\ flush = "off"
    /\ target' = Len(queues)
    /\ IF queues = <<>>
          THEN flush' = "done" /\ UNCHANGED stopping
          ELSE flush' = "waiting" /\ stopping' = (stopping \/ writer # "dead")
    /\ UNCHANGED <<lcVars, born, queues, writer, batch, sender, rest, rows, stored, failed,
                   dropped, sweep>>

\* Mutated: the hook does not wait for the writer.
FlushDrainsAtOnce ==
    /\ Up
    /\ flush = "waiting"
    /\ rest' = queues[target]
    /\ queues' = [queues EXCEPT ![target] = <<>>]
    /\ flush' = IF rest' = <<>> THEN "done" ELSE "inserting"
    /\ UNCHANGED <<lcVars, born, writer, stopping, batch, sender, target, rows, stored, failed,
                   dropped, sweep>>

\* The writer it stopped has closed its done channel, though another may have been started.
FlushDrains ==
    /\ Up
    /\ flush = "waiting"
    /\ writer = "dead" \/ target < Len(queues)
    /\ rest' = queues[target]
    /\ queues' = [queues EXCEPT ![target] = <<>>]
    /\ flush' = IF rest' = <<>> THEN "done" ELSE "inserting"
    /\ UNCHANGED <<lcVars, born, writer, stopping, batch, sender, target, rows, stored, failed,
                   dropped, sweep>>

FlushInserts ==
    /\ Up
    /\ flush = "inserting"
    /\ \/ HookMayWrite /\ rows' \in {WithRows(rows, rest), Trim(WithRows(rows, rest))}
          /\ stored' = stored \cup ToSet(rest) /\ UNCHANGED failed
       \/ failed' = failed \cup ToSet(rest) /\ UNCHANGED <<rows, stored>>
    /\ rest' = <<>>
    /\ flush' = "done"
    /\ UNCHANGED <<lcVars, born, queues, writer, stopping, batch, sender, target, dropped, sweep>>

\* Its context ends before the writer does.
FlushGivesUp ==
    /\ Up
    /\ flush = "waiting"
    /\ Cardinality(late) < MaxLate
    /\ flush' = "done"
    /\ late' = late \cup {"error_log"}
    /\ UNCHANGED <<watched, handler, panel, hook, cancelled, loop, run, db, born, queues, writer,
                   stopping, batch, sender, target, rest, rows, stored, failed, dropped, sweep>>

ErrorLogHookEnds ==
    /\ Ends("error_log")
    /\ flush = "done"
    /\ UNCHANGED <<watched, handler, panel, late, cancelled, loop, run, db, elVars>>

-----------------------------------------------------------------------------
(* What deletes rows. *)

\* The daily task: rows older than the retention, then the oldest above the maximum.
CleanExpired ==
    /\ Up
    /\ run["clean_error_logs"] = "running"
    /\ run' = [run EXCEPT !["clean_error_logs"] = "idle"]
    /\ \/ /\ TaskMayWrite
          /\ \E expired \in 0..Len(born) :
                LET young == RestrictValues(rows, LAMBDA e : Age(e) > expired)
                IN rows' \in {young, Trim(young)}
       \/ UNCHANGED rows
    /\ UNCHANGED <<watched, handler, panel, hook, late, cancelled, loop, db, born, queues, writer,
                   stopping, batch, sender, flush, target, rest, stored, failed, dropped, sweep>>

\* The panel's "clear".
DeleteAll ==
    /\ hook = 0
    /\ rows # <<>>
    /\ rows' = <<>>
    /\ UNCHANGED <<lcVars, born, queues, writer, stopping, batch, sender, flush, target, rest,
                   stored, failed, dropped, sweep>>

\* ErrorLogDedupPerClass: three statements with nothing that holds them together.
SweepCounts ==
    /\ Up
    /\ sweep.pc = "count"
    /\ sweep' = IF HookMayWrite /\ Cardinality(DOMAIN rows) > Keep
                   THEN [sweep EXCEPT !.pc = "cutoff"] ELSE Quiet
    /\ UNCHANGED <<lcVars, born, queues, writer, stopping, batch, sender, flush, target, rest,
                   rows, stored, failed, dropped>>

\* The created_at of the Keep-th newest row, if there still is one.
SweepCutoff ==
    /\ Up
    /\ sweep.pc = "cutoff"
    /\ LET Newer(e) == {f \in Range(rows) : Age(f) >= Age(e)}
           nth == {e \in Range(rows) : Cardinality(Newer(e)) = Keep}
       IN sweep' = IF HookMayWrite /\ nth # {}
                      THEN [pc |-> "delete", cutoff |-> Age(CHOOSE e \in nth : TRUE)]
                      ELSE Quiet
    /\ UNCHANGED <<lcVars, born, queues, writer, stopping, batch, sender, flush, target, rest,
                   rows, stored, failed, dropped>>

\* Mutated: the row at the cutoff goes too.
SweepDeletesCutoff ==
    /\ Up
    /\ sweep.pc = "delete"
    /\ rows' = IF HookMayWrite
                  THEN RestrictValues(rows, LAMBDA e : Age(e) > sweep.cutoff) ELSE rows
    /\ sweep' = Quiet
    /\ UNCHANGED <<lcVars, born, queues, writer, stopping, batch, sender, flush, target, rest,
                   stored, failed, dropped>>

SweepDeletes ==
    /\ Up
    /\ sweep.pc = "delete"
    /\ rows' = IF HookMayWrite
                  THEN RestrictValues(rows, LAMBDA e : Age(e) >= sweep.cutoff) ELSE rows
    /\ sweep' = Quiet
    /\ UNCHANGED <<lcVars, born, queues, writer, stopping, batch, sender, flush, target, rest,
                   stored, failed, dropped>>

-----------------------------------------------------------------------------
(* Properties. *)

\* An entry that was put on a queue is at one place: it waits in a queue, a batch or the
\* hands of the hook, or it was inserted or given up with its batch, once.  (The queue
\* captured before the lock was released may be one the writer has left.)
ErrorEntriesAccounted ==
    LET Queued == UNION {ToSet(queues[q]) : q \in DOMAIN queues}
        places == <<Queued, ToSet(batch), ToSet(rest), stored, failed, dropped>>
        sent == {h \in Handlers : sender[h] # 0 /\ handler[h] = "ended"}
    IN /\ sent = UNION {places[i] : i \in DOMAIN places}
       /\ \A i, j \in DOMAIN places : i # j => places[i] \cap places[j] = {}
       /\ IsInjective(rows) /\ Range(rows) \subseteq stored

\* When the process exits in time, no entry is left in memory.
ErrorsSaved ==
    Exited /\ late = {} =>
        \A h \in Handlers : sender[h] # 0 => h \in stored \cup failed \cup dropped

\* The sweep of a class deletes an entry only if enough newer ones were stored,
\* whatever is inserted or deleted between the statements of the sweep.
SweepKeepsNewest ==
    [][SweepDeletes => \A e \in Range(rows) \ Range(rows') :
                          Cardinality({f \in stored : Age(f) > Age(e)}) >= Keep]_rows
=============================================================================
