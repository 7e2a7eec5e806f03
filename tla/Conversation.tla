----------------------------- MODULE Conversation -----------------------------
(***************************************************************************)
(* The conversation archive of internal/op/conversation.go: the report of  *)
(* every finished request is put on a bounded list, a writer goroutine     *)
(* appends it to the file of the day, compresses the file of the day       *)
(* before and deletes old archives; the shutdown hook and the panel's      *)
(* "clear" stop the writer.  A record is the request it is about: it costs *)
(* two units of the budget until its messages are extracted, one after.    *)
(***************************************************************************)
EXTENDS Lifecycle, SequencesExt

CONSTANTS
    PendingMaxBytes,  \* ConversationPendingMaxBytes
    RetentionDays,    \* conversationRetentionDays
    DirMaxRecords,    \* conversationDirMaxBytes, in records
    MaxDay,           \* bound: days that begin
    MaxFaults,        \* bound: writes that fail on a healthy file
    MaxClears         \* bound: uses of the panel's "clear"

ASSUME ConversationAssumption ==
    /\ PendingMaxBytes \in Nat /\ PendingMaxBytes >= 2
    /\ RetentionDays \in Nat \ {0} /\ DirMaxRecords \in Nat \ {0}
    /\ MaxDay \in Nat \ {0} /\ MaxFaults \in Nat /\ MaxClears \in Nat

VARIABLES
    day,        \* today
    pending,    \* conversationPending
    bytes,      \* conversationBytes
    slim,       \* records whose messages were extracted
    inflight,   \* the batch flushed without the lock, with the bytes it was counted for
    plain,      \* per day: the records in its .jsonl
    gz,         \* per day: the records in its .jsonl.gz
    file,       \* conversationFile: open, the inode deleted under it, its bufio.Writer failed
    curDay,     \* conversationDay, 0 for ""
    compactDay, \* conversationCompactDay, 0 for ""
    archivist,  \* conversationWriterLoop: "idle", "io", "keeping", "compacting",
                \* "published", "dead"
    source,     \* the day under compaction
    stopped,    \* conversationStop is closed
    closer,     \* who holds conversationFlushMu: "none", "hook", "panel"
    hookDone,   \* FlushConversations has returned
    jammed,     \* a panic has left conversationMu locked
    denied,     \* history: the last flush under the lock had no room on the disk, or no file
    faults, clears,
    gone        \* history: the records that left, by reason

cvVars == <<day, pending, bytes, slim, inflight, plain, gz, file, curDay, compactDay, archivist,
            source, stopped, closer, hookDone, jammed, denied, faults, clears, gone>>

Days == 1..MaxDay
NoBatch == [records |-> <<>>, held |-> 0]
Closed == [open |-> FALSE, unlinked |-> FALSE, broken |-> FALSE]
Reasons == {"discarded", "evicted", "refused", "deleted", "unlinked"}

\* Two for each record, less one for each that was extracted.
CostOf(s) == 2 * Len(s) - Cardinality({i \in DOMAIN s : s[i] \in slim})
Alive == archivist # "dead"

CvInit ==
    /\ day = 1 /\ pending = <<>> /\ bytes = 0 /\ slim = {} /\ inflight = NoBatch
    /\ plain = [d \in Days |-> <<>>] /\ gz = [d \in Days |-> <<>>]
    /\ file = Closed /\ curDay = 0 /\ compactDay = 0
    /\ archivist = "idle" /\ source = 0 /\ stopped = FALSE
    /\ closer = "none" /\ hookDone = FALSE /\ jammed = FALSE /\ denied = FALSE
    /\ faults = 0 /\ clears = 0
    /\ gone = [r \in Reasons |-> {}]

Midnight ==
    /\ Up /\ watched = "conversations" /\ day < MaxDay
    /\ day' = day + 1
    /\ UNCHANGED <<lcVars, pending, bytes, slim, inflight, plain, gz, file, curDay, compactDay,
                   archivist, source, stopped, closer, hookDone, jammed, denied, faults, clears,
                   gone>>

-----------------------------------------------------------------------------
(* CaptureConversation. *)

\* How many of the oldest records are evicted so that a new one fits.
Evictions(cost) ==
    LET Left(n) == bytes - CostOf(SubSeq(pending, 1, n))
    IN CHOOSE n \in 0..Len(pending) :
          /\ n = Len(pending) \/ Left(n) + cost <= PendingMaxBytes
          /\ \A m \in 0..(n - 1) : Left(m) + cost > PendingMaxBytes

\* With the lock held by nobody who will ever release it the request waits for ever.  Else
\* the record is discarded, since the archive is switched off or the record is larger than
\* the whole budget; refused, since there is no writer; or put on the list.
Capture(h) ==
    /\ Up
    /\ watched = "conversations"
    /\ handler[h] = "serving"
    /\ ~jammed
    /\ handler' = [handler EXCEPT ![h] = "ended"]
    /\ \/ /\ gone' = [gone EXCEPT !["discarded"] = @ \cup {h}]
          /\ UNCHANGED <<pending, bytes>>
       \/ /\ ~Alive
          /\ gone' = [gone EXCEPT !["refused"] = @ \cup {h}]
          /\ UNCHANGED <<pending, bytes>>
       \/ /\ Alive
          /\ LET n == Evictions(2)
                 out == SubSeq(pending, 1, n)
             IN /\ pending' = Append(SubSeq(pending, n + 1, Len(pending)), h)
                /\ bytes' = bytes - CostOf(out) + 2
                /\ gone' = [gone EXCEPT !["evicted"] = @ \cup ToSet(out)]
    /\ UNCHANGED <<watched, panel, hook, late, cancelled, loop, run, db, day, slim, inflight,
                   plain, gz, file, curDay, compactDay, archivist, source, stopped, closer,
                   hookDone, jammed, denied, faults, clears>>

-----------------------------------------------------------------------------
(* Files. *)

\* ensureConversationFileLocked: a new day closes the file, whatever state its writer is in,
\* and registers the day before.
Opened == IF file.open /\ curDay = day THEN file ELSE [Closed EXCEPT !.open = TRUE]
Registered == IF curDay \notin {0, day} THEN curDay ELSE compactDay

\* Records are appended to the file of day d, or to a file that has lost its name.
Written(f, d, records) ==
    /\ ~f.broken
    /\ plain' = IF f.unlinked THEN plain ELSE [plain EXCEPT ![d] = @ \o records]
    /\ gone' = IF f.unlinked THEN [gone EXCEPT !["unlinked"] = @ \cup ToSet(records)] ELSE gone
    /\ slim' = slim \cup ToSet(records)
    /\ UNCHANGED faults

\* A write or the flush fails: a prefix may have reached the file; the bufio.Writer keeps
\* its error and refuses everything from then on.
Failed(f, d, records) ==
    /\ f.broken \/ faults < MaxFaults
    /\ faults' = IF f.broken THEN faults ELSE faults + 1
    /\ \E k \in 0..(IF f.broken THEN 0 ELSE Len(records) - 1) :
          /\ plain' = IF f.unlinked THEN plain
                      ELSE [plain EXCEPT ![d] = @ \o SubSeq(records, 1, k)]
          /\ slim' = slim \cup ToSet(SubSeq(records, 1, k + 1))
    /\ UNCHANGED gone

\* The disk is below its watermark, or the file of today cannot be opened, which the day
\* before may have been registered for by then: no write is tried, and the list stays.
Denied ==
    /\ pending # <<>>
    /\ compactDay' \in {compactDay, Registered}
    /\ denied' = TRUE
    /\ UNCHANGED <<pending, bytes, slim, plain, curDay, faults, gone>>

\* flushConversationLocked and closeConversationFileLocked, all of it under the lock.  What
\* was extracted by an earlier attempt is subtracted at its smaller cost.
FlushAndClose ==
    /\ file' = Closed
    /\ \/ /\ pending = <<>>
          /\ denied' = FALSE
          /\ UNCHANGED <<pending, bytes, slim, plain, curDay, compactDay, faults, gone>>
       \/ /\ pending # <<>>
          /\ curDay' = day /\ compactDay' = Registered /\ denied' = FALSE
          /\ \/ /\ Written(Opened, day, pending)
                /\ bytes' = IF bytes > CostOf(pending) THEN bytes - CostOf(pending) ELSE 0
                /\ pending' = <<>>
             \/ Failed(Opened, day, pending) /\ UNCHANGED <<pending, bytes>>
       \/ Denied

-----------------------------------------------------------------------------
(* The writer goroutine. *)

\* Mutated: the counter is not reset with the list.
TakeBatchUncounted ==
    /\ Up /\ ~jammed
    /\ archivist = "idle"
    /\ pending # <<>>
    /\ file' = Opened
    /\ curDay' = day
    /\ compactDay' = Registered
    /\ inflight' = [records |-> pending, held |-> bytes]
    /\ pending' = <<>>
    /\ UNCHANGED bytes
    /\ archivist' = "io"
    /\ UNCHANGED <<lcVars, day, slim, plain, gz, source, stopped, closer, hookDone, jammed,
                   denied, faults, clears, gone>>

\* conversationFlushBatch, first phase: the whole list is taken under the lock.
TakeBatch ==
    /\ Up /\ ~jammed
    /\ archivist = "idle"
    /\ pending # <<>>
    /\ file' = Opened
    /\ curDay' = day
    /\ compactDay' = Registered
    /\ inflight' = [records |-> pending, held |-> bytes]
    /\ pending' = <<>>
    /\ bytes' = 0
    /\ archivist' = "io"
    /\ UNCHANGED <<lcVars, day, slim, plain, gz, source, stopped, closer, hookDone, jammed,
                   denied, faults, clears, gone>>

\* Second and third phase.  Midnight may have passed: the batch goes to the file it was
\* given.
BatchWritten ==
    /\ Up /\ ~jammed
    /\ archivist = "io"
    /\ Written(file, curDay, inflight.records)
    /\ inflight' = NoBatch
    /\ archivist' = "keeping"
    /\ UNCHANGED <<lcVars, day, pending, bytes, gz, file, curDay, compactDay, source, stopped,
                   closer, hookDone, jammed, denied, clears>>

\* Mutated: what was captured meanwhile is overwritten by the batch.
BatchFailsForgets ==
    /\ Up /\ ~jammed
    /\ archivist = "io"
    /\ Failed(file, curDay, inflight.records)
    /\ file' = [file EXCEPT !.broken = TRUE]
    /\ pending' = inflight.records
    /\ bytes' = bytes + inflight.held
    /\ inflight' = NoBatch
    /\ archivist' = "keeping"
    /\ UNCHANGED <<lcVars, day, gz, curDay, compactDay, source, stopped, closer, hookDone, jammed,
                   denied, clears>>

\* The batch goes back in front of what was captured meanwhile, with the bytes it had.
BatchFails ==
    /\ Up /\ ~jammed
    /\ archivist = "io"
    /\ Failed(file, curDay, inflight.records)
    /\ file' = [file EXCEPT !.broken = TRUE]
    /\ pending' = inflight.records \o pending
    /\ bytes' = bytes + inflight.held
    /\ inflight' = NoBatch
    /\ archivist' = "keeping"
    /\ UNCHANGED <<lcVars, day, gz, curDay, compactDay, source, stopped, closer, hookDone, jammed,
                   denied, clears>>

\* The file of today cannot be opened: the batch stays on the list.
OpenFails ==
    /\ Up /\ ~jammed
    /\ archivist = "idle"
    /\ pending # <<>>
    /\ ~(file.open /\ curDay = day)
    /\ file' = Closed
    /\ compactDay' \in {compactDay, Registered}
    /\ archivist' = "keeping"
    /\ UNCHANGED <<lcVars, day, pending, bytes, slim, inflight, plain, gz, curDay, source, stopped,
                   closer, hookDone, jammed, denied, faults, clears, gone>>

\* runConversationHousekeeping takes the day to compress; nothing to write, or no room on
\* the disk, leads here as well.
Housekeep ==
    /\ Up /\ ~jammed
    /\ watched = "conversations"
    /\ archivist \in {"idle", "keeping"}
    /\ source' = compactDay
    /\ compactDay' = 0
    /\ archivist' = "compacting"
    /\ UNCHANGED <<lcVars, day, pending, bytes, slim, inflight, plain, gz, file, curDay, stopped,
                   closer, hookDone, jammed, denied, faults, clears, gone>>

\* compactYesterday: the temporary file is complete and verified, and gets its name.
Publish ==
    /\ Up
    /\ archivist = "compacting"
    /\ source # 0
    /\ plain[source] # <<>>
    /\ gz' = [gz EXCEPT ![source] = IF @ = <<>> THEN plain[source] ELSE @]
    /\ archivist' = "published"
    /\ UNCHANGED <<lcVars, day, pending, bytes, slim, inflight, plain, file, curDay, compactDay,
                   source, stopped, closer, hookDone, jammed, denied, faults, clears, gone>>

\* Only then is the .jsonl removed.
RemoveSource ==
    /\ Up
    /\ archivist = "published"
    /\ plain' = [plain EXCEPT ![source] = <<>>]
    /\ source' = 0
    /\ archivist' = "compacting"
    /\ UNCHANGED <<lcVars, day, pending, bytes, slim, inflight, gz, file, curDay, compactDay,
                   stopped, closer, hookDone, jammed, denied, faults, clears, gone>>

\* cleanupConversations, after the compaction or after its failure: first what has reached the
\* age of the retention, then one archive after the other until the directory is in its
\* budget.  They go in the order of their last change, which is left open: it is not that of
\* the days, since an archive is compressed after the next day's file was begun.  That file
\* is an archive like the others, although it is open.
Cleanup ==
    /\ Up /\ ~jammed
    /\ archivist = "compacting"
    /\ LET Total(days) == MapThenSumSet(LAMBDA d : Len(plain[d]) + Len(gz[d]), days)
           left == {d \in Days : day < d + RetentionDays}
       IN \E kept \in SUBSET left :
             /\ Total(kept) <= DirMaxRecords
             /\ kept = left \/ \E last \in left \ kept : Total(kept \cup {last}) > DirMaxRecords
             /\ plain' = [d \in Days |-> IF d \in kept THEN plain[d] ELSE <<>>]
             /\ gz' = [d \in Days |-> IF d \in kept THEN gz[d] ELSE <<>>]
             /\ file' = [file EXCEPT !.unlinked = @ \/ (file.open /\ curDay \notin kept)]
             /\ gone' = [gone EXCEPT !["deleted"] =
                            @ \cup UNION {ToSet(plain[d]) \cup ToSet(gz[d]) : d \in Days \ kept}]
    /\ source' = 0
    /\ archivist' = "idle"
    /\ UNCHANGED <<lcVars, day, pending, bytes, slim, inflight, curDay, compactDay, stopped,
                   closer, hookDone, jammed, denied, faults, clears>>

\* On stop, in a turn of its select, it writes what is pending and ends.
WriterEnds ==
    /\ Up /\ ~jammed
    /\ archivist = "idle"
    /\ stopped
    /\ FlushAndClose
    /\ archivist' = "dead"
    /\ UNCHANGED <<lcVars, day, inflight, gz, source, stopped, closer, hookDone, jammed, clears>>

-----------------------------------------------------------------------------
(* FlushConversations, the hook, and ClearConversationArchives, the panel.  Both hold     *)
(* conversationFlushMu, so one of them is at work at a time.                              *)

\* The stop channel of a writer that is still alive is closed: once by the first call, and
\* again by a call after one whose context ended, which panics and leaves the mutex locked.
StopWriter(who) ==
    /\ ~jammed
    /\ closer = "none"
    /\ IF Alive /\ stopped
          THEN /\ jammed' = TRUE
               /\ hookDone' = (hookDone \/ who = "hook")
               /\ UNCHANGED <<stopped, closer>>
          ELSE /\ stopped' = TRUE
               /\ closer' = who
               /\ UNCHANGED <<jammed, hookDone>>
    /\ UNCHANGED <<watched, handler, hook, late, cancelled, loop, run, db, day, pending, bytes,
                   slim, inflight, plain, gz, file, curDay,
                   compactDay, archivist, source, denied, faults, gone>>

HookStopsWriter ==
    /\ Begun("conversations")
    /\ watched = "conversations"
    /\ ~hookDone
    /\ StopWriter("hook")
    /\ UNCHANGED <<panel, clears>>

PanelStopsWriter ==
    /\ hook = 0
    /\ watched = "conversations"
    /\ clears < MaxClears
    /\ clears' = clears + 1
    /\ StopWriter("panel")
    /\ panel' = ~jammed'

\* The context of the call ends first: of the hook, or of the browser's request.
CloserGivesUp ==
    /\ Up
    /\ closer # "none"
    /\ Alive
    /\ IF closer = "hook"
          THEN /\ Cardinality(late) < MaxLate
               /\ late' = late \cup {"conversations"} /\ hookDone' = TRUE
               /\ UNCHANGED panel
          ELSE panel' = FALSE /\ UNCHANGED <<late, hookDone>>
    /\ closer' = "none"
    /\ UNCHANGED <<watched, handler, hook, cancelled, loop, run, db, day, pending, bytes, slim,
                   inflight, plain, gz, file, curDay, compactDay, archivist, source, stopped,
                   jammed, denied, faults, clears, gone>>

HookFlushes ==
    /\ Up /\ ~jammed
    /\ closer = "hook"
    /\ ~Alive
    /\ FlushAndClose
    /\ closer' = "none"
    /\ hookDone' = TRUE
    /\ UNCHANGED <<lcVars, day, inflight, gz, archivist, source, stopped, jammed, clears>>

\* What is pending is written, if it can be, and every archive is removed.  Nothing starts
\* the writer again.
PanelClears ==
    /\ Up /\ ~jammed
    /\ closer = "panel"
    /\ ~Alive
    /\ LET archived == UNION {ToSet(plain[d]) \cup ToSet(gz[d]) : d \in Days}
       IN \/ /\ gone' = [gone EXCEPT !["deleted"] = @ \cup archived \cup ToSet(pending)]
             /\ pending' = <<>>
             /\ bytes' = IF bytes > CostOf(pending) THEN bytes - CostOf(pending) ELSE 0
             /\ slim' = slim \cup ToSet(pending)
             /\ denied' = FALSE
             /\ UNCHANGED faults
          \/ /\ pending # <<>> /\ faults < MaxFaults
             /\ faults' = faults + 1
             /\ gone' = [gone EXCEPT !["deleted"] = @ \cup archived]
             /\ slim' = slim \cup ToSet(pending)
             /\ denied' = FALSE
             /\ UNCHANGED <<pending, bytes>>
          \/ /\ pending # <<>>
             /\ gone' = [gone EXCEPT !["deleted"] = @ \cup archived]
             /\ denied' = TRUE
             /\ UNCHANGED <<pending, bytes, slim, faults>>
    /\ plain' = [d \in Days |-> <<>>]
    /\ gz' = [d \in Days |-> <<>>]
    /\ file' = Closed /\ curDay' = 0 /\ compactDay' = 0
    /\ closer' = "none" /\ panel' = FALSE
    /\ UNCHANGED <<watched, handler, hook, late, cancelled, loop, run, db, day, inflight,
                   archivist, source, stopped, hookDone, jammed, clears>>

ConversationHookEnds ==
    /\ Ends("conversations")
    /\ hookDone \/ watched # "conversations"
    /\ UNCHANGED <<watched, handler, panel, late, cancelled, loop, run, db, cvVars>>

-----------------------------------------------------------------------------
(* Properties. *)

Archived == UNION {ToSet(plain[d]) \cup ToSet(gz[d]) : d \in Days}

\* A captured record is on the list, in the batch or in an archive unless it was discarded,
\* evicted, refused, deleted with its archive, or written to a file deleted under the writer; as
\* long as no write fails it is at one of these places only, and in one archive but for
\* the moment between the two steps of a compaction.
RecordsAccounted ==
    LET left == UNION {gone[r] : r \in Reasons}
        held == ToSet(pending) \cup ToSet(inflight.records)
        copies(h) == Cardinality({d \in Days : h \in ToSet(plain[d])})
                     + Cardinality({d \in Days : h \in ToSet(gz[d])})
        ended == {h \in Handlers : handler[h] = "ended"}
    IN watched = "conversations" =>
         /\ ended = held \cup Archived \cup left
         /\ ToSet(pending) \cap ToSet(inflight.records) = {}
         /\ faults = 0 =>
              /\ held \cap (Archived \cup left) = {} /\ Archived \cap left = {}
              /\ \A h \in Archived : copies(h) = 1 \/ (copies(h) = 2 /\ archivist = "published")

\* The counter of the budget is the cost of the list and stays below the budget, as long as
\* no write fails: a batch that is put back may exceed it.
BudgetHeld == faults = 0 => bytes = CostOf(pending) /\ bytes <= PendingMaxBytes

\* When the process exits in time nothing is left in memory, unless a write failed, the last
\* flush had no room on the disk or no file to write to, or the hook has panicked: it closes
\* the writer's stop channel a second time when a clear of the panel gave up waiting.
ConversationsSaved ==
    Exited /\ late = {} /\ faults = 0 /\ ~denied /\ ~jammed =>
        pending = <<>> /\ inflight = NoBatch

\* Records are refused only while the process shuts down: after a clear the next record
\* opens a new file (conversation.go:652).
RefusedOnlyAtShutdown == gone["refused"] # {} => hook > 0
=============================================================================
