------------------------------- MODULE Writers --------------------------------
(***************************************************************************)
(* The writers that keep records in memory, and the end of the process     *)
(* that has to save them: ErrorLog, Conversation and ClientStats over one  *)
(* Lifecycle.  A step of the shutdown sequence leaves all of them alone; a *)
(* step of one leaves the others alone.                                    *)
(***************************************************************************)
EXTENDS ErrorLog, Conversation, ClientStats

vars == <<lcVars, elVars, cvVars, csVars>>

Init == LcInit /\ ElInit /\ CvInit /\ CsInit

Next ==
    \/ Signal /\ UNCHANGED <<elVars, cvVars, csVars>>
    \/ HookTimesOut /\ UNCHANGED <<elVars, cvVars, csVars>>
    \/ ServerDrained /\ UNCHANGED <<elVars, cvVars, csVars>>
    \/ ServerForced /\ UNCHANGED <<elVars, cvVars, csVars>>
    \/ StopTasks /\ UNCHANGED <<elVars, cvVars, csVars>>
    \/ TasksStopped /\ UNCHANGED <<elVars, cvVars, csVars>>
    \/ CloseDatabase /\ UNCHANGED <<elVars, cvVars, csVars>>
    \/ \E t \in Tasks : Tick(t) /\ UNCHANGED <<elVars, cvVars, csVars>>
    \/ \E t \in Tasks : TickerStops(t) /\ UNCHANGED <<elVars, cvVars, csVars>>
    \/ \E h \in Handlers : Serve(h) /\ UNCHANGED <<elVars, cvVars, csVars>>
    \/ \E h \in Handlers : EnqueueCapture(h) /\ UNCHANGED <<cvVars, csVars>>
    \/ \E h \in Handlers : EnqueueSend(h) /\ UNCHANGED <<cvVars, csVars>>
    \/ WriterTakes /\ UNCHANGED <<cvVars, csVars>>
    \/ WriterTick /\ UNCHANGED <<cvVars, csVars>>
    \/ WriterStops /\ UNCHANGED <<cvVars, csVars>>
    \/ WriterInserts /\ UNCHANGED <<cvVars, csVars>>
    \/ FlushStarts /\ UNCHANGED <<cvVars, csVars>>
    \/ FlushDrains /\ UNCHANGED <<cvVars, csVars>>
    \/ FlushInserts /\ UNCHANGED <<cvVars, csVars>>
    \/ FlushGivesUp /\ UNCHANGED <<cvVars, csVars>>
    \/ ErrorLogHookEnds /\ UNCHANGED <<cvVars, csVars>>
    \/ CleanExpired /\ UNCHANGED <<cvVars, csVars>>
    \/ DeleteAll /\ UNCHANGED <<cvVars, csVars>>
    \/ SweepCounts /\ UNCHANGED <<cvVars, csVars>>
    \/ SweepCutoff /\ UNCHANGED <<cvVars, csVars>>
    \/ SweepDeletes /\ UNCHANGED <<cvVars, csVars>>
    \/ Midnight /\ UNCHANGED <<elVars, csVars>>
    \/ \E h \in Handlers : Capture(h) /\ UNCHANGED <<elVars, csVars>>
    \/ TakeBatch /\ UNCHANGED <<elVars, csVars>>
    \/ BatchWritten /\ UNCHANGED <<elVars, csVars>>
    \/ BatchFails /\ UNCHANGED <<elVars, csVars>>
    \/ OpenFails /\ UNCHANGED <<elVars, csVars>>
    \/ Housekeep /\ UNCHANGED <<elVars, csVars>>
    \/ Publish /\ UNCHANGED <<elVars, csVars>>
    \/ RemoveSource /\ UNCHANGED <<elVars, csVars>>
    \/ Cleanup /\ UNCHANGED <<elVars, csVars>>
    \/ WriterEnds /\ UNCHANGED <<elVars, csVars>>
    \/ HookStopsWriter /\ UNCHANGED <<elVars, csVars>>
    \/ PanelStopsWriter /\ UNCHANGED <<elVars, csVars>>
    \/ CloserGivesUp /\ UNCHANGED <<elVars, csVars>>
    \/ HookFlushes /\ UNCHANGED <<elVars, csVars>>
    \/ PanelClears /\ UNCHANGED <<elVars, csVars>>
    \/ ConversationHookEnds /\ UNCHANGED <<elVars, csVars>>
    \/ \E h \in Handlers : Track(h) /\ UNCHANGED <<elVars, cvVars>>
    \/ TaskCopies /\ UNCHANGED <<elVars, cvVars>>
    \/ TaskWrites /\ UNCHANGED <<elVars, cvVars>>
    \/ HookCopies /\ UNCHANGED <<elVars, cvVars>>
    \/ HookWrites /\ UNCHANGED <<elVars, cvVars>>
    \/ ClientStatsHookEnds /\ UNCHANGED <<elVars, cvVars>>
    \/ LoadReads /\ UNCHANGED <<elVars, cvVars>>
    \/ LoadMerges /\ UNCHANGED <<elVars, cvVars>>

Spec == Init /\ [][Next]_vars

\* A process that exits after all its hooks ended in time has saved what its writers held:
\* no order of enqueues, batches, ticks, flushes and hooks leaves an entry in a queue, a
\* record on the list or a count that only the cache knows (cmd/start.go:86).  For the archive
\* that excepts a write that failed, a last flush without room on the disk or without a file,
\* and a hook that panicked as it closed a stop channel the panel had closed before it.
QuietExitSavesAll == ErrorsSaved /\ ConversationsSaved /\ StatsSaved
=============================================================================
