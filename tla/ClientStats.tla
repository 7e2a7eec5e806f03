----------------------------- MODULE ClientStats ------------------------------
(***************************************************************************)
(* The statistics per client address of internal/op/client_stat.go: a      *)
(* bounded cache counts the calls, a periodic task and the shutdown hook   *)
(* write the totals over the rows of the database, and a reload of the     *)
(* caches fills in what the cache has not.  Dates are left out but for the *)
(* order of the last calls: nothing here is thirty days old.               *)
(***************************************************************************)
EXTENDS Lifecycle, SequencesExt

CONSTANTS
    Addresses,
    AddressOf,      \* the client of each request
    MaxClients,     \* the setting client_stat_max_count; 0 is no limit
    MaxReloads      \* bound: settings imported by the panel

ASSUME ClientStatsAssumption ==
    /\ IsFiniteSet(Addresses)
    /\ AddressOf \in [Handlers -> Addresses]
    /\ MaxClients \in Nat /\ MaxReloads \in Nat

VARIABLES
    counts,     \* clientStatCache: per address the total, 0 when it has no entry
    recent,     \* the addresses of the cache, the one called longest ago first
    totals,     \* the table client_stats, 0 without a row
    snapshot,   \* per caller of ClientStatFlush: the totals it has copied, or None
    wroteHook,  \* the flush of the hook has returned
    loaded,     \* rows read by a reload that has yet to merge them, or None
    reloads,
    failures,   \* history: a flush of the hook could not write
    forgotten   \* history: addresses evicted from the cache

csVars == <<counts, recent, totals, snapshot, wroteHook, loaded, reloads, failures, forgotten>>

Flushers == {"task", "hook"}
None == [a \in {} |-> 0]
Nothing == [a \in Addresses |-> 0]
Cached == ToSet(recent)

CsInit ==
    /\ counts = Nothing /\ recent = <<>> /\ totals = Nothing
    /\ snapshot = [f \in Flushers |-> None]
    /\ wroteHook = FALSE /\ loaded = None /\ reloads = 0 /\ failures = FALSE /\ forgotten = {}

-----------------------------------------------------------------------------
(* TrackClientStat, when the request is registered. *)

Track(h) ==
    LET a == AddressOf[h]
        full == a \notin Cached /\ MaxClients > 0 /\ Len(recent) >= MaxClients
        oldest == IF full THEN {Head(recent)} ELSE {}
    IN /\ Up
       /\ watched = "stats"
       /\ handler[h] = "serving"
       /\ handler' = [handler EXCEPT ![h] = "ended"]
       /\ counts' = [b \in Addresses |->
                        IF b = a THEN counts[a] + 1 ELSE IF b \in oldest THEN 0 ELSE counts[b]]
       /\ recent' = Append(RemoveFirst(IF full THEN Tail(recent) ELSE recent, a), a)
       /\ forgotten' = forgotten \cup oldest
       /\ UNCHANGED <<watched, panel, hook, late, cancelled, loop, run, db, totals, snapshot,
                      wroteHook,
                      loaded, reloads, failures>>

-----------------------------------------------------------------------------
(* ClientStatFlush: the copy is made under the lock, the upsert outside of it. *)

Copy(f) ==
    /\ snapshot[f] = None
    /\ snapshot' = [snapshot EXCEPT ![f] = counts]
    /\ UNCHANGED <<counts, recent, totals, loaded, reloads, failures, forgotten>>

\* UpdateAll: the row takes the value of the copy.
Upsert(f) == totals' = [a \in Addresses |-> IF snapshot[f][a] > 0 THEN snapshot[f][a] ELSE totals[a]]

TaskCopies ==
    /\ Up
    /\ run["client_stat_flush"] = "running"
    /\ Copy("task")
    /\ UNCHANGED <<lcVars, wroteHook>>

TaskWrites ==
    /\ Up
    /\ snapshot["task"] # None
    /\ (TaskMayWrite /\ Upsert("task")) \/ UNCHANGED totals
    /\ snapshot' = [snapshot EXCEPT !["task"] = None]
    /\ run' = [run EXCEPT !["client_stat_flush"] = "idle"]
    /\ UNCHANGED <<watched, handler, panel, hook, late, cancelled, loop, db, counts, recent,
                   wroteHook,
                   loaded, reloads, failures, forgotten>>

HookCopies ==
    /\ Begun("client_stats")
    /\ watched = "stats"
    /\ ~wroteHook
    /\ Copy("hook")
    /\ UNCHANGED <<lcVars, wroteHook>>

HookWrites ==
    /\ Up
    /\ snapshot["hook"] # None
    /\ \/ HookMayWrite /\ Upsert("hook") /\ UNCHANGED failures
       \/ failures' = TRUE /\ UNCHANGED totals
    /\ snapshot' = [snapshot EXCEPT !["hook"] = None]
    /\ wroteHook' = TRUE
    /\ UNCHANGED <<lcVars, counts, recent, loaded, reloads, forgotten>>

ClientStatsHookEnds ==
    /\ Ends("client_stats")
    /\ wroteHook \/ watched # "stats"
    /\ UNCHANGED <<watched, handler, panel, late, cancelled, loop, run, db, csVars>>

-----------------------------------------------------------------------------
(* ClientStatLoad, when the panel imports settings: the rows are read before the lock. *)

LoadReads ==
    /\ hook = 0
    /\ watched = "stats"
    /\ loaded = None
    /\ reloads < MaxReloads
    /\ reloads' = reloads + 1
    /\ loaded' = totals
    /\ panel' = TRUE
    /\ UNCHANGED <<watched, handler, hook, late, cancelled, loop, run, db, counts, recent,
                   totals, snapshot, wroteHook, failures, forgotten>>

\* An entry of the cache is kept; the others are added whatever the maximum.  The rows read
\* are as old as their last call, here the oldest.
LoadMerges ==
    /\ Up
    /\ loaded # None
    /\ LET added == {a \in Addresses \ Cached : loaded[a] > 0}
       IN /\ counts' = [a \in Addresses |-> IF a \in added THEN loaded[a] ELSE counts[a]]
          /\ recent' = SetToSeq(added) \o recent
    /\ loaded' = None
    /\ panel' = FALSE
    /\ UNCHANGED <<watched, handler, hook, late, cancelled, loop, run, db, totals, snapshot,
                   wroteHook, reloads, failures, forgotten>>

-----------------------------------------------------------------------------
(* Properties. *)

\* The total of a client falls only if the client was evicted: a copy made earlier is never
\* written over a later one, although the task and the hook write without a lock.
TotalsNeverFall ==
    [][\A a \in Addresses : totals'[a] >= totals[a] \/ a \in forgotten]_totals

\* When the process exits in time, the last copy was complete and in the table, unless a write of
\* the hook failed.
StatsSaved ==
    Exited /\ late = {} /\ ~failures /\ watched = "stats" =>
        \A a \in Cached : totals[a] = counts[a]
=============================================================================
