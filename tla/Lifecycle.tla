------------------------------ MODULE Lifecycle ------------------------------
(***************************************************************************)
(* The end of the process.  cmd/start.go registers one hook per subsystem, *)
(* utils/shutdown runs them one after the other, each for at most ten      *)
(* seconds: the HTTP server is drained, the background tasks are stopped,  *)
(* the writers that keep records in memory are flushed and the database is *)
(* closed.  The hook of the evaluation scheduler is Stop of EvalQueue and  *)
(* touches none of the writers, so it is not repeated here.                *)
(*                                                                         *)
(* The modules ErrorLog, Conversation and ClientStats EXTEND this one and  *)
(* say what requests, tasks and hooks do to their records.  The three      *)
(* share nothing but the variables below, so that a behaviour follows one  *)
(* of them: "watched" names the writer whose records the requests feed.    *)
(***************************************************************************)
EXTENDS Naturals, Sequences, FiniteSets

CONSTANTS
    Handlers,   \* the requests served by the process
    Callers,    \* bound: those a behaviour serves, per writer it follows
    MaxLate     \* bound: how many hooks do not end in their time

Writers == {"errors", "conversations", "stats"}

ASSUME LifecycleAssumption ==
    IsFiniteSet(Handlers) /\ Callers \in [Writers -> SUBSET Handlers] /\ MaxLate \in Nat

VARIABLES
    watched,    \* the writer this behaviour follows
    handler,    \* per request: "new", "serving", "sending" (its error entry), "ended"
    panel,      \* a call of the panel that changes one of the writers is being served
    hook,       \* 0 while the process serves, else the index of the hook at work
    late,       \* hooks that timed out, or returned with the error of their context
    cancelled,  \* StopAll has cancelled the context of the tasks and closed their stopCh
    loop,       \* per task: its ticker goroutine is "ticking" or "gone"
    run,        \* per task: its function is "idle" or "running"
    db          \* the database is "open" or "closed"

lcVars == <<watched, handler, panel, hook, late, cancelled, loop, run, db>>

Tasks == {"clean_error_logs", "client_stat_flush"}

\* The writer a periodic task works for.
Serves == [t \in Tasks |-> IF t = "clean_error_logs" THEN "errors" ELSE "stats"]

\* The hooks in the order in which they run, the reverse of their registration.
Hooks == <<"server", "tasks", "conversations", "client_stats", "error_log", "db">>
IndexOf(name) == CHOOSE i \in 1..Len(Hooks) : Hooks[i] = name

Up == hook <= Len(Hooks)
Exited == ~Up
AtWork(name) == hook = IndexOf(name)

\* The goroutine of the hook has been started; it outlives its timeout.
Begun(name) == Up /\ hook >= IndexOf(name)

LcInit ==
    /\ watched \in Writers
    /\ handler = [h \in Handlers |-> "new"]
    /\ panel = FALSE
    /\ hook = 0
    /\ late = {}
    /\ cancelled = FALSE
    /\ loop = [t \in Tasks |-> "ticking"]
    /\ run = [t \in Tasks |-> "idle"]
    /\ db = "open"

-----------------------------------------------------------------------------
(* Shutdown hooks. *)

\* A hook ends: the next one starts at once.
Ends(name) == AtWork(name) /\ hook' = hook + 1

Signal ==
    /\ hook = 0
    /\ hook' = 1
    /\ UNCHANGED <<watched, handler, panel, late, cancelled, loop, run, db>>

\* After ten seconds the sequence goes on and leaves the goroutine of the hook behind.  It
\* has run by then up to the first thing it may wait for: StopAll cancels before it waits.
HookTimesOut ==
    /\ hook \in 1..Len(Hooks)
    /\ AtWork("tasks") => cancelled
    /\ Cardinality(late) < MaxLate
    /\ late' = late \cup {Hooks[hook]}
    /\ hook' = hook + 1
    /\ UNCHANGED <<watched, handler, panel, cancelled, loop, run, db>>

\* The handlers feel their cancelled context and end before the deadline of Shutdown.
ServerDrained ==
    /\ Ends("server")
    /\ ~panel /\ \A h \in Handlers : handler[h] \in {"new", "ended"}
    /\ UNCHANGED <<watched, handler, panel, late, cancelled, loop, run, db>>

\* They do not: Close breaks the connections and waits for no handler.
ServerForced ==
    /\ Ends("server")
    /\ panel \/ \E h \in Handlers : handler[h] \in {"serving", "sending"}
    /\ Cardinality(late) < MaxLate
    /\ late' = late \cup {"server"}
    /\ UNCHANGED <<watched, handler, panel, cancelled, loop, run, db>>

\* StopAll cancels the context first, then closes the stop channel of every task ...
StopTasks ==
    /\ Begun("tasks")
    /\ ~cancelled
    /\ cancelled' = TRUE
    /\ UNCHANGED <<watched, handler, panel, hook, late, loop, run, db>>

\* ... and waits for the functions counted in runningWG at that moment.
TasksStopped ==
    /\ Ends("tasks")
    /\ cancelled
    /\ \A t \in Tasks : run[t] = "idle"
    /\ UNCHANGED <<watched, handler, panel, late, cancelled, loop, run, db>>

CloseDatabase ==
    /\ Ends("db")
    /\ db' = "closed"
    /\ UNCHANGED <<watched, handler, panel, late, cancelled, loop, run>>

-----------------------------------------------------------------------------
(* Background tasks. *)

\* A tick starts the function unless its previous run is still at work.  Once stopCh is
\* closed the select of runTask may still choose a tick that was due, but only one.
Tick(t) ==
    /\ Up
    /\ Serves[t] = watched
    /\ loop[t] = "ticking"
    /\ run' = [run EXCEPT ![t] = "running"]
    /\ loop' = [loop EXCEPT ![t] = IF cancelled THEN "gone" ELSE "ticking"]
    /\ UNCHANGED <<watched, handler, panel, hook, late, cancelled, db>>

TickerStops(t) ==
    /\ Up
    /\ cancelled
    /\ loop[t] = "ticking"
    /\ loop' = [loop EXCEPT ![t] = "gone"]
    /\ UNCHANGED <<watched, handler, panel, hook, late, cancelled, run, db>>

\* Mutated: the tasks work under a context of their own.
TaskMayAlwaysWrite == db = "open"

\* Statements of a task run under the cancelled context fail, those of a hook run until
\* the database is closed.
TaskMayWrite == ~cancelled /\ db = "open"

HookMayWrite == db = "open"

-----------------------------------------------------------------------------
(* Requests. *)

Serve(h) ==
    /\ hook = 0
    /\ h \in Callers[watched]
    /\ handler[h] = "new"
    /\ handler' = [handler EXCEPT ![h] = "serving"]
    /\ UNCHANGED <<watched, panel, hook, late, cancelled, loop, run, db>>
=============================================================================
