---------------------------- MODULE Writers_proofs ----------------------------
(***************************************************************************)
(* What the writers do with the records in memory, for any number of       *)
(* requests, hooks that are late and writes that fail: every entry and     *)
(* record is at one place, and a process whose hooks all ended in time has *)
(* saved them.                                                             *)
(***************************************************************************)
EXTENDS Writers, Integers, FiniteSetTheorems, SequenceTheorems, WellFoundedInduction, TLAPS

-----------------------------------------------------------------------------
(* Lists: sequences without repetition, known by their sets.               *)

Lists(S) == {s \in Seq(S) : IsInjective(s)}

Apart(s, t) == ToSet(s) \cap ToSet(t) = {}

LEMMA ListFacts ==
  ASSUME NEW S
  PROVE  /\ <<>> \in Lists(S) /\ ToSet(<<>>) = {}
         /\ \A s \in Lists(S) : s \in Seq(S) /\ ToSet(s) \subseteq S /\ (ToSet(s) = {} => s = <<>>)
<1>1. <<>> \in Lists(S) /\ ToSet(<<>>) = {}
  BY DEF Lists, IsInjective, ToSet
<1>2. ASSUME NEW s \in Lists(S)
      PROVE  s \in Seq(S) /\ ToSet(s) \subseteq S /\ (ToSet(s) = {} => s = <<>>)
  <2>1. s \in Seq(S)
    BY DEF Lists
  <2>2. ToSet(s) \subseteq S
    BY <2>1 DEF ToSet
  <2>3. ASSUME ToSet(s) = {}
        PROVE  s = <<>>
    <3>1. DOMAIN s = {}
      BY <2>3 DEF ToSet
    <3>2. Len(s) = 0
      BY <2>1, <3>1
    <3> QED BY <2>1, <3>2
  <2> QED BY <2>1, <2>2, <2>3
<1> QED BY <1>1, <1>2

LEMMA ListIndices ==
  ASSUME NEW S, NEW s \in Lists(S)
  PROVE  /\ s \in Seq(S) /\ Len(s) \in Nat /\ DOMAIN s = 1 .. Len(s)
         /\ \A i \in 1 .. Len(s) : s[i] \in S
         /\ \A i, j \in 1 .. Len(s) : s[i] = s[j] => i = j
BY DEF Lists, IsInjective

LEMMA ListAppend ==
  ASSUME NEW S, NEW s \in Lists(S), NEW e \in S, e \notin ToSet(s)
  PROVE  Append(s, e) \in Lists(S) /\ ToSet(Append(s, e)) = ToSet(s) \cup {e}
<1>1. s \in Seq(S) /\ \A i, j \in 1 .. Len(s) : s[i] = s[j] => i = j
  BY DEF Lists, IsInjective
<1>2. \A i \in 1 .. Len(s) : s[i] # e
  BY <1>1 DEF ToSet
<1>3. /\ Append(s, e) \in Seq(S) /\ DOMAIN Append(s, e) = 1 .. Len(s) + 1
      /\ \A i \in 1 .. Len(s) + 1 : Append(s, e)[i] = IF i <= Len(s) THEN s[i] ELSE e
  BY <1>1
<1>4. IsInjective(Append(s, e))
  BY <1>1, <1>2, <1>3 DEF IsInjective
<1>5. ToSet(Append(s, e)) = ToSet(s) \cup {e}
  <2>1. ToSet(s) = {s[i] : i \in 1 .. Len(s)}
    BY <1>1 DEF ToSet
  <2>2. ToSet(Append(s, e)) = {Append(s, e)[i] : i \in 1 .. Len(s) + 1}
    BY <1>3 DEF ToSet
  <2> QED BY <1>1, <1>3, <2>1, <2>2
<1> QED BY <1>3, <1>4, <1>5 DEF Lists

LEMMA ListTail ==
  ASSUME NEW S, NEW s \in Lists(S), s # <<>>
  PROVE  /\ Tail(s) \in Lists(S) /\ Head(s) \in ToSet(s)
         /\ ToSet(Tail(s)) = ToSet(s) \ {Head(s)}
<1>1. s \in Seq(S) /\ \A i, j \in 1 .. Len(s) : s[i] = s[j] => i = j
  BY DEF Lists, IsInjective
<1>2. /\ Tail(s) \in Seq(S) /\ Len(Tail(s)) = Len(s) - 1 /\ Len(s) \in Nat \ {0}
      /\ \A i \in 1 .. Len(s) - 1 : Tail(s)[i] = s[i + 1]
      /\ Head(s) = s[1]
  BY <1>1, HeadTailProperties, EmptySeq
<1>3. IsInjective(Tail(s))
  BY <1>1, <1>2 DEF IsInjective
<1>4. ToSet(s) = {s[i] : i \in 1 .. Len(s)} /\ ToSet(Tail(s)) = {Tail(s)[i] : i \in 1 .. Len(s) - 1}
  <2>1. DOMAIN s = 1 .. Len(s) /\ DOMAIN Tail(s) = 1 .. Len(s) - 1
    BY <1>1, <1>2, LenProperties
  <2> QED BY <2>1 DEF ToSet
<1>5. \A x \in ToSet(Tail(s)) : x \in ToSet(s) /\ x # s[1]
  BY <1>1, <1>2, <1>4
<1>6. ASSUME NEW x \in ToSet(s), x # s[1]
      PROVE  x \in ToSet(Tail(s))
  <2>1. PICK i \in 1 .. Len(s) : x = s[i]
    BY <1>4
  <2>2. i - 1 \in 1 .. Len(s) - 1 /\ Tail(s)[i - 1] = x
    BY <1>2, <1>6, <2>1
  <2> QED BY <1>4, <2>2
<1>7. s[1] \in ToSet(s)
  BY <1>2, <1>4
<1> QED BY <1>2, <1>3, <1>5, <1>6, <1>7 DEF Lists

LEMMA ListConcat ==
  ASSUME NEW S, NEW s \in Lists(S), NEW t \in Lists(S), Apart(s, t)
  PROVE  s \o t \in Lists(S) /\ ToSet(s \o t) = ToSet(s) \cup ToSet(t)
<1>1. /\ s \in Seq(S) /\ \A i, j \in 1 .. Len(s) : s[i] = s[j] => i = j
      /\ t \in Seq(S) /\ \A i, j \in 1 .. Len(t) : t[i] = t[j] => i = j
      /\ Len(s) \in Nat /\ Len(t) \in Nat
  BY DEF Lists, IsInjective
<1>2. /\ s \o t \in Seq(S) /\ DOMAIN (s \o t) = 1 .. Len(s) + Len(t)
      /\ \A i \in 1 .. Len(s) + Len(t) : (s \o t)[i] = IF i <= Len(s) THEN s[i] ELSE t[i - Len(s)]
  BY <1>1, ConcatProperties
<1>3. ToSet(s) = {s[i] : i \in 1 .. Len(s)} /\ ToSet(t) = {t[i] : i \in 1 .. Len(t)}
  BY <1>1 DEF ToSet
<1>4. \A i \in 1 .. Len(s), j \in 1 .. Len(t) : s[i] # t[j]
  BY <1>3 DEF Apart
<1>5. IsInjective(s \o t)
  <2> SUFFICES ASSUME NEW i \in 1 .. Len(s) + Len(t), NEW j \in 1 .. Len(s) + Len(t),
                      (s \o t)[i] = (s \o t)[j]
               PROVE  i = j
    BY <1>2 DEF IsInjective
  <2> QED BY <1>1, <1>2, <1>4
<1>6. ToSet(s \o t) = ToSet(s) \cup ToSet(t)
  <2>1. ToSet(s \o t) = {(s \o t)[i] : i \in 1 .. Len(s) + Len(t)}
    BY <1>2 DEF ToSet
  <2>2. \A i \in 1 .. Len(s) : i \in 1 .. Len(s) + Len(t) /\ (s \o t)[i] = s[i]
    BY <1>1, <1>2
  <2>3. \A i \in 1 .. Len(t) : i + Len(s) \in 1 .. Len(s) + Len(t) /\ (s \o t)[i + Len(s)] = t[i]
    BY <1>1, <1>2
  <2>4. \A i \in 1 .. Len(s) + Len(t) :
           (s \o t)[i] \in {s[k] : k \in 1 .. Len(s)} \cup {t[k] : k \in 1 .. Len(t)}
    BY <1>1, <1>2
  <2> QED BY <1>3, <2>1, <2>2, <2>3, <2>4
<1> QED BY <1>2, <1>5, <1>6 DEF Lists

\* The first n and the others.
LEMMA ListSplit ==
  ASSUME NEW S, NEW s \in Lists(S), NEW n \in 0 .. Len(s)
  PROVE  LET first == SubSeq(s, 1, n)
             others == SubSeq(s, n + 1, Len(s))
         IN  /\ first \in Lists(S) /\ others \in Lists(S) /\ Apart(first, others)
             /\ ToSet(s) = ToSet(first) \cup ToSet(others)
             /\ Len(first) = n /\ Len(others) = Len(s) - n
<1> DEFINE first == SubSeq(s, 1, n)
           others == SubSeq(s, n + 1, Len(s))
<1>1. /\ s \in Seq(S) /\ \A i, j \in 1 .. Len(s) : s[i] = s[j] => i = j
      /\ Len(s) \in Nat /\ n \in Nat /\ n <= Len(s)
  BY DEF Lists, IsInjective
<1>2. /\ first \in Seq(S) /\ Len(first) = n /\ \A i \in 1 .. n : first[i] = s[i]
      /\ others \in Seq(S) /\ Len(others) = Len(s) - n
      /\ \A i \in 1 .. Len(s) - n : others[i] = s[n + i]
  BY <1>1
<1> HIDE DEF first, others
<1>3. DOMAIN first = 1 .. n /\ DOMAIN others = 1 .. Len(s) - n
  BY <1>1, <1>2
<1>4. IsInjective(first) /\ IsInjective(others)
  <2>1. IsInjective(first)
    BY <1>1, <1>2, <1>3 DEF IsInjective
  <2>2. ASSUME NEW i \in 1 .. Len(s) - n, NEW j \in 1 .. Len(s) - n, others[i] = others[j]
        PROVE  i = j
    <3>1. n + i \in 1 .. Len(s) /\ n + j \in 1 .. Len(s) /\ s[n + i] = s[n + j]
      BY <1>1, <1>2, <2>2
    <3>2. n + i = n + j
      BY <1>1, <3>1
    <3> QED BY <1>1, <3>2
  <2> QED BY <1>3, <2>1, <2>2 DEF IsInjective
<1>5. /\ ToSet(s) = {s[i] : i \in 1 .. Len(s)} /\ ToSet(first) = {first[i] : i \in 1 .. n}
      /\ ToSet(others) = {others[i] : i \in 1 .. Len(s) - n}
  <2>1. DOMAIN s = 1 .. Len(s)
    BY <1>1
  <2> QED BY <1>3, <2>1 DEF ToSet
<1>6. Apart(first, others)
  <2>1. \A i \in 1 .. n, j \in 1 .. Len(s) - n : first[i] # others[j]
    <3> SUFFICES ASSUME NEW i \in 1 .. n, NEW j \in 1 .. Len(s) - n, s[i] = s[n + j]
                 PROVE  FALSE
      BY <1>2
    <3>1. i \in 1 .. Len(s) /\ n + j \in 1 .. Len(s) /\ i # n + j
      BY <1>1
    <3> QED BY <1>1, <3>1
  <2> QED BY <1>5, <2>1 DEF Apart
<1>7. ASSUME NEW x \in ToSet(s)
      PROVE  x \in ToSet(first) \cup ToSet(others)
  <2>1. PICK i \in 1 .. Len(s) : x = s[i]
    BY <1>5
  <2>2. CASE i <= n
    BY <1>1, <1>2, <1>5, <2>1, <2>2
  <2>3. CASE i > n
    <3>1. i - n \in 1 .. Len(s) - n /\ n + (i - n) = i
      BY <1>1, <2>1, <2>3
    <3>2. others[i - n] = x
      BY <1>2, <2>1, <3>1
    <3> QED BY <1>5, <3>1, <3>2
  <2> QED BY <1>1, <2>1, <2>2, <2>3
<1>8. ToSet(first) \subseteq ToSet(s) /\ ToSet(others) \subseteq ToSet(s)
  BY <1>1, <1>2, <1>5
<1>9. ToSet(s) = ToSet(first) \cup ToSet(others)
  BY <1>7, <1>8
<1> QED BY <1>2, <1>4, <1>6, <1>9 DEF Lists, first, others

\* A list is as long as its set is large.
LEMMA ListCount ==
  ASSUME NEW S, NEW s \in Lists(S)
  PROVE  IsFiniteSet(ToSet(s)) /\ Cardinality(ToSet(s)) = Len(s) /\ Len(s) \in Nat
<1>1. s \in Seq(S) /\ Len(s) \in Nat /\ DOMAIN s = 1 .. Len(s) /\ IsInjective(s)
  BY DEF Lists
<1>2. s \in Bijection(1 .. Len(s), ToSet(s))
  BY <1>1 DEF Bijection, Injection, Surjection, IsInjective, ToSet
<1>3. IsFiniteSet(1 .. Len(s)) /\ Cardinality(1 .. Len(s)) = Len(s)
  BY <1>1, FS_Interval
<1> QED BY <1>1, <1>2, <1>3, FS_Bijection DEF ExistsBijection

-----------------------------------------------------------------------------
(* The life of the process. *)

Done(h) == handler[h] \in {"new", "ended"}

\* The tasks are cancelled before the first flush; and when the drain of the server ended in
\* time, nobody feeds a writer any more.
LcInv ==
    /\ watched \in Writers /\ hook \in Nat
    /\ handler \in [Handlers -> {"new", "serving", "sending", "ended"}]
    /\ run = [t \in Tasks |-> run[t]]
    /\ hook > IndexOf("tasks") => cancelled
    /\ hook > IndexOf("server") /\ late = {} => ~panel /\ \A h \in Handlers : Done(h)

LEMMA HookIndices ==
    /\ IndexOf("server") = 1 /\ IndexOf("tasks") = 2 /\ IndexOf("conversations") = 3
    /\ IndexOf("client_stats") = 4 /\ IndexOf("error_log") = 5 /\ IndexOf("db") = 6
    /\ Len(Hooks) = 6
<1>1. Len(Hooks) = 6
  BY DEF Hooks
<1>2. /\ Hooks[1] = "server" /\ Hooks[2] = "tasks" /\ Hooks[3] = "conversations"
      /\ Hooks[4] = "client_stats" /\ Hooks[5] = "error_log" /\ Hooks[6] = "db"
  BY DEF Hooks
<1>3. \A i \in 1 .. 6 : i = 1 \/ i = 2 \/ i = 3 \/ i = 4 \/ i = 5 \/ i = 6
  OBVIOUS
<1>4. ASSUME NEW i \in 1 .. 6
      PROVE  IndexOf(Hooks[i]) \in 1 .. 6 /\ Hooks[IndexOf(Hooks[i])] = Hooks[i]
  BY <1>1 DEF IndexOf
<1>5. ASSUME NEW i \in 1 .. 6
      PROVE  IndexOf(Hooks[i]) = i
  BY <1>2, <1>3, <1>4
<1> QED BY <1>1, <1>2, <1>5

\* What every step does to the process: a hook is passed by its own end or by its timeout.
Forward ==
    /\ watched' = watched /\ hook' \in Nat /\ hook' >= hook
    /\ late \subseteq late' /\ (cancelled => cancelled')

Passes(name) == hook' > IndexOf(name) /\ late' = {} => hook > IndexOf(name)

\* What a step of another part does to the requests, seen by the writer "mine": it may
\* accept one, and moves on only those that do not feed this writer.
Minds(mine) ==
    /\ watched # mine \/ panel' = panel
    /\ \A h \in Handlers :
          \/ handler'[h] = handler[h]
          \/ handler[h] = "new" /\ handler'[h] = "serving"
          \/ watched # mine /\ handler[h] = "serving" /\ handler'[h] = "ended"
          \/ /\ watched # mine /\ watched = "errors"
             /\ handler[h] \in {"serving", "sending"} /\ handler'[h] \in {"sending", "ended"}

\* A step that leaves the records of the writer "mine", whose hook has this name, alone.
Elsewhere(mine, name) == Forward /\ Passes(name) /\ Minds(mine)

LifecycleStep ==
    \/ Signal \/ HookTimesOut \/ ServerDrained \/ ServerForced \/ StopTasks \/ TasksStopped
    \/ CloseDatabase
    \/ \E t \in Tasks : Tick(t) \/ TickerStops(t)
    \/ \E h \in Handlers : Serve(h)

LEMMA LifecycleMoves ==
  ASSUME LcInv, LifecycleStep
  PROVE  /\ LcInv'
         /\ \A mine \in Writers : Elsewhere(mine, "conversations")
         /\ \A mine \in Writers : Elsewhere(mine, "client_stats")
         /\ \A mine \in Writers : Elsewhere(mine, "error_log")
<1> USE HookIndices DEF LcInv, Elsewhere, Forward, Passes, Minds, Done
<1>1. CASE Signal
  BY <1>1 DEF Signal
<1>2. CASE HookTimesOut
  <2>1. late' # {} /\ hook' = hook + 1 /\ (hook = 2 => cancelled) /\ late \subseteq late'
    BY <1>2 DEF HookTimesOut, AtWork
  <2>2. UNCHANGED <<watched, handler, panel, cancelled, run>>
    BY <1>2 DEF HookTimesOut
  <2> QED BY <2>1, <2>2
<1>3. CASE ServerDrained
  BY <1>3 DEF ServerDrained, Ends, AtWork
<1>4. CASE ServerForced
  BY <1>4 DEF ServerForced, Ends, AtWork
<1>5. CASE StopTasks
  BY <1>5 DEF StopTasks
<1>6. CASE TasksStopped
  BY <1>6 DEF TasksStopped, Ends, AtWork
<1>7. CASE CloseDatabase
  BY <1>7 DEF CloseDatabase, Ends, AtWork
<1>8. CASE \E t \in Tasks : Tick(t) \/ TickerStops(t)
  BY <1>8 DEF Tick, TickerStops
<1>9. ASSUME NEW h \in Handlers, Serve(h)
      PROVE  /\ LcInv'
             /\ \A mine \in Writers : Elsewhere(mine, "conversations")
             /\ \A mine \in Writers : Elsewhere(mine, "client_stats")
             /\ \A mine \in Writers : Elsewhere(mine, "error_log")
  BY <1>9 DEF Serve
<1> QED BY <1>1, <1>2, <1>3, <1>4, <1>5, <1>6, <1>7, <1>8, <1>9 DEF LifecycleStep

-----------------------------------------------------------------------------
(* The error log: what holds in every state.                               *)

Queued == UNION {ToSet(queues[q]) : q \in DOMAIN queues}
Sent == {h \in Handlers : sender[h] # 0 /\ handler[h] = "ended"}

ErTyped ==
    /\ born \in Lists(Handlers) /\ batch \in Lists(Handlers) /\ rest \in Lists(Handlers)
    /\ queues \in Seq(Lists(Handlers))
    /\ \A p, q \in DOMAIN queues : p # q => Apart(queues[p], queues[q])
    /\ sender \in [Handlers -> 0 .. Len(queues)]
    /\ target \in 0 .. Len(queues)

\* A request has a queue from the moment its entry is born.
ErSenders ==
    /\ ToSet(born) = {h \in Handlers : sender[h] # 0}
    /\ \A h \in Handlers :
          /\ handler[h] \in {"new", "serving"} => sender[h] = 0
          /\ handler[h] = "sending" => sender[h] # 0 /\ watched = "errors"

\* Six sets share out a seventh.
Shares(all, a, b, c, d, e, f) ==
    /\ all = a \cup b \cup c \cup d \cup e \cup f
    /\ a \cap b = {} /\ a \cap c = {} /\ a \cap d = {} /\ a \cap e = {} /\ a \cap f = {}
    /\ b \cap c = {} /\ b \cap d = {} /\ b \cap e = {} /\ b \cap f = {}
    /\ c \cap d = {} /\ c \cap e = {} /\ c \cap f = {}
    /\ d \cap e = {} /\ d \cap f = {}
    /\ e \cap f = {}

ErPlaces == Shares(Sent, Queued, ToSet(batch), ToSet(rest), stored, failed, dropped)

\* The ids of the table were given in order, one for each entry stored.
RowsFit(table, entries) ==
    /\ IsInjective(table) /\ Range(table) \subseteq entries
    /\ DOMAIN table \subseteq 1 .. Cardinality(entries)

ErRows == RowsFit(rows, stored)

ErPhases ==
    /\ writer \in {"none", "waiting", "inserting", "leaving", "dead"}
    /\ flush \in {"off", "waiting", "inserting", "done"}
    /\ writer = "none" <=> queues = <<>>
    /\ writer \in {"none", "dead"} => batch = <<>>
    /\ flush = "waiting" => target # 0
    /\ flush # "inserting" => rest = <<>>

\* As long as no hook is late there is one writer, and the hook drains after its end.
ErFlushed ==
    /\ flush # "off" => hook >= IndexOf("error_log")
    /\ flush = "off" => ~stopping /\ writer \notin {"leaving", "dead"}
    /\ late = {} =>
          /\ hook > IndexOf("error_log") => flush = "done"
          /\ Len(queues) <= 1
          /\ flush \in {"inserting", "done"} =>
                writer \in {"none", "dead"} /\ Queued = {}

\* Between its last two statements the sweep knows a time at which Keep entries are not
\* older; entries are born in the order of their times and stay stored.
ErSweep ==
    /\ sweep \in [pc : {"off", "count", "cutoff", "delete"}, cutoff : Nat]
    /\ sweep.pc = "delete" => Cardinality({f \in stored : Age(f) >= sweep.cutoff}) >= Keep

ErInv == ErTyped /\ ErSenders /\ ErPlaces /\ ErRows /\ ErPhases /\ ErFlushed /\ ErSweep


LEMMA ErrorsElsewhere ==
  ASSUME ErInv, LcInv, UNCHANGED elVars, Elsewhere("errors", "error_log"),
         handler' \in [Handlers -> {"new", "serving", "sending", "ended"}]
  PROVE  ErInv'
<1>1. /\ UNCHANGED <<born, queues, writer, stopping, batch, sender, flush, target, rest, rows>>
      /\ UNCHANGED <<stored, failed, dropped, sweep>>
  BY DEF elVars
<1>2. /\ ErTyped' /\ ErRows' /\ ErPhases' /\ Queued' = Queued
  BY <1>1 DEF ErInv, ErTyped, ErRows, RowsFit, ErPhases, Queued, Apart
<1>3. \A e : Age(e)' = Age(e)
  BY <1>1 DEF Age
<1>4. ErSweep'
  BY <1>1, <1>3 DEF ErInv, ErSweep
<1>5. /\ watched' = watched /\ hook' >= hook /\ hook' \in Nat /\ hook \in Nat
      /\ late' = {} => late = {} /\ (hook' > IndexOf("error_log") => hook > IndexOf("error_log"))
      /\ \A h \in Handlers :
            \/ handler'[h] = handler[h]
            \/ handler[h] \in {"new", "serving"} /\ handler'[h] \in {"serving", "ended"}
               /\ sender[h] = 0
  BY DEF Elsewhere, Forward, Passes, Minds, LcInv, ErInv, ErSenders
<1>6. ErFlushed'
  BY <1>1, <1>2, <1>5, HookIndices DEF ErInv, ErFlushed
<1>7. \A h \in Handlers : sender[h] # 0 => handler'[h] = handler[h]
  BY <1>5
<1>8. ErSenders'
  BY <1>1, <1>5 DEF ErInv, ErSenders
<1>9. Sent' = Sent
  BY <1>1, <1>7 DEF Sent
<1>10. ErPlaces'
  BY <1>1, <1>2, <1>9 DEF ErInv, ErPlaces
<1> QED BY <1>2, <1>4, <1>6, <1>8, <1>10 DEF ErInv

-----------------------------------------------------------------------------
(* The error log: helpers.                                                 *)

LEMMA QueueFacts ==
  ASSUME ErTyped
  PROVE  /\ DOMAIN queues = 1 .. Len(queues) /\ Len(queues) \in Nat
         /\ \A q \in 1 .. Len(queues) :
               queues[q] \in Lists(Handlers) /\ ToSet(queues[q]) \subseteq Queued
         /\ queues # <<>> => Len(queues) \in 1 .. Len(queues) /\ Last(queues) = queues[Len(queues)]
<1>1. queues \in Seq(Lists(Handlers))
  BY DEF ErTyped
<1>2. DOMAIN queues = 1 .. Len(queues) /\ Len(queues) \in Nat
  BY <1>1, LenProperties
<1>3. ASSUME NEW q \in 1 .. Len(queues)
      PROVE  queues[q] \in Lists(Handlers) /\ ToSet(queues[q]) \subseteq Queued
  BY <1>1, <1>2, ElementOfSeq DEF Queued
<1>4. queues # <<>> => Len(queues) \in 1 .. Len(queues)
  BY <1>1, EmptySeq
<1> QED BY <1>2, <1>3, <1>4 DEF Last

\* One queue gets another content.
LEMMA QueueReplaced ==
  ASSUME ErTyped, NEW q \in 1 .. Len(queues), NEW t \in Lists(Handlers),
         queues' = [queues EXCEPT ![q] = t],
         ToSet(t) \cap (Queued \ ToSet(queues[q])) = {}
  PROVE  /\ queues' \in Seq(Lists(Handlers)) /\ Len(queues') = Len(queues)
         /\ \A p, r \in DOMAIN queues' : p # r => Apart(queues'[p], queues'[r])
         /\ Queued' = (Queued \ ToSet(queues[q])) \cup ToSet(t)
<1>1. queues \in Seq(Lists(Handlers)) /\ DOMAIN queues = 1 .. Len(queues)
  BY QueueFacts DEF ErTyped
<1>2. queues' \in Seq(Lists(Handlers)) /\ Len(queues') = Len(queues)
  BY <1>1, ExceptSeq
<1>3. DOMAIN queues' = 1 .. Len(queues)
  BY <1>2, LenProperties
<1>4. \A p \in 1 .. Len(queues) : queues'[p] = IF p = q THEN t ELSE queues[p]
  BY <1>1
<1>5. \A p \in 1 .. Len(queues) : p # q => Apart(queues[p], queues[q]) /\ Apart(queues[q], queues[p])
  BY <1>1 DEF ErTyped
<1>6. \A p \in 1 .. Len(queues) :
         p # q => ToSet(queues[p]) \subseteq Queued \ ToSet(queues[q])
  <2> SUFFICES ASSUME NEW p \in 1 .. Len(queues), p # q
               PROVE  ToSet(queues[p]) \subseteq Queued \ ToSet(queues[q])
    OBVIOUS
  <2>1. ToSet(queues[p]) \subseteq Queued
    BY QueueFacts
  <2>2. ToSet(queues[p]) \cap ToSet(queues[q]) = {}
    BY <1>5 DEF Apart
  <2> QED BY <2>1, <2>2
<1>7. ASSUME NEW p \in DOMAIN queues', NEW r \in DOMAIN queues', p # r
      PROVE  Apart(queues'[p], queues'[r])
  <2>1. CASE p # q /\ r # q
    BY <1>1, <1>3, <1>4, <1>7, <2>1 DEF ErTyped
  <2>2. CASE p = q
    <3>1. queues'[p] = t /\ queues'[r] = queues[r] /\ ToSet(queues[r]) \subseteq Queued \ ToSet(queues[q])
      BY <1>3, <1>4, <1>6, <1>7, <2>2
    <3> QED BY <3>1 DEF Apart
  <2>3. CASE r = q
    <3>1. queues'[r] = t /\ queues'[p] = queues[p] /\ ToSet(queues[p]) \subseteq Queued \ ToSet(queues[q])
      BY <1>3, <1>4, <1>6, <1>7, <2>3
    <3> QED BY <3>1 DEF Apart
  <2> QED BY <2>1, <2>2, <2>3
<1>8. Queued' = UNION {ToSet(queues'[p]) : p \in 1 .. Len(queues)}
  BY <1>3 DEF Queued, ToSet
<1>9. ASSUME NEW x \in Queued'
      PROVE  x \in (Queued \ ToSet(queues[q])) \cup ToSet(t)
  <2>1. PICK p \in 1 .. Len(queues) : x \in ToSet(queues'[p])
    BY <1>8, <1>9
  <2> QED BY <1>4, <1>6, <2>1
<1>10. ASSUME NEW x \in (Queued \ ToSet(queues[q])) \cup ToSet(t)
       PROVE  x \in Queued'
  <2>1. CASE x \in ToSet(t)
    <3>1. x \in ToSet(queues'[q])
      BY <1>4, <2>1
    <3> QED BY <1>8, <3>1
  <2>2. CASE x \in Queued /\ x \notin ToSet(queues[q])
    <3>1. PICK p \in 1 .. Len(queues) : x \in ToSet(queues[p])
      BY <1>1, <2>2 DEF Queued
    <3>2. p # q /\ queues'[p] = queues[p]
      BY <1>4, <2>2, <3>1
    <3> QED BY <1>8, <3>1, <3>2
  <2> QED BY <1>10, <2>1, <2>2
<1> QED BY <1>2, <1>7, <1>9, <1>10

\* The time of an entry is its index in "born", now and after another is born.
LEMMA AgeFacts ==
  ASSUME ErTyped
  PROVE  /\ \A e \in ToSet(born) : Age(e) \in 1 .. Len(born) /\ born[Age(e)] = e
         /\ IsFiniteSet(ToSet(born))
<1>1. ASSUME NEW e \in ToSet(born)
      PROVE  Age(e) \in 1 .. Len(born) /\ born[Age(e)] = e
  <2>1. \E i \in 1 .. Len(born) : born[i] = e
    BY <1>1 DEF ErTyped, Lists, ToSet
  <2> QED BY <2>1 DEF Age
<1>2. IsFiniteSet(ToSet(born))
  BY ListCount DEF ErTyped
<1> QED BY <1>1, <1>2

LEMMA AgeStays ==
  ASSUME ErTyped, ErTyped', NEW h, born' = Append(born, h), NEW e \in ToSet(born)
  PROVE  Age(e)' = Age(e)
<1>1. /\ born \in Seq(Handlers) /\ Len(born) \in Nat
      /\ born' \in Seq(Handlers) /\ \A i, j \in 1 .. Len(born') : born'[i] = born'[j] => i = j
  <2>1. born \in Lists(Handlers) /\ born' \in Lists(Handlers)
    BY DEF ErTyped
  <2> QED BY <2>1, ListIndices
<1>2. Age(e) \in 1 .. Len(born) /\ born[Age(e)] = e
  BY AgeFacts
<1>3. Age(e) \in 1 .. Len(born') /\ born'[Age(e)] = e
  BY <1>1, <1>2
<1>4. Age(e)' = CHOOSE i \in 1 .. Len(born') : born'[i] = e
  BY DEF Age
<1> HIDE DEF Age
<1>5. \E i \in 1 .. Len(born') : born'[i] = e
  BY <1>3
<1>6. Age(e)' \in 1 .. Len(born') /\ born'[Age(e)'] = e
  BY <1>4, <1>5
<1> QED BY <1>1, <1>3, <1>6

\* What is stored was born, and there is a time for each.
LEMMA StoredFacts ==
  ASSUME ErTyped, ErSenders, ErPlaces
  PROVE  stored \subseteq ToSet(born) /\ IsFiniteSet(stored) /\ Cardinality(stored) \in Nat
<1>1. stored \subseteq ToSet(born)
  BY DEF ErSenders, ErPlaces, Shares, Sent
<1>2. IsFiniteSet(ToSet(born))
  BY AgeFacts
<1> QED BY <1>1, <1>2, FS_Subset, FS_CardinalityType

\* More entries stored, and the same times: the sweep knows no less.
LEMMA SweepStays ==
  ASSUME ErSweep, stored \subseteq stored', sweep' = sweep, IsFiniteSet(stored'),
         ErrorLogAssumption,
         \A e \in stored : Age(e)' = Age(e)
  PROVE  ErSweep'
<1>1. CASE sweep.pc # "delete"
  BY <1>1 DEF ErSweep
<1>2. CASE sweep.pc = "delete"
  <2> DEFINE before == {f \in stored : Age(f) >= sweep.cutoff}
             after == {f \in stored' : Age(f)' >= sweep'.cutoff}
  <2>1. before \subseteq after
    OBVIOUS
  <2>2. IsFiniteSet(after)
    BY FS_Subset
  <2>3. Cardinality(before) <= Cardinality(after) /\ Cardinality(before) \in Nat
        /\ Cardinality(after) \in Nat /\ Cardinality(before) >= Keep
    BY <1>2, <2>1, <2>2, FS_Subset, FS_CardinalityType DEF ErSweep
  <2>4. Cardinality(after) >= Keep
    BY <2>3 DEF ErrorLogAssumption
  <2> QED BY <1>2, <2>4 DEF ErSweep
<1> QED BY <1>1, <1>2

LEMMA RowsFewer ==
  ASSUME NEW table, NEW entries, RowsFit(table, entries), NEW D \in SUBSET DOMAIN table
  PROVE  RowsFit(Restrict(table, D), entries)
<1> DEFINE fewer == Restrict(table, D)
<1>1. DOMAIN fewer = D /\ \A i \in D : fewer[i] = table[i]
  BY DEF Restrict
<1> HIDE DEF fewer
<1>2. IsInjective(fewer)
  BY <1>1 DEF RowsFit, IsInjective
<1>3. Range(fewer) \subseteq Range(table)
  <2>1. \A i \in D : fewer[i] \in Range(table)
    BY <1>1 DEF Range
  <2> QED BY <1>1, <2>1 DEF Range
<1> QED BY <1>1, <1>2, <1>3 DEF RowsFit, fewer

LEMMA RowsTrimmed ==
  ASSUME NEW table, NEW entries, RowsFit(table, entries)
  PROVE  RowsFit(Trim(table), entries)
<1> DEFINE S == {id \in DOMAIN table : Cardinality({i \in DOMAIN table : i > id}) < MaxRows}
<1>1. Trim(table) = table \/ Trim(table) = Restrict(table, S)
  BY DEF Trim, RestrictDomain
<1>2. S \in SUBSET DOMAIN table
  OBVIOUS
<1> HIDE DEF S
<1> QED BY <1>1, <1>2, RowsFewer

\* New entries get new ids.
LEMMA RowsInserted ==
  ASSUME ErRows, IsFiniteSet(stored), NEW entries \in Lists(Handlers),
         ToSet(entries) \cap stored = {}
  PROVE  RowsFit(WithRows(rows, entries), stored \cup ToSet(entries))
<1> DEFINE last == Cardinality(stored)
           more == WithRows(rows, entries)
           D == DOMAIN rows \cup (last + 1) .. (last + Len(entries))
<1>1. last \in Nat /\ Len(entries) \in Nat
  BY FS_CardinalityType, ListIndices
<1>2. DOMAIN more = D /\ \A i \in D : more[i] = IF i \in DOMAIN rows THEN rows[i] ELSE entries[i - last]
  BY DEF WithRows
<1>3. Cardinality(stored \cup ToSet(entries)) = last + Len(entries)
  <2>1. IsFiniteSet(ToSet(entries)) /\ Cardinality(ToSet(entries)) = Len(entries)
    BY ListCount
  <2>2. Cardinality(stored \cap ToSet(entries)) = 0
    BY FS_EmptySet
  <2>3. Cardinality(stored \cup ToSet(entries))
           = last + Cardinality(ToSet(entries)) - Cardinality(stored \cap ToSet(entries))
    BY <2>1, FS_Union
  <2> QED BY <1>1, <2>1, <2>2, <2>3
<1> HIDE DEF last, more
<1>4. DOMAIN rows \subseteq 1 .. last /\ \A i \in DOMAIN rows : rows[i] \in stored
  BY DEF ErRows, RowsFit, Range, last
<1>5. ASSUME NEW i \in D
      PROVE  \/ i \in DOMAIN rows /\ more[i] = rows[i] /\ more[i] \in stored
             \/ /\ i \in last + 1 .. last + Len(entries) /\ more[i] = entries[i - last]
                /\ i - last \in 1 .. Len(entries) /\ more[i] \in ToSet(entries)
  <2>1. CASE i \in DOMAIN rows
    BY <1>2, <1>4, <2>1
  <2>2. CASE i \notin DOMAIN rows
    <3>1. i \in last + 1 .. last + Len(entries) /\ i - last \in 1 .. Len(entries)
      BY <1>1, <2>2
    <3>2. entries[i - last] \in ToSet(entries)
      BY <3>1, ListIndices DEF ToSet
    <3> QED BY <1>2, <2>2, <3>1, <3>2
  <2> QED BY <2>1, <2>2
<1>6. IsInjective(more)
  <2> SUFFICES ASSUME NEW i \in D, NEW j \in D, more[i] = more[j]
               PROVE  i = j
    BY <1>2 DEF IsInjective
  <2>1. CASE i \in DOMAIN rows /\ j \in DOMAIN rows
    BY <1>2, <2>1 DEF ErRows, RowsFit, IsInjective
  <2>2. CASE more[i] \notin stored
    <3>1. /\ i \in last + 1 .. last + Len(entries) /\ j \in last + 1 .. last + Len(entries)
          /\ i - last \in 1 .. Len(entries) /\ j - last \in 1 .. Len(entries)
          /\ entries[i - last] = entries[j - last]
      BY <1>5, <2>2
    <3>2. i - last = j - last
      BY <3>1, ListIndices
    <3> QED BY <1>1, <3>1, <3>2
  <2>3. CASE more[i] \in stored
    <3>1. i \in DOMAIN rows /\ j \in DOMAIN rows
      BY <1>5, <2>3
    <3> QED BY <2>1, <3>1
  <2> QED BY <2>2, <2>3
<1>7. Range(more) \subseteq stored \cup ToSet(entries)
  <2>1. \A i \in DOMAIN more : more[i] \in stored \cup ToSet(entries)
    BY <1>2, <1>5
  <2> QED BY <2>1 DEF Range
<1>8. DOMAIN more \subseteq 1 .. last + Len(entries)
  BY <1>1, <1>2, <1>4
<1> QED BY <1>3, <1>6, <1>7, <1>8 DEF RowsFit, more

\* A queue is added.
LEMMA QueueAdded ==
  ASSUME ErTyped, queues' = Append(queues, <<>>)
  PROVE  /\ queues' \in Seq(Lists(Handlers)) /\ Len(queues') = Len(queues) + 1
         /\ \A p, r \in DOMAIN queues' : p # r => Apart(queues'[p], queues'[r])
         /\ Queued' = Queued
<1>1. queues \in Seq(Lists(Handlers)) /\ DOMAIN queues = 1 .. Len(queues) /\ Len(queues) \in Nat
  BY QueueFacts DEF ErTyped
<1>2. <<>> \in Lists(Handlers) /\ ToSet(<<>>) = {}
  BY ListFacts
<1>3. queues' \in Seq(Lists(Handlers)) /\ Len(queues') = Len(queues) + 1
  BY <1>1, <1>2, AppendProperties
<1>4. DOMAIN queues' = 1 .. Len(queues) + 1
  BY <1>3, LenProperties
<1>5. \A p \in 1 .. Len(queues) + 1 :
         queues'[p] = IF p <= Len(queues) THEN queues[p] ELSE <<>>
  BY <1>1, <1>2, AppendProperties
<1>6. ASSUME NEW p \in DOMAIN queues', NEW r \in DOMAIN queues', p # r
      PROVE  Apart(queues'[p], queues'[r])
  <2>1. CASE p \in 1 .. Len(queues) /\ r \in 1 .. Len(queues)
    BY <1>1, <1>4, <1>5, <1>6, <2>1 DEF ErTyped
  <2>2. CASE p \notin 1 .. Len(queues) \/ r \notin 1 .. Len(queues)
    <3>1. queues'[p] = <<>> \/ queues'[r] = <<>>
      BY <1>1, <1>4, <1>5, <1>6, <2>2
    <3> QED BY <1>2, <3>1 DEF Apart
  <2> QED BY <2>1, <2>2
<1>7. ASSUME NEW x
      PROVE  x \in Queued' <=> x \in Queued
  <2>1. x \in Queued' <=> \E p \in 1 .. Len(queues) + 1 : x \in ToSet(queues'[p])
    BY <1>4 DEF Queued, ToSet
  <2>2. x \in Queued <=> \E p \in 1 .. Len(queues) : x \in ToSet(queues[p])
    BY <1>1 DEF Queued
  <2>3. ASSUME x \in Queued
        PROVE  x \in Queued'
    <3>1. PICK p \in 1 .. Len(queues) : x \in ToSet(queues[p])
      BY <2>2, <2>3
    <3>2. p \in 1 .. Len(queues) + 1 /\ queues'[p] = queues[p]
      BY <1>1, <1>5
    <3> QED BY <2>1, <3>1, <3>2
  <2>4. ASSUME x \in Queued'
        PROVE  x \in Queued
    <3>1. PICK p \in 1 .. Len(queues) + 1 : x \in ToSet(queues'[p])
      BY <2>1, <2>4
    <3>2. p \in 1 .. Len(queues) /\ queues'[p] = queues[p]
      BY <1>1, <1>2, <1>5, <3>1
    <3> QED BY <2>2, <3>1, <3>2
  <2> QED BY <2>3, <2>4
<1> QED BY <1>3, <1>6, <1>7

\* The parts that an action leaves alone.
LEMMA ErrorsKeep ==
  ASSUME ErInv
  PROVE  /\ UNCHANGED <<watched, handler, born, sender>> => ErSenders' /\ Sent' = Sent
         /\ UNCHANGED <<rows, stored>> => ErRows'
         /\ UNCHANGED <<born, stored, sweep>> => ErSweep'
         /\ UNCHANGED queues => Queued' = Queued
<1>1. ASSUME UNCHANGED <<watched, handler, born, sender>>
      PROVE  ErSenders' /\ Sent' = Sent
  BY <1>1 DEF ErInv, ErSenders, Sent
<1>2. ASSUME UNCHANGED <<rows, stored>>
      PROVE  ErRows'
  BY <1>2 DEF ErInv, ErRows, RowsFit
<1>3. ASSUME UNCHANGED <<born, stored, sweep>>
      PROVE  ErSweep'
  <2>1. \A e : Age(e)' = Age(e)
    BY <1>3 DEF Age
  <2> QED BY <1>3, <2>1 DEF ErInv, ErSweep
<1>4. ASSUME UNCHANGED queues
      PROVE  Queued' = Queued
  BY <1>4 DEF Queued
<1> QED BY <1>1, <1>2, <1>3, <1>4

-----------------------------------------------------------------------------
(* The error log: one lemma for each action.                               *)

LEMMA EnqueueCaptureKeeps ==
  ASSUME ErInv, LcInv, NEW h \in Handlers, EnqueueCapture(h)
  PROVE  ErInv'
<1>1. /\ handler[h] = "serving" /\ watched = "errors" /\ watched' = watched
      /\ handler' = [handler EXCEPT ![h] = "sending"] /\ born' = Append(born, h)
      /\ sender' = [sender EXCEPT ![h] = Len(queues')]
      /\ UNCHANGED <<hook, late, batch, flush, target, rest, rows, stored, failed, dropped, sweep>>
  BY DEF EnqueueCapture
<1>2. \/ /\ writer \in {"none", "dead"} /\ queues' = Append(queues, <<>>)
         /\ writer' = "waiting" /\ stopping' = FALSE
      \/ writer \notin {"none", "dead"} /\ UNCHANGED <<queues, writer, stopping>>
  BY DEF EnqueueCapture
<1>3. sender[h] = 0 /\ h \notin ToSet(born)
  BY <1>1 DEF ErInv, ErSenders
<1>4. /\ queues' \in Seq(Lists(Handlers)) /\ Queued' = Queued
      /\ \A p, r \in DOMAIN queues' : p # r => Apart(queues'[p], queues'[r])
      /\ Len(queues) \in Nat
      /\ \/ writer \in {"none", "dead"} /\ Len(queues') = Len(queues) + 1
         \/ writer \notin {"none", "dead"} /\ queues' = queues /\ queues # <<>>
            /\ Len(queues') >= 1 /\ Len(queues') = Len(queues)
  <2>1. CASE writer \in {"none", "dead"}
    BY <1>2, <2>1, QueueAdded, QueueFacts DEF ErInv
  <2>2. CASE writer \notin {"none", "dead"}
    <3>1. queues' = queues /\ queues # <<>>
      BY <1>2, <2>2 DEF ErInv, ErPhases
    <3>2. Len(queues) \in Nat /\ Len(queues) >= 1
      BY <3>1, QueueFacts DEF ErInv
    <3> QED BY <2>2, <3>1, <3>2, ErrorsKeep DEF ErInv, ErTyped, Apart
  <2> QED BY <2>1, <2>2
<1>5. ErTyped'
  <2>1. born' \in Lists(Handlers)
    BY <1>1, <1>3, ListAppend DEF ErInv, ErTyped
  <2>2. batch' \in Lists(Handlers) /\ rest' \in Lists(Handlers)
    BY <1>1 DEF ErInv, ErTyped
  <2>3. sender' \in [Handlers -> 0 .. Len(queues')] /\ target' \in 0 .. Len(queues')
    BY <1>1, <1>4 DEF ErInv, ErTyped
  <2> QED BY <1>4, <2>1, <2>2, <2>3 DEF ErTyped
<1>6. /\ sender \in [Handlers -> 0 .. Len(queues)]
      /\ \A g \in Handlers : sender'[g] = IF g = h THEN Len(queues') ELSE sender[g]
      /\ \A g \in Handlers : handler'[g] = IF g = h THEN "sending" ELSE handler[g]
      /\ Len(queues') # 0
  BY <1>1, <1>4 DEF ErInv, ErTyped, LcInv
<1>7. ErSenders'
  <2>1. ToSet(born') = ToSet(born) \cup {h}
    BY <1>1, <1>3, ListAppend DEF ErInv, ErTyped
  <2>2. ToSet(born') = {g \in Handlers : sender'[g] # 0}
    BY <1>6, <2>1 DEF ErInv, ErSenders
  <2> QED BY <1>1, <1>6, <2>2 DEF ErInv, ErSenders
<1>8. ErPlaces'
  <2>1. Sent' = Sent
    BY <1>1, <1>3, <1>6 DEF Sent
  <2> QED BY <1>1, <1>4, <2>1 DEF ErInv, ErPlaces
<1>9. ErRows'
  BY <1>1, ErrorsKeep
<1>10. ErPhases'
  <2>1. queues' # <<>>
    BY <1>4, EmptySeq
  <2> QED BY <1>1, <1>2, <2>1 DEF ErInv, ErPhases
<1>11. ErFlushed'
  <2>1. late = {} => hook <= IndexOf("server")
    BY <1>1, HookIndices DEF LcInv, Done
  <2>2. late = {} => flush = "off"
    BY <2>1, HookIndices DEF ErInv, ErFlushed, ErPhases, LcInv
  <2>3. late = {} => Len(queues') <= 1
    <3>1. ASSUME late = {}
          PROVE  Len(queues') <= 1
      <4>1. writer # "dead"
        BY <2>2, <3>1 DEF ErInv, ErFlushed
      <4>2. CASE writer = "none"
        <5>1. Len(queues) = 0
          BY <4>2 DEF ErInv, ErPhases
        <5>2. Len(queues') = Len(queues) + 1
          BY <1>4, <4>2
        <5> QED BY <5>1, <5>2
      <4>3. CASE writer # "none"
        BY <1>4, <3>1, <4>1, <4>3 DEF ErInv, ErFlushed
      <4> QED BY <4>2, <4>3
    <3> QED BY <3>1
  <2> QED BY <1>1, <1>2, <2>1, <2>2, <2>3, HookIndices DEF ErInv, ErFlushed, LcInv
<1>12. ErSweep'
  <2>1. stored \subseteq ToSet(born) /\ IsFiniteSet(stored)
    BY StoredFacts DEF ErInv
  <2>2. \A e \in stored : Age(e)' = Age(e)
    BY <1>1, <1>5, <2>1, AgeStays DEF ErInv
  <2> QED BY <1>1, <2>1, <2>2, SweepStays, ErrorLogAssumption DEF ErInv
<1> QED BY <1>5, <1>7, <1>8, <1>9, <1>10, <1>11, <1>12 DEF ErInv

LEMMA EnqueueSendKeeps ==
  ASSUME ErInv, LcInv, NEW h \in Handlers, EnqueueSend(h)
  PROVE  ErInv'
<1> DEFINE q == sender[h]
<1>1. /\ handler[h] = "sending" /\ handler' = [handler EXCEPT ![h] = "ended"]
      /\ watched' = watched
      /\ UNCHANGED <<hook, late, born, writer, stopping, batch, sender, flush, target, rest, rows,
                     stored, failed>>
  BY DEF EnqueueSend
<1>2. \/ queues' = [queues EXCEPT ![q] = Append(queues[q], h)] /\ dropped' = dropped
      \/ queues' = queues /\ dropped' = dropped \cup {h}
  BY DEF EnqueueSend
<1>3. q \in 1 .. Len(queues) /\ Len(queues) \in Nat
  <2>1. q \in 0 .. Len(queues) /\ q # 0 /\ Len(queues) \in Nat
    BY <1>1, QueueFacts DEF ErInv, ErTyped, ErSenders
  <2> QED BY <2>1
<1>4. \A g \in Handlers : handler'[g] = IF g = h THEN "ended" ELSE handler[g]
  BY <1>1 DEF LcInv
<1>5. h \notin Sent /\ Sent' = Sent \cup {h}
  BY <1>1, <1>3, <1>4 DEF Sent
<1>6. h \notin Queued /\ h \notin dropped
  BY <1>5 DEF ErInv, ErPlaces, Shares
<1>7. /\ queues' \in Seq(Lists(Handlers)) /\ Len(queues') = Len(queues)
      /\ \A p, r \in DOMAIN queues' : p # r => Apart(queues'[p], queues'[r])
      /\ queues' = <<>> <=> queues = <<>>
      /\ \/ Queued' = Queued \cup {h} /\ dropped' = dropped
         \/ Queued' = Queued /\ dropped' = dropped \cup {h}
  <2>1. CASE queues' = queues /\ dropped' = dropped \cup {h}
    BY <2>1, ErrorsKeep DEF ErInv, ErTyped, Apart
  <2>2. CASE queues' = [queues EXCEPT ![q] = Append(queues[q], h)] /\ dropped' = dropped
    <3>1. queues[q] \in Lists(Handlers) /\ ToSet(queues[q]) \subseteq Queued
      BY <1>3, QueueFacts DEF ErInv
    <3>2. /\ Append(queues[q], h) \in Lists(Handlers)
          /\ ToSet(Append(queues[q], h)) = ToSet(queues[q]) \cup {h}
      BY <1>6, <3>1, ListAppend
    <3>3. /\ queues' \in Seq(Lists(Handlers)) /\ Len(queues') = Len(queues)
          /\ \A p, r \in DOMAIN queues' : p # r => Apart(queues'[p], queues'[r])
          /\ Queued' = (Queued \ ToSet(queues[q])) \cup ToSet(Append(queues[q], h))
      <4>1. ToSet(Append(queues[q], h)) \cap (Queued \ ToSet(queues[q])) = {}
        BY <1>6, <3>2
      <4> HIDE DEF q
      <4> QED BY <1>3, <2>2, <3>2, <4>1, QueueReplaced DEF ErInv
    <3>4. queues' # <<>> /\ queues # <<>>
      BY <1>3, <3>3, EmptySeq
    <3> QED BY <2>2, <3>1, <3>2, <3>3, <3>4
  <2> QED BY <1>2, <2>1, <2>2
<1>8. ErTyped'
  BY <1>1, <1>7 DEF ErInv, ErTyped
<1>9. ErSenders'
  BY <1>1, <1>3, <1>4 DEF ErInv, ErSenders
<1>10. ErPlaces'
  BY <1>1, <1>5, <1>7 DEF ErInv, ErPlaces, Shares
<1>11. ErRows'
  BY <1>1, ErrorsKeep
<1>12. ErPhases'
  BY <1>1, <1>7 DEF ErInv, ErPhases
<1>13. ErFlushed'
  <2>1. late = {} => hook <= IndexOf("server")
    BY <1>1, HookIndices DEF LcInv, Done
  <2>2. late = {} => flush = "off"
    BY <2>1, HookIndices DEF ErInv, ErFlushed, ErPhases, LcInv
  <2> QED BY <1>1, <1>7, <2>1, <2>2, HookIndices DEF ErInv, ErFlushed, LcInv
<1>14. ErSweep'
  <2>1. CASE sweep' = sweep
    BY <1>1, <2>1, ErrorsKeep
  <2>2. CASE sweep' # sweep
    <3>1. sweep' = [Quiet EXCEPT !.pc = "count"]
      BY <2>2 DEF EnqueueSend, AskSweep
    <3>2. sweep' = [pc |-> "count", cutoff |-> 0]
      BY <3>1 DEF Quiet
    <3> QED BY <3>2 DEF ErSweep
  <2> QED BY <2>1, <2>2
<1> QED BY <1>8, <1>9, <1>10, <1>11, <1>12, <1>13, <1>14 DEF ErInv

LEMMA WriterTakesKeeps ==
  ASSUME ErInv, LcInv, WriterTakes
  PROVE  ErInv'
<1> DEFINE q == Len(queues)
           e == Head(queues[q])
<1>1. /\ UNCHANGED <<watched, handler, hook, late, born, stopping, sender, flush, target, rest, rows>>
      /\ UNCHANGED <<stored, failed, dropped, sweep>>
      /\ writer = "waiting" /\ writer' \in {"inserting", "waiting"}
  BY DEF WriterTakes, lcVars
<1>2. /\ q \in 1 .. Len(queues) /\ Last(queues) = queues[q] /\ queues # <<>>
      /\ queues[q] \in Lists(Handlers) /\ ToSet(queues[q]) \subseteq Queued
  BY <1>1, QueueFacts DEF ErInv, ErPhases
<1>3. queues[q] # <<>> /\ batch' = Append(batch, e) /\ queues' = [queues EXCEPT ![q] = Tail(queues[q])]
  BY <1>2 DEF WriterTakes
<1>4. /\ Tail(queues[q]) \in Lists(Handlers) /\ e \in ToSet(queues[q])
      /\ ToSet(Tail(queues[q])) = ToSet(queues[q]) \ {e}
  BY <1>2, <1>3, ListTail
<1>5. e \in Queued /\ e \in Handlers /\ e \notin ToSet(batch)
  <2>1. e \in Queued
    BY <1>2, <1>4
  <2> QED BY <2>1 DEF ErInv, ErPlaces, Shares, Sent
<1>6. /\ queues' \in Seq(Lists(Handlers)) /\ Len(queues') = Len(queues)
      /\ \A p, r \in DOMAIN queues' : p # r => Apart(queues'[p], queues'[r])
      /\ Queued' = Queued \ {e}
  <2>1. /\ queues' \in Seq(Lists(Handlers)) /\ Len(queues') = Len(queues)
        /\ \A p, r \in DOMAIN queues' : p # r => Apart(queues'[p], queues'[r])
        /\ Queued' = (Queued \ ToSet(queues[q])) \cup ToSet(Tail(queues[q]))
    BY <1>2, <1>3, <1>4, QueueReplaced DEF ErInv
  <2> QED BY <1>2, <1>4, <2>1
<1>7. batch' \in Lists(Handlers) /\ ToSet(batch') = ToSet(batch) \cup {e}
  BY <1>3, <1>5, ListAppend DEF ErInv, ErTyped
<1> HIDE DEF e, q
<1>8. ErTyped'
  BY <1>1, <1>6, <1>7 DEF ErInv, ErTyped
<1>9. ErSenders' /\ Sent' = Sent /\ ErRows' /\ ErSweep'
  BY <1>1, ErrorsKeep
<1>10. ErPlaces'
  BY <1>1, <1>5, <1>6, <1>7, <1>9 DEF ErInv, ErPlaces, Shares
<1>11. queues' # <<>>
  BY <1>2, <1>6, EmptySeq
<1>12. ErPhases'
  BY <1>1, <1>2, <1>11 DEF ErInv, ErPhases
<1>13. ErFlushed'
  BY <1>1, <1>6 DEF ErInv, ErFlushed
<1> QED BY <1>8, <1>9, <1>10, <1>12, <1>13 DEF ErInv

LEMMA WriterTickKeeps ==
  ASSUME ErInv, LcInv, WriterTick
  PROVE  ErInv'
<1>1. /\ UNCHANGED <<watched, handler, hook, late, born, stopping, sender, flush, target, rest, rows>>
      /\ UNCHANGED <<stored, failed, dropped, sweep, batch, queues>>
      /\ writer = "waiting" /\ writer' = "inserting"
  BY DEF WriterTick, lcVars
<1>2. ErSenders' /\ Sent' = Sent /\ ErRows' /\ ErSweep' /\ Queued' = Queued
  BY <1>1, ErrorsKeep
<1>3. ErTyped' /\ ErPlaces'
  BY <1>1, <1>2 DEF ErInv, ErTyped, ErPlaces, Apart
<1>4. ErPhases' /\ ErFlushed'
  BY <1>1, <1>2 DEF ErInv, ErPhases, ErFlushed
<1> QED BY <1>2, <1>3, <1>4 DEF ErInv

LEMMA WriterStopsKeeps ==
  ASSUME ErInv, LcInv, WriterStops
  PROVE  ErInv'
<1> DEFINE q == Len(queues)
<1>1. /\ UNCHANGED <<watched, handler, hook, late, born, stopping, sender, flush, target, rest, rows>>
      /\ UNCHANGED <<stored, failed, dropped, sweep>>
      /\ writer = "waiting" /\ writer' = "leaving" /\ stopping
  BY DEF WriterStops, lcVars
<1>2. /\ q \in 1 .. Len(queues) /\ Last(queues) = queues[q] /\ queues # <<>>
      /\ queues[q] \in Lists(Handlers) /\ ToSet(queues[q]) \subseteq Queued
  BY <1>1, QueueFacts DEF ErInv, ErPhases
<1>3. batch' = batch \o queues[q] /\ queues' = [queues EXCEPT ![q] = <<>>]
  BY <1>2 DEF WriterStops
<1>4. <<>> \in Lists(Handlers) /\ ToSet(<<>>) = {}
  BY ListFacts
<1>5. /\ queues' \in Seq(Lists(Handlers)) /\ Len(queues') = Len(queues)
      /\ \A p, r \in DOMAIN queues' : p # r => Apart(queues'[p], queues'[r])
      /\ Queued' = Queued \ ToSet(queues[q])
  <2>1. /\ queues' \in Seq(Lists(Handlers)) /\ Len(queues') = Len(queues)
        /\ \A p, r \in DOMAIN queues' : p # r => Apart(queues'[p], queues'[r])
        /\ Queued' = (Queued \ ToSet(queues[q])) \cup ToSet(<<>>)
    BY <1>2, <1>3, <1>4, QueueReplaced DEF ErInv
  <2> QED BY <1>4, <2>1
<1>6. batch' \in Lists(Handlers) /\ ToSet(batch') = ToSet(batch) \cup ToSet(queues[q])
  <2>1. ToSet(batch) \cap Queued = {}
    BY DEF ErInv, ErPlaces, Shares
  <2>2. Apart(batch, queues[q])
    BY <1>2, <2>1 DEF Apart
  <2> QED BY <1>2, <1>3, <2>2, ListConcat DEF ErInv, ErTyped
<1> HIDE DEF q
<1>7. ErTyped'
  BY <1>1, <1>5, <1>6 DEF ErInv, ErTyped
<1>8. ErSenders' /\ Sent' = Sent /\ ErRows' /\ ErSweep'
  BY <1>1, ErrorsKeep
<1>9. ErPlaces'
  BY <1>1, <1>2, <1>5, <1>6, <1>8 DEF ErInv, ErPlaces, Shares
<1>10. queues' # <<>>
  BY <1>2, <1>5, EmptySeq
<1>11. ErPhases'
  BY <1>1, <1>10 DEF ErInv, ErPhases
<1>12. ErFlushed'
  BY <1>1, <1>5 DEF ErInv, ErFlushed
<1> QED BY <1>7, <1>8, <1>9, <1>11, <1>12 DEF ErInv

\* An insert moves the entries to the table, or its failure to those given up.
LEMMA Inserted ==
  ASSUME ErInv, NEW entries \in Lists(Handlers),
         ToSet(entries) \cap (stored \cup failed \cup dropped) = {},
         UNCHANGED <<born, sweep>>,
         \/ /\ rows' \in {WithRows(rows, entries), Trim(WithRows(rows, entries))}
            /\ stored' = stored \cup ToSet(entries) /\ failed' = failed
         \/ failed' = failed \cup ToSet(entries) /\ UNCHANGED <<rows, stored>>
  PROVE  /\ ErRows' /\ ErSweep'
         /\ \/ stored' = stored \cup ToSet(entries) /\ failed' = failed
            \/ failed' = failed \cup ToSet(entries) /\ stored' = stored
<1>1. stored \subseteq ToSet(born) /\ IsFiniteSet(stored) /\ IsFiniteSet(ToSet(entries))
  BY StoredFacts, ListCount DEF ErInv
<1>2. CASE failed' = failed \cup ToSet(entries) /\ UNCHANGED <<rows, stored>>
  BY <1>2, ErrorsKeep
<1>3. CASE /\ rows' \in {WithRows(rows, entries), Trim(WithRows(rows, entries))}
           /\ stored' = stored \cup ToSet(entries) /\ failed' = failed
  <2>1. RowsFit(WithRows(rows, entries), stored \cup ToSet(entries))
    BY <1>1, RowsInserted DEF ErInv
  <2>2. RowsFit(Trim(WithRows(rows, entries)), stored \cup ToSet(entries))
    BY <2>1, RowsTrimmed
  <2>3. ErRows'
    <3>1. RowsFit(rows', stored')
      BY <1>3, <2>1, <2>2
    <3> QED BY <3>1 DEF ErRows, RowsFit
  <2>4. IsFiniteSet(stored')
    BY <1>1, <1>3, FS_Union
  <2>5. \A e \in stored : Age(e)' = Age(e)
    BY DEF Age
  <2>6. ErSweep'
    BY <1>3, <2>4, <2>5, SweepStays, ErrorLogAssumption DEF ErInv
  <2> QED BY <1>3, <2>3, <2>6
<1> QED BY <1>2, <1>3

LEMMA WriterInsertsKeeps ==
  ASSUME ErInv, LcInv, WriterInserts
  PROVE  ErInv'
<1>1. /\ UNCHANGED <<watched, handler, hook, late, born, stopping, sender, flush, target, rest>>
      /\ UNCHANGED <<dropped, sweep, queues>>
      /\ writer \in {"inserting", "leaving"} /\ batch' = <<>>
      /\ writer' = IF writer = "leaving" THEN "dead" ELSE "waiting"
  BY DEF WriterInserts, lcVars
<1>2. batch \in Lists(Handlers) /\ <<>> \in Lists(Handlers) /\ ToSet(<<>>) = {}
  BY ListFacts DEF ErInv, ErTyped
<1>3. ToSet(batch) \cap (stored \cup failed \cup dropped) = {}
  BY DEF ErInv, ErPlaces, Shares
<1>4. /\ ErRows' /\ ErSweep'
      /\ \/ stored' = stored \cup ToSet(batch) /\ failed' = failed
         \/ failed' = failed \cup ToSet(batch) /\ stored' = stored
  <2>1. CASE batch = <<>>
    <3>1. UNCHANGED <<rows, stored, failed>>
      BY <2>1 DEF WriterInserts
    <3> QED BY <1>1, <1>2, <2>1, <3>1, ErrorsKeep
  <2>2. CASE batch # <<>>
    <3>1. Insert(batch)
      BY <2>2 DEF WriterInserts
    <3>2. \/ /\ rows' \in {WithRows(rows, batch), Trim(WithRows(rows, batch))}
             /\ stored' = stored \cup ToSet(batch) /\ failed' = failed
          \/ failed' = failed \cup ToSet(batch) /\ UNCHANGED <<rows, stored>>
      BY <3>1 DEF Insert
    <3> QED BY <1>1, <1>2, <1>3, <3>2, Inserted
  <2> QED BY <2>1, <2>2
<1>5. ErSenders' /\ Sent' = Sent /\ Queued' = Queued
  BY <1>1, ErrorsKeep
<1>6. ErTyped'
  BY <1>1, <1>2 DEF ErInv, ErTyped, Apart
<1>7. ErPlaces'
  <2>1. ToSet(batch') = {} /\ ToSet(rest') = ToSet(rest) /\ dropped' = dropped
    BY <1>1, <1>2
  <2> QED BY <1>4, <1>5, <2>1 DEF ErInv, ErPlaces, Shares
<1>8. ErPhases' /\ ErFlushed'
  BY <1>1, <1>5 DEF ErInv, ErPhases, ErFlushed
<1> QED BY <1>4, <1>5, <1>6, <1>7, <1>8 DEF ErInv

LEMMA FlushStartsKeeps ==
  ASSUME ErInv, LcInv, FlushStarts
  PROVE  ErInv'
<1>1. /\ UNCHANGED <<watched, handler, hook, late, born, queues, writer, batch, sender, rest, rows>>
      /\ UNCHANGED <<stored, failed, dropped, sweep>>
      /\ flush = "off" /\ target' = Len(queues) /\ hook >= IndexOf("error_log")
      /\ \/ queues = <<>> /\ flush' = "done"
         \/ queues # <<>> /\ flush' = "waiting"
  BY DEF FlushStarts, Begun, lcVars
<1>2. ErSenders' /\ Sent' = Sent /\ ErRows' /\ ErSweep' /\ Queued' = Queued
  BY <1>1, ErrorsKeep
<1>3. queues # <<>> => Len(queues) # 0
  BY QueueFacts DEF ErInv
<1>4. ErTyped' /\ ErPlaces'
  BY <1>1, <1>2, QueueFacts DEF ErInv, ErTyped, ErPlaces, Apart
<1>5. ErPhases'
  BY <1>1, <1>3 DEF ErInv, ErPhases
<1>6. ErFlushed'
  <2>1. queues = <<>> => writer = "none" /\ Queued = {}
    BY DEF ErInv, ErPhases, Queued
  <2>2. ~(hook > IndexOf("error_log") /\ late = {})
    BY <1>1 DEF ErInv, ErFlushed
  <2> QED BY <1>1, <1>2, <2>1, <2>2 DEF ErInv, ErFlushed
<1> QED BY <1>2, <1>4, <1>5, <1>6 DEF ErInv

LEMMA FlushDrainsKeeps ==
  ASSUME ErInv, LcInv, FlushDrains
  PROVE  ErInv'
<1>1. /\ UNCHANGED <<watched, handler, hook, late, born, writer, stopping, sender, target, rows>>
      /\ UNCHANGED <<stored, failed, dropped, sweep, batch>>
      /\ flush = "waiting" /\ (writer = "dead" \/ target < Len(queues))
      /\ rest' = queues[target] /\ queues' = [queues EXCEPT ![target] = <<>>]
      /\ \/ flush' = "done" /\ rest' = <<>>
         \/ flush' = "inserting"
  BY DEF FlushDrains, lcVars
<1>2. target \in 1 .. Len(queues) /\ Len(queues) \in Nat
  <2>1. target \in 0 .. Len(queues) /\ target # 0 /\ Len(queues) \in Nat
    BY <1>1, QueueFacts DEF ErInv, ErTyped, ErPhases
  <2> QED BY <2>1
<1>3. queues[target] \in Lists(Handlers) /\ ToSet(queues[target]) \subseteq Queued
  BY <1>2, QueueFacts DEF ErInv
<1>4. <<>> \in Lists(Handlers) /\ ToSet(<<>>) = {} /\ rest = <<>>
  BY <1>1, ListFacts DEF ErInv, ErPhases
<1>5. /\ queues' \in Seq(Lists(Handlers)) /\ Len(queues') = Len(queues)
      /\ \A p, r \in DOMAIN queues' : p # r => Apart(queues'[p], queues'[r])
      /\ Queued' = Queued \ ToSet(queues[target])
  <2>1. /\ queues' \in Seq(Lists(Handlers)) /\ Len(queues') = Len(queues)
        /\ \A p, r \in DOMAIN queues' : p # r => Apart(queues'[p], queues'[r])
        /\ Queued' = (Queued \ ToSet(queues[target])) \cup ToSet(<<>>)
    BY <1>1, <1>2, <1>4, QueueReplaced DEF ErInv
  <2> QED BY <1>4, <2>1
<1>6. ErTyped'
  BY <1>1, <1>3, <1>5 DEF ErInv, ErTyped
<1>7. ErSenders' /\ Sent' = Sent /\ ErRows' /\ ErSweep'
  BY <1>1, ErrorsKeep
<1>8. ErPlaces'
  <2>1. ToSet(batch') = ToSet(batch) /\ ToSet(rest') = ToSet(queues[target]) /\ ToSet(rest) = {}
    BY <1>1, <1>4
  <2> QED BY <1>1, <1>3, <1>5, <1>7, <2>1 DEF ErInv, ErPlaces, Shares
<1>9. queues' # <<>> /\ queues # <<>>
  BY <1>2, <1>5, EmptySeq
<1>10. ErPhases'
  BY <1>1, <1>9 DEF ErInv, ErPhases
<1>11. ErFlushed'
  <2>1. ASSUME late = {}
        PROVE  writer = "dead" /\ Queued' = {}
    <3>1. Len(queues) = 1 /\ target = 1
      <4>1. Len(queues) <= 1
        BY <2>1 DEF ErInv, ErFlushed
      <4>2. \A n \in Nat : n <= 1 => \A t \in 1 .. n : n = 1 /\ t = 1
        OBVIOUS
      <4> QED BY <1>2, <4>1, <4>2
    <3>2. Queued = ToSet(queues[1])
      BY <3>1, QueueFacts DEF ErInv, Queued
    <3> QED BY <1>1, <1>5, <3>1, <3>2
  <2>2. ~(hook > IndexOf("error_log") /\ late = {})
    BY <1>1 DEF ErInv, ErFlushed
  <2> QED BY <1>1, <1>5, <2>1, <2>2 DEF ErInv, ErFlushed
<1> QED BY <1>6, <1>7, <1>8, <1>10, <1>11 DEF ErInv

LEMMA FlushInsertsKeeps ==
  ASSUME ErInv, LcInv, FlushInserts
  PROVE  ErInv'
<1>1. /\ UNCHANGED <<watched, handler, hook, late, born, queues, writer, stopping, batch, sender>>
      /\ UNCHANGED <<target, dropped, sweep>>
      /\ flush = "inserting" /\ flush' = "done" /\ rest' = <<>>
      /\ \/ /\ rows' \in {WithRows(rows, rest), Trim(WithRows(rows, rest))}
            /\ stored' = stored \cup ToSet(rest) /\ failed' = failed
         \/ failed' = failed \cup ToSet(rest) /\ UNCHANGED <<rows, stored>>
  BY DEF FlushInserts, lcVars
<1>2. rest \in Lists(Handlers) /\ <<>> \in Lists(Handlers) /\ ToSet(<<>>) = {}
  BY ListFacts DEF ErInv, ErTyped
<1>3. ToSet(rest) \cap (stored \cup failed \cup dropped) = {}
  BY DEF ErInv, ErPlaces, Shares
<1>4. /\ ErRows' /\ ErSweep'
      /\ \/ stored' = stored \cup ToSet(rest) /\ failed' = failed
         \/ failed' = failed \cup ToSet(rest) /\ stored' = stored
  BY <1>1, <1>2, <1>3, Inserted
<1>5. ErSenders' /\ Sent' = Sent /\ Queued' = Queued
  BY <1>1, ErrorsKeep
<1>6. ErTyped'
  BY <1>1, <1>2 DEF ErInv, ErTyped, Apart
<1>7. ErPlaces'
  <2>1. ToSet(batch') = ToSet(batch) /\ ToSet(rest') = {} /\ dropped' = dropped
    BY <1>1, <1>2
  <2> QED BY <1>4, <1>5, <2>1 DEF ErInv, ErPlaces, Shares
<1>8. ErPhases' /\ ErFlushed'
  BY <1>1, <1>5 DEF ErInv, ErPhases, ErFlushed
<1> QED BY <1>4, <1>5, <1>6, <1>7, <1>8 DEF ErInv

LEMMA FlushGivesUpKeeps ==
  ASSUME ErInv, LcInv, FlushGivesUp
  PROVE  ErInv'
<1>1. /\ UNCHANGED <<watched, handler, hook, born, queues, writer, stopping, batch, sender, target>>
      /\ UNCHANGED <<rest, rows, stored, failed, dropped, sweep>>
      /\ flush = "waiting" /\ flush' = "done" /\ late' # {}
  BY DEF FlushGivesUp
<1>2. ErSenders' /\ Sent' = Sent /\ ErRows' /\ ErSweep' /\ Queued' = Queued
  BY <1>1, ErrorsKeep
<1>3. ErTyped' /\ ErPlaces'
  BY <1>1, <1>2 DEF ErInv, ErTyped, ErPlaces, Apart
<1>4. ErPhases' /\ ErFlushed'
  BY <1>1 DEF ErInv, ErPhases, ErFlushed
<1> QED BY <1>2, <1>3, <1>4 DEF ErInv

LEMMA ErrorLogHookEndsKeeps ==
  ASSUME ErInv, LcInv, ErrorLogHookEnds
  PROVE  ErInv'
<1>1. /\ UNCHANGED <<watched, handler, late, born, queues, writer, stopping, batch, sender, target>>
      /\ UNCHANGED <<rest, rows, stored, failed, dropped, sweep>>
      /\ flush = "done" /\ flush' = "done" /\ hook' = hook + 1
  BY DEF ErrorLogHookEnds, Ends, elVars
<1>2. ErSenders' /\ Sent' = Sent /\ ErRows' /\ ErSweep' /\ Queued' = Queued
  BY <1>1, ErrorsKeep
<1>3. ErTyped' /\ ErPlaces'
  BY <1>1, <1>2 DEF ErInv, ErTyped, ErPlaces, Apart
<1>4. ErPhases' /\ ErFlushed'
  BY <1>1, <1>2, HookIndices DEF ErInv, ErPhases, ErFlushed, LcInv
<1> QED BY <1>2, <1>3, <1>4 DEF ErInv

\* What deletes rows disturbs nothing else.
RowsDeleted == CleanExpired \/ DeleteAll \/ SweepCounts \/ SweepCutoff \/ SweepDeletes

LEMMA RowsDeletedKeeps ==
  ASSUME ErInv, LcInv, RowsDeleted
  PROVE  ErInv'
<1>1. /\ UNCHANGED <<watched, handler, hook, late, born, queues, writer, stopping, batch, sender>>
      /\ UNCHANGED <<flush, target, rest, stored, failed, dropped>>
  BY DEF RowsDeleted, CleanExpired, DeleteAll, SweepCounts, SweepCutoff, SweepDeletes, lcVars
<1>2. ErSenders' /\ Sent' = Sent /\ Queued' = Queued
  BY <1>1, ErrorsKeep
<1>3. ErTyped' /\ ErPlaces'
  BY <1>1, <1>2 DEF ErInv, ErTyped, ErPlaces, Apart
<1>4. ErPhases' /\ ErFlushed'
  BY <1>1, <1>2 DEF ErInv, ErPhases, ErFlushed
<1>5. ErRows'
  <2>1. RowsFit(rows, stored)
    BY DEF ErInv, ErRows
  <2>2. RowsFit(rows', stored)
    <3>1. CASE CleanExpired
      <4>1. CASE rows' = rows
        BY <2>1, <4>1
      <4>2. CASE rows' # rows
        <5>1. PICK n \in 0 .. Len(born) :
                 LET young == RestrictValues(rows, LAMBDA e : Age(e) > n)
                 IN rows' \in {young, Trim(young)}
          BY <3>1, <4>2 DEF CleanExpired
        <5> DEFINE young == RestrictValues(rows, LAMBDA e : Age(e) > n)
        <5>2. RowsFit(young, stored)
          <6> DEFINE D == {i \in DOMAIN rows : Age(rows[i]) > n}
          <6>1. young = Restrict(rows, D) /\ D \in SUBSET DOMAIN rows
            BY DEF RestrictValues
          <6> HIDE DEF young, D
          <6> QED BY <2>1, <6>1, RowsFewer
        <5>3. rows' = young \/ rows' = Trim(young)
          BY <5>1
        <5> HIDE DEF young
        <5> QED BY <5>2, <5>3, RowsTrimmed
      <4> QED BY <4>1, <4>2
    <3>2. CASE DeleteAll
      <4>1. rows' = <<>>
        BY <3>2 DEF DeleteAll
      <4> QED BY <4>1 DEF RowsFit, IsInjective, Range
    <3>3. CASE SweepDeletes
      <4> DEFINE D == {i \in DOMAIN rows : Age(rows[i]) >= sweep.cutoff}
      <4>1. rows' = Restrict(rows, D) \/ rows' = rows
        BY <3>3 DEF SweepDeletes, RestrictValues
      <4>2. D \in SUBSET DOMAIN rows
        OBVIOUS
      <4> HIDE DEF D
      <4> QED BY <2>1, <4>1, <4>2, RowsFewer
    <3>4. CASE SweepCounts \/ SweepCutoff
      BY <2>1, <3>4 DEF SweepCounts, SweepCutoff
    <3> QED BY <3>1, <3>2, <3>3, <3>4 DEF RowsDeleted
  <2> QED BY <1>1, <2>2 DEF ErRows, RowsFit
<1>6. ErSweep'
  <2>1. CASE sweep' = sweep
    BY <1>1, <2>1, ErrorsKeep
  <2>2. CASE sweep' = [pc |-> "off", cutoff |-> 0]
    BY <2>2 DEF ErSweep
  <2>3. CASE SweepCounts /\ sweep' = [sweep EXCEPT !.pc = "cutoff"]
    <3>1. sweep'.pc = "cutoff" /\ sweep' \in [pc : {"off", "count", "cutoff", "delete"}, cutoff : Nat]
      BY <2>3 DEF ErInv, ErSweep
    <3> QED BY <3>1 DEF ErSweep
  <2>4. CASE SweepCutoff /\ sweep' # sweep /\ sweep' # [pc |-> "off", cutoff |-> 0]
    <3> DEFINE Newer(e) == {f \in Range(rows) : Age(f) >= Age(e)}
               nth == {e \in Range(rows) : Cardinality(Newer(e)) = Keep}
               last == CHOOSE e \in nth : TRUE
    <3>1. nth # {} /\ sweep' = [pc |-> "delete", cutoff |-> Age(last)]
      BY <2>4 DEF SweepCutoff, Quiet
    <3>2. last \in Range(rows) /\ Cardinality(Newer(last)) = Keep
      BY <3>1
    <3> HIDE DEF nth, last
    <3>3. /\ stored \subseteq ToSet(born) /\ IsFiniteSet(stored) /\ Range(rows) \subseteq stored
      BY StoredFacts DEF ErInv, ErRows, RowsFit
    <3>4. Age(last) \in Nat
      BY <3>2, <3>3, AgeFacts, QueueFacts, ListIndices DEF ErInv, ErTyped
    <3>5. Newer(last) \subseteq {f \in stored : Age(f) >= Age(last)}
      BY <3>3
    <3>6. IsFiniteSet({f \in stored : Age(f) >= Age(last)})
      BY <3>3, FS_Subset
    <3>7. /\ Cardinality(Newer(last)) <= Cardinality({f \in stored : Age(f) >= Age(last)})
          /\ Cardinality({f \in stored : Age(f) >= Age(last)}) \in Nat
      BY <3>5, <3>6, FS_Subset, FS_CardinalityType
    <3>8. Cardinality({f \in stored : Age(f) >= Age(last)}) >= Keep
      BY <3>2, <3>7, ErrorLogAssumption DEF ErrorLogAssumption
    <3>9. \A e : Age(e)' = Age(e)
      BY <1>1 DEF Age
    <3>10. sweep'.cutoff = Age(last) /\ sweep' \in [pc : {"off", "count", "cutoff", "delete"}, cutoff : Nat]
      BY <3>1, <3>4
    <3>11. {f \in stored' : Age(f)' >= sweep'.cutoff} = {f \in stored : Age(f) >= Age(last)}
      BY <1>1, <3>9, <3>10
    <3> QED BY <3>8, <3>10, <3>11 DEF ErSweep
  <2>5. CASE ~SweepCounts /\ ~SweepCutoff
    <3>1. sweep' = sweep \/ sweep' = Quiet
      BY <2>5 DEF RowsDeleted, CleanExpired, DeleteAll, SweepDeletes
    <3> QED BY <2>1, <2>2, <3>1 DEF Quiet
  <2>6. SweepCounts => sweep' = Quiet \/ sweep' = [sweep EXCEPT !.pc = "cutoff"]
    BY DEF SweepCounts
  <2> QED BY <2>1, <2>2, <2>3, <2>4, <2>5, <2>6 DEF Quiet
<1> QED BY <1>2, <1>3, <1>4, <1>5, <1>6 DEF ErInv

ErrorLogStep ==
    \/ \E h \in Handlers : EnqueueCapture(h) \/ EnqueueSend(h)
    \/ WriterTakes \/ WriterTick \/ WriterStops \/ WriterInserts
    \/ FlushStarts \/ FlushDrains \/ FlushInserts \/ FlushGivesUp \/ ErrorLogHookEnds
    \/ RowsDeleted

\* No action of the error log disturbs its own invariant ...
LEMMA ErrorLogKeeps ==
  ASSUME ErInv, LcInv, ErrorLogStep
  PROVE  ErInv'
BY EnqueueCaptureKeeps, EnqueueSendKeeps, WriterTakesKeeps, WriterTickKeeps, WriterStopsKeeps,
   WriterInsertsKeeps, FlushStartsKeeps, FlushDrainsKeeps, FlushInsertsKeeps, FlushGivesUpKeeps,
   ErrorLogHookEndsKeeps, RowsDeletedKeeps DEF ErrorLogStep

\* ... or the other writers.
LEMMA ErrorLogMoves ==
  ASSUME ErInv, LcInv, ErrorLogStep
  PROVE  /\ LcInv'
         /\ Elsewhere("conversations", "conversations") /\ Elsewhere("stats", "client_stats")
<1> USE HookIndices DEF LcInv, Elsewhere, Forward, Passes, Minds, Done
<1>1. ASSUME NEW h \in Handlers, EnqueueCapture(h)
      PROVE  /\ LcInv'
             /\ Elsewhere("conversations", "conversations") /\ Elsewhere("stats", "client_stats")
  BY <1>1 DEF EnqueueCapture
<1>2. ASSUME NEW h \in Handlers, EnqueueSend(h)
      PROVE  /\ LcInv'
             /\ Elsewhere("conversations", "conversations") /\ Elsewhere("stats", "client_stats")
  <2>1. watched = "errors"
    BY <1>2 DEF EnqueueSend, ErInv, ErSenders
  <2> QED BY <1>2, <2>1 DEF EnqueueSend
<1>3. CASE WriterTakes \/ WriterTick \/ WriterStops \/ WriterInserts
  BY <1>3 DEF WriterTakes, WriterTick, WriterStops, WriterInserts, lcVars
<1>4. CASE FlushStarts \/ FlushDrains \/ FlushInserts
  BY <1>4 DEF FlushStarts, FlushDrains, FlushInserts, lcVars
<1>5. CASE FlushGivesUp
  <2>1. /\ UNCHANGED <<watched, handler, panel, hook, cancelled, run>>
        /\ late' # {} /\ late \subseteq late'
    BY <1>5 DEF FlushGivesUp
  <2> QED BY <2>1
<1>6. CASE ErrorLogHookEnds
  BY <1>6 DEF ErrorLogHookEnds, Ends, AtWork
<1>7. CASE RowsDeleted
  <2>1. CASE CleanExpired
    <3>1. /\ UNCHANGED <<watched, handler, panel, hook, late, cancelled>>
          /\ run' = [run EXCEPT !["clean_error_logs"] = "idle"]
      BY <2>1 DEF CleanExpired
    <3> QED BY <3>1
  <2>2. CASE DeleteAll \/ SweepCounts \/ SweepCutoff \/ SweepDeletes
    <3>1. UNCHANGED <<watched, handler, panel, hook, late, cancelled, run>>
      BY <2>2 DEF DeleteAll, SweepCounts, SweepCutoff, SweepDeletes, lcVars
    <3> QED BY <3>1
  <2> QED BY <1>7, <2>1, <2>2 DEF RowsDeleted
<1> QED BY <1>1, <1>2, <1>3, <1>4, <1>5, <1>6, <1>7 DEF ErrorLogStep

\* What the invariant says of the entries.
LEMMA EntriesAccounted ==
  ASSUME ErInv
  PROVE  ErrorEntriesAccounted
<1> DEFINE places == <<Queued, ToSet(batch), ToSet(rest), stored, failed, dropped>>
<1>1. DOMAIN places = 1 .. 6
  OBVIOUS
<1>2. /\ places[1] = Queued /\ places[2] = ToSet(batch) /\ places[3] = ToSet(rest)
      /\ places[4] = stored /\ places[5] = failed /\ places[6] = dropped
  OBVIOUS
<1>3. \A i \in 1 .. 6 : i = 1 \/ i = 2 \/ i = 3 \/ i = 4 \/ i = 5 \/ i = 6
  OBVIOUS
<1> HIDE DEF places
<1>4. Shares(Sent, places[1], places[2], places[3], places[4], places[5], places[6])
  BY <1>2 DEF ErInv, ErPlaces
<1>5. Sent = UNION {places[i] : i \in DOMAIN places}
  <2>1. \A x : x \in UNION {places[i] : i \in 1 .. 6} <=> \E i \in 1 .. 6 : x \in places[i]
    OBVIOUS
  <2>2. \A x : (\E i \in 1 .. 6 : x \in places[i])
               <=> x \in places[1] \cup places[2] \cup places[3] \cup places[4] \cup places[5] \cup places[6]
    BY <1>3
  <2> QED BY <1>1, <1>4, <2>1, <2>2 DEF Shares
<1>6. ASSUME NEW i \in DOMAIN places, NEW j \in DOMAIN places, i # j
      PROVE  places[i] \cap places[j] = {}
  <2>1. \A x : \A k, m \in 1 .. 6 : x \in places[k] /\ x \in places[m] => k = m
    BY <1>3, <1>4 DEF Shares
  <2> QED BY <1>1, <1>6, <2>1
<1>7. IsInjective(rows) /\ Range(rows) \subseteq stored
  BY DEF ErInv, ErRows, RowsFit
<1> QED BY <1>5, <1>6, <1>7 DEF ErrorEntriesAccounted, places, Queued, Sent

LEMMA EntriesSaved ==
  ASSUME ErInv, LcInv
  PROVE  ErrorsSaved
<1> SUFFICES ASSUME Exited, late = {}, NEW h \in Handlers, sender[h] # 0
             PROVE  h \in stored \cup failed \cup dropped
  BY DEF ErrorsSaved
<1>1. hook > IndexOf("error_log") /\ hook > IndexOf("server")
  BY HookIndices DEF Exited, Up, LcInv
<1>2. flush = "done" /\ Queued = {} /\ writer \in {"none", "dead"}
  BY <1>1 DEF ErInv, ErFlushed
<1>3. ToSet(batch) = {} /\ ToSet(rest) = {}
  BY <1>2, ListFacts DEF ErInv, ErPhases
<1>4. h \in Sent
  BY <1>1 DEF LcInv, Done, Sent, ErInv, ErSenders
<1> QED BY <1>2, <1>3, <1>4 DEF ErInv, ErPlaces, Shares

\* The last statement of the sweep deletes what is older than Keep entries.
LEMMA SweepSpares ==
  ASSUME ErInv, SweepDeletes, NEW e \in Range(rows) \ Range(rows')
  PROVE  Cardinality({f \in stored : Age(f) > Age(e)}) >= Keep
<1> DEFINE D == {i \in DOMAIN rows : Age(rows[i]) >= sweep.cutoff}
           known == {f \in stored : Age(f) >= sweep.cutoff}
           newer == {f \in stored : Age(f) > Age(e)}
<1>1. /\ stored \subseteq ToSet(born) /\ IsFiniteSet(stored) /\ Range(rows) \subseteq stored
  BY StoredFacts DEF ErInv, ErRows, RowsFit
<1>2. \A f \in stored : Age(f) \in Nat
  BY <1>1, AgeFacts, ListIndices DEF ErInv, ErTyped
<1>3. rows' = Restrict(rows, D)
  <2>1. rows' = Restrict(rows, D) \/ rows' = rows
    BY DEF SweepDeletes, RestrictValues
  <2> QED BY <2>1
<1>4. ~(Age(e) >= sweep.cutoff)
  <2>1. PICK i \in DOMAIN rows : rows[i] = e
    BY DEF Range
  <2>2. DOMAIN rows' = D /\ \A j \in D : rows'[j] = rows[j]
    BY <1>3 DEF Restrict
  <2>3. i \notin D
    <3> HIDE DEF D
    <3> QED BY <2>1, <2>2 DEF Range
  <2> QED BY <2>1, <2>3
<1>5. sweep.cutoff \in Nat /\ e \in stored
  BY <1>1 DEF ErInv, ErSweep
<1>6. known \subseteq newer
  BY <1>2, <1>4, <1>5
<1>7. Cardinality(known) <= Cardinality(newer) /\ Cardinality(known) \in Nat
      /\ Cardinality(newer) \in Nat
  <2>1. IsFiniteSet(newer)
    BY <1>1, FS_Subset
  <2> QED BY <1>6, <2>1, FS_Subset, FS_CardinalityType
<1>8. Cardinality(known) >= Keep
  BY DEF ErInv, ErSweep, SweepDeletes
<1> QED BY <1>7, <1>8, ErrorLogAssumption DEF ErrorLogAssumption

-----------------------------------------------------------------------------
(* Client statistics: helpers.                                             *)

LEMMA ListRemove ==
  ASSUME NEW S, NEW s \in Lists(S), NEW e
  PROVE  RemoveFirst(s, e) \in Lists(S) /\ ToSet(RemoveFirst(s, e)) = ToSet(s) \ {e}
<1>1. /\ s \in Seq(S) /\ Len(s) \in Nat /\ DOMAIN s = 1 .. Len(s)
      /\ \A i, j \in 1 .. Len(s) : s[i] = s[j] => i = j
  BY ListIndices
<1>2. CASE ~\E i \in 1 .. Len(s) : s[i] = e
  <2>1. RemoveFirst(s, e) = s
    BY <1>2 DEF RemoveFirst
  <2>2. e \notin ToSet(s)
    BY <1>1, <1>2 DEF ToSet
  <2> QED BY <2>1, <2>2
<1>3. ASSUME NEW k \in 1 .. Len(s), s[k] = e
      PROVE  RemoveFirst(s, e) \in Lists(S) /\ ToSet(RemoveFirst(s, e)) = ToSet(s) \ {e}
  <2> DEFINE first == SubSeq(s, 1, k - 1)
             others == SubSeq(s, k + 1, Len(s))
  <2>1. RemoveFirst(s, e) = first \o others
    <3>1. {i \in 1 .. Len(s) : s[i] = e} = {k}
      BY <1>1, <1>3
    <3>2. Min({k}) = k
      <4>1. \E x \in {k} : \A y \in {k} : x =< y
        BY <1>1
      <4> QED BY <4>1 DEF Min
    <3>3. SelectInSeq(s, LAMBDA v : v = e) = k
      BY <3>1, <3>2 DEF SelectInSeq
    <3> QED BY <1>3, <3>3 DEF RemoveFirst, RemoveAt
  <2>2. /\ first \in Lists(S) /\ Len(first) = k - 1
        /\ others \in Lists(S) /\ Len(others) = Len(s) - k
    <3>1. k - 1 \in 0 .. Len(s) /\ k \in 0 .. Len(s) /\ (k - 1) + 1 = k
      BY <1>1
    <3>2. first \in Lists(S) /\ Len(first) = k - 1
      BY <3>1, ListSplit
    <3>3. others \in Lists(S) /\ Len(others) = Len(s) - k
      BY <3>1, ListSplit
    <3> QED BY <3>2, <3>3
  <2>3. /\ \A i \in 1 .. k - 1 : first[i] = s[i]
        /\ \A i \in 1 .. Len(s) - k : others[i] = s[k + i]
    BY <1>1
  <2> HIDE DEF first, others
  <2>4. ASSUME NEW x
        PROVE  /\ x \in ToSet(first) <=> \E i \in 1 .. k - 1 : s[i] = x
               /\ x \in ToSet(others) <=> \E i \in k + 1 .. Len(s) : s[i] = x
               /\ x \in ToSet(s) <=> \E i \in 1 .. Len(s) : s[i] = x
    <3>1. DOMAIN first = 1 .. k - 1 /\ DOMAIN others = 1 .. Len(s) - k
      BY <2>2, ListIndices
    <3>2. x \in ToSet(first) <=> \E i \in 1 .. k - 1 : s[i] = x
      BY <2>3, <3>1 DEF ToSet
    <3>3. x \in ToSet(others) <=> \E i \in 1 .. Len(s) - k : s[k + i] = x
      BY <2>3, <3>1 DEF ToSet
    <3>4. (\E i \in 1 .. Len(s) - k : s[k + i] = x) <=> \E i \in k + 1 .. Len(s) : s[i] = x
      <4>1. \A i \in 1 .. Len(s) - k : k + i \in k + 1 .. Len(s)
        BY <1>1
      <4>2. \A i \in k + 1 .. Len(s) : i - k \in 1 .. Len(s) - k /\ k + (i - k) = i
        BY <1>1
      <4> QED BY <4>1, <4>2
    <3>5. x \in ToSet(s) <=> \E i \in 1 .. Len(s) : s[i] = x
      BY <1>1 DEF ToSet
    <3> QED BY <3>2, <3>3, <3>4, <3>5
  <2>5. \A i \in 1 .. k - 1 : i \in 1 .. Len(s) /\ i # k
    BY <1>1
  <2>6. \A i \in k + 1 .. Len(s) : i \in 1 .. Len(s) /\ i # k /\ i \notin 1 .. k - 1
    BY <1>1
  <2>7. \A i \in 1 .. Len(s) : i \in 1 .. k - 1 \/ i = k \/ i \in k + 1 .. Len(s)
    BY <1>1
  <2>8. Apart(first, others)
    BY <1>1, <2>4, <2>5, <2>6 DEF Apart
  <2>9. ToSet(first) \cup ToSet(others) = ToSet(s) \ {e}
    <3>1. ASSUME NEW x
          PROVE  x \in ToSet(first) \cup ToSet(others) <=> x \in ToSet(s) \ {e}
      BY <1>1, <1>3, <2>4, <2>5, <2>6, <2>7
    <3> QED BY <3>1
  <2> QED BY <2>1, <2>2, <2>8, <2>9, ListConcat
<1> QED BY <1>2, <1>3

LEMMA ListOfSet ==
  ASSUME NEW S, NEW T \in SUBSET S, IsFiniteSet(T)
  PROVE  SetToSeq(T) \in Lists(S) /\ ToSet(SetToSeq(T)) = T
<1> DEFINE n == Cardinality(T)
           s == SetToSeq(T)
<1>1. n \in Nat /\ ExistsBijection(1 .. n, T)
  BY FS_CardinalityType
<1>2. \E f \in [1 .. n -> T] : IsInjective(f)
  BY <1>1 DEF ExistsBijection, Bijection, Injection
<1>3. s \in [1 .. n -> T] /\ IsInjective(s)
  BY <1>2 DEF SetToSeq
<1> HIDE DEF s
<1>4. s \in Injection(1 .. n, T)
  BY <1>3 DEF Injection
<1>5. Cardinality(1 .. n) = n
  BY <1>1, FS_Interval
<1>6. s \in Surjection(1 .. n, T)
  BY <1>4, <1>5, FS_Injection
<1>7. ToSet(s) = T
  <2>1. DOMAIN s = 1 .. n /\ \A x \in T : \E i \in 1 .. n : s[i] = x
    BY <1>3, <1>6 DEF Surjection
  <2> QED BY <1>3, <2>1 DEF ToSet
<1>8. s \in Seq(S)
  BY <1>1, <1>3
<1> QED BY <1>3, <1>7, <1>8 DEF Lists, s

-----------------------------------------------------------------------------
(* Client statistics: what holds in every state.                           *)

\* One set of totals is below another but for the clients that were evicted.
Below(f, g) == \A a \in Addresses : a \in forgotten \/ f[a] <= g[a]

CsTyped ==
    /\ counts \in [Addresses -> Nat] /\ totals \in [Addresses -> Nat]
    /\ snapshot \in [Flushers -> {None} \cup [Addresses -> Nat]]
    /\ loaded \in {None} \cup [Addresses -> Nat]
    /\ recent \in Lists(Addresses)
    /\ ToSet(recent) = {a \in Addresses : counts[a] > 0}

\* The cache is ahead of the table and of all copies; what a flush may still write is ahead
\* of the table.
CsAhead ==
    /\ Below(totals, counts)
    /\ \A f \in Flushers : snapshot[f] # None => Below(snapshot[f], counts)
    /\ snapshot["hook"] # None => cancelled /\ Below(totals, snapshot["hook"])
    /\ snapshot["task"] # None /\ ~cancelled => Below(totals, snapshot["task"])

\* As long as no hook is late, the copy of the hook is complete.
CsFlushed ==
    /\ loaded # None => watched = "stats" /\ panel
    /\ wroteHook \/ snapshot["hook"] # None => hook >= IndexOf("client_stats")
    /\ late = {} =>
          /\ hook > IndexOf("client_stats") => wroteHook \/ watched # "stats"
          /\ snapshot["hook"] # None => snapshot["hook"] = counts
          /\ wroteHook /\ ~failures => \A a \in ToSet(recent) : totals[a] = counts[a]

CsInv == CsTyped /\ CsAhead /\ CsFlushed

LEMMA StatsElsewhere ==
  ASSUME CsInv, LcInv, UNCHANGED csVars, Elsewhere("stats", "client_stats")
  PROVE  CsInv'
<1>1. UNCHANGED <<counts, recent, totals, snapshot, wroteHook, loaded, failures, forgotten>>
  BY DEF csVars
<1>2. /\ watched' = watched /\ hook' >= hook /\ hook' \in Nat /\ hook \in Nat
      /\ cancelled => cancelled'
      /\ watched = "stats" => panel' = panel
      /\ late' = {} => late = {} /\ (hook' > IndexOf("client_stats") => hook > IndexOf("client_stats"))
  BY DEF Elsewhere, Forward, Passes, Minds, LcInv
<1>3. CsTyped' /\ CsAhead'
  BY <1>1, <1>2 DEF CsInv, CsTyped, CsAhead, Below
<1>4. CsFlushed'
  BY <1>1, <1>2, HookIndices DEF CsInv, CsFlushed
<1> QED BY <1>3, <1>4 DEF CsInv

-----------------------------------------------------------------------------
(* Client statistics: one lemma for each action.                           *)

\* Counts rise, but for those of evicted clients.
LEMMA CountsRise ==
  ASSUME CsTyped, CsAhead, NEW g \in [Addresses -> Nat],
         \A a \in Addresses : a \in forgotten' \/ counts[a] <= g[a],
         forgotten \subseteq forgotten', counts' = g, UNCHANGED <<totals, snapshot, cancelled>>
  PROVE  CsAhead'
<1>1. /\ counts \in [Addresses -> Nat] /\ totals \in [Addresses -> Nat]
      /\ \A f \in Flushers : snapshot[f] # None => snapshot[f] \in [Addresses -> Nat]
      /\ "hook" \in Flushers /\ "task" \in Flushers
  BY DEF CsTyped, Flushers
<1>2. ASSUME NEW f \in [Addresses -> Nat], Below(f, counts)
      PROVE  \A a \in Addresses : a \in forgotten' \/ f[a] <= g[a]
  BY <1>1, <1>2 DEF Below
<1>3. Below(totals, counts)'
  BY <1>1, <1>2 DEF CsAhead, Below
<1>4. \A f \in Flushers : snapshot'[f] # None => Below(snapshot[f], counts)'
  BY <1>1, <1>2 DEF CsAhead, Below
<1>5. \A f \in Flushers : Below(totals, snapshot[f]) => Below(totals, snapshot[f])'
  BY DEF Below
<1> QED BY <1>1, <1>3, <1>4, <1>5 DEF CsAhead

LEMMA TrackKeeps ==
  ASSUME CsInv, LcInv, NEW h \in Handlers, Track(h)
  PROVE  CsInv'
<1> DEFINE a == AddressOf[h]
           full == a \notin Cached /\ MaxClients > 0 /\ Len(recent) >= MaxClients
           oldest == IF full THEN {Head(recent)} ELSE {}
           others == IF full THEN Tail(recent) ELSE recent
           g == [b \in Addresses |->
                    IF b = a THEN counts[a] + 1 ELSE IF b \in oldest THEN 0 ELSE counts[b]]
<1>1. /\ UNCHANGED <<watched, panel, hook, late, cancelled, totals, snapshot, wroteHook, loaded>>
      /\ UNCHANGED failures
      /\ handler[h] = "serving" /\ counts' = g
      /\ recent' = Append(RemoveFirst(others, a), a) /\ forgotten' = forgotten \cup oldest
  BY DEF Track
<1>2. /\ a \in Addresses /\ counts \in [Addresses -> Nat] /\ recent \in Lists(Addresses)
      /\ ToSet(recent) = {b \in Addresses : counts[b] > 0}
  BY ClientStatsAssumption DEF ClientStatsAssumption, CsInv, CsTyped
<1>3. /\ others \in Lists(Addresses) /\ ToSet(others) = ToSet(recent) \ oldest /\ a \notin oldest
      /\ oldest \subseteq ToSet(recent)
  <2>1. CASE full
    <3>1. Len(recent) \in Nat /\ Len(recent) # 0
      BY <1>2, <2>1, ListIndices, ClientStatsAssumption DEF ClientStatsAssumption
    <3>2. recent # <<>>
      BY <3>1
    <3>3. /\ Tail(recent) \in Lists(Addresses) /\ Head(recent) \in ToSet(recent)
          /\ ToSet(Tail(recent)) = ToSet(recent) \ {Head(recent)}
      BY <1>2, <3>2, ListTail
    <3> QED BY <2>1, <3>3 DEF Cached
  <2>2. CASE ~full
    BY <1>2, <2>2
  <2> QED BY <2>1, <2>2
<1>4. recent' \in Lists(Addresses) /\ ToSet(recent') = (ToSet(recent) \ oldest) \cup {a}
  <2>1. /\ RemoveFirst(others, a) \in Lists(Addresses)
        /\ ToSet(RemoveFirst(others, a)) = ToSet(others) \ {a}
    BY <1>3, ListRemove
  <2> HIDE DEF others, a
  <2>2. /\ Append(RemoveFirst(others, a), a) \in Lists(Addresses)
        /\ ToSet(Append(RemoveFirst(others, a), a)) = (ToSet(others) \ {a}) \cup {a}
    BY <1>2, <2>1, ListAppend
  <2> QED BY <1>1, <1>3, <2>2
<1> HIDE DEF oldest, others, full, a
<1>5. g \in [Addresses -> Nat] /\ \A b \in Addresses :
         g[b] = IF b = a THEN counts[a] + 1 ELSE IF b \in oldest THEN 0 ELSE counts[b]
  BY <1>2
<1> HIDE DEF g
<1>6. CsTyped'
  <2>1. ToSet(recent') = {b \in Addresses : g[b] > 0}
    BY <1>2, <1>3, <1>4, <1>5
  <2> QED BY <1>1, <1>4, <1>5, <2>1 DEF CsInv, CsTyped
<1>7. CsAhead'
  <2>1. \A b \in Addresses : b \in forgotten' \/ counts[b] <= g[b]
    BY <1>1, <1>2, <1>5
  <2> QED BY <1>1, <1>5, <2>1, CountsRise DEF CsInv
<1>8. CsFlushed'
  <2>1. late = {} => hook <= IndexOf("server")
    BY <1>1, HookIndices DEF LcInv, Done
  <2> QED BY <1>1, <2>1, HookIndices DEF CsInv, CsFlushed, LcInv
<1> QED BY <1>6, <1>7, <1>8 DEF CsInv

LEMMA TaskCopiesKeeps ==
  ASSUME CsInv, LcInv, TaskCopies
  PROVE  CsInv'
<1>1. /\ UNCHANGED <<watched, panel, hook, late, cancelled, counts, recent, totals, wroteHook>>
      /\ UNCHANGED <<loaded, failures, forgotten>>
      /\ snapshot' = [snapshot EXCEPT !["task"] = counts]
  BY DEF TaskCopies, Copy, lcVars
<1>2. /\ counts \in [Addresses -> Nat] /\ snapshot'["task"] = counts
      /\ snapshot'["hook"] = snapshot["hook"]
      /\ snapshot' \in [Flushers -> {None} \cup [Addresses -> Nat]]
  BY <1>1 DEF CsInv, CsTyped, Flushers
<1>3. CsTyped'
  BY <1>1, <1>2 DEF CsInv, CsTyped
<1>4. Below(counts, counts) /\ Below(totals, counts)
  BY <1>2 DEF Below, CsInv, CsAhead
<1>5. CsAhead'
  BY <1>1, <1>2, <1>4 DEF CsInv, CsAhead, Below, Flushers
<1>6. CsFlushed'
  BY <1>1, <1>2 DEF CsInv, CsFlushed
<1> QED BY <1>3, <1>5, <1>6 DEF CsInv

LEMMA HookCopiesKeeps ==
  ASSUME CsInv, LcInv, HookCopies
  PROVE  CsInv'
<1>1. /\ UNCHANGED <<watched, panel, hook, late, cancelled, counts, recent, totals, wroteHook>>
      /\ UNCHANGED <<loaded, failures, forgotten>>
      /\ snapshot' = [snapshot EXCEPT !["hook"] = counts]
      /\ hook >= IndexOf("client_stats")
  BY DEF HookCopies, Copy, Begun, lcVars
<1>2. /\ counts \in [Addresses -> Nat] /\ snapshot'["hook"] = counts
      /\ snapshot'["task"] = snapshot["task"]
      /\ snapshot' \in [Flushers -> {None} \cup [Addresses -> Nat]]
  BY <1>1 DEF CsInv, CsTyped, Flushers
<1>3. CsTyped'
  BY <1>1, <1>2 DEF CsInv, CsTyped
<1>4. Below(counts, counts) /\ Below(totals, counts)
  BY <1>2 DEF Below, CsInv, CsAhead
<1>5. cancelled
  BY <1>1, HookIndices DEF LcInv
<1>6. CsAhead'
  BY <1>1, <1>2, <1>4, <1>5 DEF CsInv, CsAhead, Below, Flushers
<1>7. CsFlushed'
  BY <1>1, <1>2 DEF CsInv, CsFlushed
<1> QED BY <1>3, <1>6, <1>7 DEF CsInv

\* The upsert of a copy that is ahead of the table raises it, up to the copy.
LEMMA UpsertRaises ==
  ASSUME CsTyped, CsAhead, NEW f \in Flushers, snapshot[f] # None,
         Below(totals, snapshot[f]), Upsert(f)
  PROVE  /\ totals' \in [Addresses -> Nat] /\ Below(totals', counts)
         /\ \A a \in Addresses : totals'[a] >= totals[a] \/ a \in forgotten
         /\ \A a \in Addresses : snapshot[f][a] > 0 => totals'[a] = snapshot[f][a]
<1>1. /\ counts \in [Addresses -> Nat] /\ totals \in [Addresses -> Nat]
      /\ snapshot[f] \in [Addresses -> Nat]
  BY DEF CsTyped
<1> DEFINE s == snapshot[f]
<1>2. totals' = [a \in Addresses |-> IF s[a] > 0 THEN s[a] ELSE totals[a]]
  BY DEF Upsert
<1>3. Below(s, counts) /\ Below(totals, counts) /\ Below(totals, s)
  BY DEF CsAhead
<1> HIDE DEF s
<1>4. s \in [Addresses -> Nat]
  BY <1>1 DEF s
<1> QED BY <1>1, <1>2, <1>3, <1>4 DEF Below, s

LEMMA TaskWritesKeeps ==
  ASSUME CsInv, LcInv, TaskWrites
  PROVE  /\ CsInv' /\ \A a \in Addresses : totals'[a] >= totals[a] \/ a \in forgotten
<1>1. /\ UNCHANGED <<watched, panel, hook, late, cancelled, counts, recent, wroteHook>>
      /\ UNCHANGED <<loaded, failures, forgotten>>
      /\ snapshot["task"] # None /\ snapshot' = [snapshot EXCEPT !["task"] = None]
      /\ \/ ~cancelled /\ Upsert("task")
         \/ totals' = totals
  BY DEF TaskWrites, TaskMayWrite
<1>2. /\ snapshot'["task"] = None /\ snapshot'["hook"] = snapshot["hook"]
      /\ snapshot' \in [Flushers -> {None} \cup [Addresses -> Nat]]
  BY <1>1 DEF CsInv, CsTyped, Flushers
<1>3. /\ totals' \in [Addresses -> Nat] /\ Below(totals', counts)
      /\ \A a \in Addresses : totals'[a] >= totals[a] \/ a \in forgotten
      /\ totals' = totals \/ ~cancelled
  <2>1. CASE totals' = totals
    BY <2>1 DEF CsInv, CsTyped, CsAhead
  <2>2. CASE ~cancelled /\ Upsert("task")
    <3>1. Below(totals, snapshot["task"]) /\ "task" \in Flushers
      BY <1>1, <2>2 DEF CsInv, CsAhead, Flushers
    <3> QED BY <1>1, <2>2, <3>1, UpsertRaises DEF CsInv
  <2> QED BY <1>1, <2>1, <2>2
<1>4. CsTyped'
  BY <1>1, <1>2, <1>3 DEF CsInv, CsTyped
<1>5. CsAhead'
  BY <1>1, <1>2, <1>3 DEF CsInv, CsAhead, Below, Flushers
<1>6. CsFlushed'
  <2>1. wroteHook => cancelled
    BY HookIndices DEF CsInv, CsFlushed, LcInv
  <2> QED BY <1>1, <1>2, <1>3, <2>1 DEF CsInv, CsFlushed
<1> QED BY <1>3, <1>4, <1>5, <1>6 DEF CsInv

LEMMA HookWritesKeeps ==
  ASSUME CsInv, LcInv, HookWrites
  PROVE  /\ CsInv' /\ \A a \in Addresses : totals'[a] >= totals[a] \/ a \in forgotten
<1>1. /\ UNCHANGED <<watched, panel, hook, late, cancelled, counts, recent>>
      /\ UNCHANGED <<loaded, forgotten>>
      /\ snapshot["hook"] # None /\ snapshot' = [snapshot EXCEPT !["hook"] = None]
      /\ wroteHook' = TRUE
      /\ \/ Upsert("hook") /\ failures' = failures
         \/ totals' = totals /\ failures' = TRUE
  BY DEF HookWrites, lcVars
<1>2. /\ snapshot'["hook"] = None /\ snapshot'["task"] = snapshot["task"]
      /\ snapshot' \in [Flushers -> {None} \cup [Addresses -> Nat]]
      /\ snapshot["hook"] \in [Addresses -> Nat]
  BY <1>1 DEF CsInv, CsTyped, Flushers
<1>3. /\ cancelled /\ Below(totals, snapshot["hook"]) /\ hook >= IndexOf("client_stats")
      /\ late = {} => snapshot["hook"] = counts
  BY <1>1 DEF CsInv, CsAhead, CsFlushed
<1>4. /\ totals' \in [Addresses -> Nat] /\ Below(totals', counts)
      /\ \A a \in Addresses : totals'[a] >= totals[a] \/ a \in forgotten
      /\ failures' \/ \A a \in Addresses : snapshot["hook"][a] > 0 => totals'[a] = snapshot["hook"][a]
  <2>1. CASE totals' = totals /\ failures' = TRUE
    BY <2>1 DEF CsInv, CsTyped, CsAhead
  <2>2. CASE Upsert("hook")
    <3>1. "hook" \in Flushers
      BY DEF Flushers
    <3> QED BY <1>1, <1>3, <2>2, <3>1, UpsertRaises DEF CsInv
  <2> QED BY <1>1, <2>1, <2>2
<1>5. CsTyped'
  BY <1>1, <1>2, <1>4 DEF CsInv, CsTyped
<1>6. CsAhead'
  BY <1>1, <1>2, <1>3, <1>4 DEF CsInv, CsAhead, Below, Flushers
<1>7. CsFlushed'
  <2>1. late = {} /\ ~failures' => \A a \in ToSet(recent) : totals'[a] = counts[a]
    BY <1>3, <1>4 DEF CsInv, CsTyped
  <2> QED BY <1>1, <1>2, <1>3, <2>1 DEF CsInv, CsFlushed
<1> QED BY <1>4, <1>5, <1>6, <1>7 DEF CsInv

LEMMA ClientStatsHookEndsKeeps ==
  ASSUME CsInv, LcInv, ClientStatsHookEnds
  PROVE  CsInv'
<1>1. /\ UNCHANGED <<watched, panel, late, cancelled, counts, recent, totals, snapshot, wroteHook>>
      /\ UNCHANGED <<loaded, failures, forgotten>>
      /\ hook' = hook + 1 /\ (wroteHook \/ watched # "stats")
  BY DEF ClientStatsHookEnds, Ends, csVars
<1>2. CsTyped' /\ CsAhead'
  BY <1>1 DEF CsInv, CsTyped, CsAhead, Below
<1>3. CsFlushed'
  BY <1>1, HookIndices DEF CsInv, CsFlushed, LcInv
<1> QED BY <1>2, <1>3 DEF CsInv

LEMMA LoadReadsKeeps ==
  ASSUME CsInv, LcInv, LoadReads
  PROVE  CsInv'
<1>1. /\ UNCHANGED <<watched, hook, late, cancelled, counts, recent, totals, snapshot, wroteHook>>
      /\ UNCHANGED <<failures, forgotten>>
      /\ loaded' = totals /\ panel' = TRUE /\ watched = "stats"
  BY DEF LoadReads
<1>2. CsTyped' /\ CsAhead'
  BY <1>1 DEF CsInv, CsTyped, CsAhead, Below
<1>3. CsFlushed'
  BY <1>1 DEF CsInv, CsFlushed
<1> QED BY <1>2, <1>3 DEF CsInv

LEMMA LoadMergesKeeps ==
  ASSUME CsInv, LcInv, LoadMerges
  PROVE  CsInv'
<1> DEFINE added == {a \in Addresses \ Cached : loaded[a] > 0}
           g == [a \in Addresses |-> IF a \in added THEN loaded[a] ELSE counts[a]]
<1>1. /\ UNCHANGED <<watched, hook, late, cancelled, totals, snapshot, wroteHook>>
      /\ UNCHANGED <<failures, forgotten>>
      /\ loaded # None /\ loaded' = None /\ counts' = g /\ recent' = SetToSeq(added) \o recent
  BY DEF LoadMerges
<1>2. /\ counts \in [Addresses -> Nat] /\ loaded \in [Addresses -> Nat]
      /\ recent \in Lists(Addresses) /\ ToSet(recent) = {a \in Addresses : counts[a] > 0}
      /\ watched = "stats" /\ panel
  BY <1>1 DEF CsInv, CsTyped, CsFlushed
<1>3. g \in [Addresses -> Nat] /\ \A a \in Addresses :
         g[a] = IF a \in added THEN loaded[a] ELSE counts[a]
  BY <1>2
<1>4. /\ added \in SUBSET Addresses /\ IsFiniteSet(added) /\ added \cap ToSet(recent) = {}
      /\ \A a \in added : loaded[a] > 0
  <2>1. IsFiniteSet(Addresses)
    BY ClientStatsAssumption DEF ClientStatsAssumption
  <2> QED BY <2>1, FS_Subset DEF Cached
<1> HIDE DEF g, added
<1>5. recent' \in Lists(Addresses) /\ ToSet(recent') = added \cup ToSet(recent)
  <2>1. SetToSeq(added) \in Lists(Addresses) /\ ToSet(SetToSeq(added)) = added
    BY <1>4, ListOfSet
  <2> QED BY <1>1, <1>2, <1>4, <2>1, ListConcat DEF Apart
<1>6. CsTyped'
  <2>1. ToSet(recent') = {a \in Addresses : g[a] > 0}
    BY <1>2, <1>3, <1>4, <1>5
  <2> QED BY <1>1, <1>3, <1>5, <2>1 DEF CsInv, CsTyped
<1>7. CsAhead'
  <2>1. \A a \in Addresses : counts[a] <= g[a]
    BY <1>2, <1>3, <1>4
  <2> QED BY <1>1, <1>3, <2>1, CountsRise DEF CsInv
<1>8. CsFlushed'
  <2>1. late = {} => hook <= IndexOf("server")
    BY <1>2, HookIndices DEF LcInv
  <2> QED BY <1>1, <2>1, HookIndices DEF CsInv, CsFlushed, LcInv
<1> QED BY <1>6, <1>7, <1>8 DEF CsInv

StatsStep ==
    \/ \E h \in Handlers : Track(h)
    \/ TaskCopies \/ TaskWrites \/ HookCopies \/ HookWrites \/ ClientStatsHookEnds
    \/ LoadReads \/ LoadMerges

\* No action of the statistics disturbs their invariant, and none lowers a total ...
LEMMA StatsKeep ==
  ASSUME CsInv, LcInv, StatsStep
  PROVE  CsInv' /\ \A a \in Addresses : totals'[a] >= totals[a] \/ a \in forgotten
<1>1. \A a \in Addresses : totals[a] >= totals[a]
  BY DEF CsInv, CsTyped
<1>2. totals' = totals \/ TaskWrites \/ HookWrites
  BY DEF StatsStep, Track, TaskCopies, HookCopies, Copy, ClientStatsHookEnds, LoadReads,
         LoadMerges, csVars
<1> QED BY <1>1, <1>2, TrackKeeps, TaskCopiesKeeps, TaskWritesKeeps, HookCopiesKeeps,
           HookWritesKeeps, ClientStatsHookEndsKeeps, LoadReadsKeeps, LoadMergesKeeps
        DEF StatsStep

\* ... or disturbs the other writers.
LEMMA StatsMove ==
  ASSUME CsInv, LcInv, StatsStep
  PROVE  /\ LcInv'
         /\ Elsewhere("conversations", "conversations") /\ Elsewhere("errors", "error_log")
<1> USE HookIndices DEF LcInv, Elsewhere, Forward, Passes, Minds, Done
<1>1. ASSUME NEW h \in Handlers, Track(h)
      PROVE  /\ LcInv'
             /\ Elsewhere("conversations", "conversations") /\ Elsewhere("errors", "error_log")
  <2>1. /\ UNCHANGED <<watched, panel, hook, late, cancelled, run>>
        /\ handler[h] = "serving" /\ handler' = [handler EXCEPT ![h] = "ended"]
        /\ watched = "stats"
    BY <1>1 DEF Track
  <2> QED BY <2>1
<1>2. CASE TaskCopies \/ HookCopies \/ HookWrites
  BY <1>2 DEF TaskCopies, HookCopies, HookWrites, lcVars
<1>3. CASE TaskWrites
  <2>1. /\ UNCHANGED <<watched, handler, panel, hook, late, cancelled>>
        /\ run' = [run EXCEPT !["client_stat_flush"] = "idle"]
    BY <1>3 DEF TaskWrites
  <2> QED BY <2>1
<1>4. CASE ClientStatsHookEnds
  BY <1>4 DEF ClientStatsHookEnds, Ends, AtWork
<1>5. CASE LoadReads
  <2>1. /\ UNCHANGED <<watched, handler, hook, late, cancelled, run>>
        /\ hook = 0 /\ watched = "stats"
    BY <1>5 DEF LoadReads
  <2> QED BY <2>1
<1>6. CASE LoadMerges
  <2>1. /\ UNCHANGED <<watched, handler, hook, late, cancelled, run>> /\ panel' = FALSE
        /\ watched = "stats"
    BY <1>6 DEF LoadMerges, CsInv, CsFlushed
  <2> QED BY <2>1
<1> QED BY <1>1, <1>2, <1>3, <1>4, <1>5, <1>6 DEF StatsStep

LEMMA StatsAreSaved ==
  ASSUME CsInv, LcInv
  PROVE  StatsSaved
BY HookIndices DEF StatsSaved, CsInv, CsFlushed, LcInv, Exited, Up, Cached

-----------------------------------------------------------------------------
(* The conversation archive: what holds in every state.                    *)

Ended == {h \in Handlers : handler[h] = "ended"}
Left == UNION {gone[r] : r \in Reasons}
Waiting == ToSet(pending) \cup ToSet(inflight.records)

CvTyped ==
    /\ day \in Days /\ curDay \in 0 .. day
    /\ pending \in Lists(Handlers) /\ bytes \in Int /\ slim \subseteq Handlers
    /\ inflight \in [records : Lists(Handlers), held : Int]
    /\ plain \in [Days -> Seq(Handlers)] /\ gz \in [Days -> Seq(Handlers)]
    /\ file \in [open : BOOLEAN, unlinked : BOOLEAN, broken : BOOLEAN]
    /\ gone \in [Reasons -> SUBSET Handlers] /\ faults \in Nat

CvPhases ==
    /\ archivist \in {"idle", "io", "keeping", "compacting", "published", "dead"}
    /\ file.open => curDay # 0
    /\ archivist = "io" => file.open /\ inflight.records # <<>>
    /\ archivist # "io" => inflight = NoBatch
    /\ watched # "conversations" =>
          pending = <<>> /\ archivist = "idle" /\ ~stopped /\ closer = "none"

\* A day that was compressed, or will be, is not written to any more, so it is not that of the
\* open file; it is there twice only between the two steps of the compaction.
Past(d) == d \in 0 .. MaxDay /\ d < day /\ (file.open => d < curDay)

CvDays ==
    /\ Past(compactDay) /\ Past(source)
    /\ archivist \notin {"compacting", "published"} => source = 0
    /\ archivist = "published" => source # 0 /\ gz[source] = plain[source]
    /\ \A d \in Days : gz[d] # <<>> => Past(d)
    /\ \A d \in Days : gz[d] # <<>> /\ plain[d] # <<>> => archivist = "published" /\ d = source

CvWhole ==
    /\ Apart(pending, inflight.records)
    /\ watched = "conversations" => Ended = Waiting \cup Archived \cup Left /\ slim \subseteq Ended

DaysApart ==
    \A d, e \in Days : d # e =>
        Apart(plain[d], plain[e]) /\ Apart(gz[d], gz[e]) /\ Apart(plain[d], gz[e])

\* As long as no write has failed, every record is at one of these places and in one archive,
\* and none of the records that wait was extracted.
CvHealthy ==
    faults = 0 =>
        /\ Waiting \cap Archived = {} /\ Waiting \cap Left = {} /\ Archived \cap Left = {}
        /\ Waiting \cap slim = {}
        /\ DaysApart
        /\ bytes = 2 * Len(pending) /\ bytes <= PendingMaxBytes
        /\ ~file.broken

CvFlushed ==
    /\ hookDone \/ closer = "hook" => hook >= IndexOf("conversations")
    /\ late = {} =>
          /\ hook > IndexOf("conversations") => hookDone \/ watched # "conversations"
          /\ hookDone /\ ~jammed =>
                archivist = "dead" /\ (faults = 0 /\ ~denied => pending = <<>>)

CvInv == CvTyped /\ CvPhases /\ CvDays /\ CvWhole /\ CvHealthy /\ CvFlushed

LEMMA ConversationsElsewhere ==
  ASSUME CvInv, LcInv, UNCHANGED cvVars, Elsewhere("conversations", "conversations")
  PROVE  CvInv'
<1>1. /\ UNCHANGED <<day, pending, bytes, slim, inflight, plain, gz, file, curDay, compactDay>>
      /\ UNCHANGED <<archivist, source, stopped, closer, hookDone, jammed, denied, faults, gone>>
  BY DEF cvVars
<1>2. /\ watched' = watched /\ hook' >= hook /\ hook' \in Nat /\ hook \in Nat
      /\ late' = {} => late = {}
                       /\ (hook' > IndexOf("conversations") => hook > IndexOf("conversations"))
      /\ watched = "conversations" => Ended' = Ended
  BY DEF Elsewhere, Forward, Passes, Minds, LcInv, Ended
<1>3. Archived' = Archived /\ Waiting' = Waiting /\ Left' = Left
  BY <1>1 DEF Archived, Waiting, Left, Days
<1>4. CvTyped' /\ CvPhases' /\ CvDays'
  BY <1>1, <1>2 DEF CvInv, CvTyped, CvPhases, CvDays, Past, Days
<1>5. CvWhole' /\ CvHealthy'
  BY <1>1, <1>2, <1>3 DEF CvInv, CvWhole, CvHealthy, DaysApart, Apart
<1>6. CvFlushed'
  BY <1>1, <1>2, HookIndices DEF CvInv, CvFlushed
<1> QED BY <1>4, <1>5, <1>6 DEF CvInv

-----------------------------------------------------------------------------
(* The conversation archive: helpers.                                      *)

LEMMA SetOfConcat ==
  ASSUME NEW S, NEW s \in Seq(S), NEW t \in Seq(S)
  PROVE  s \o t \in Seq(S) /\ ToSet(s \o t) = ToSet(s) \cup ToSet(t)
<1>1. /\ Len(s) \in Nat /\ Len(t) \in Nat /\ DOMAIN s = 1 .. Len(s) /\ DOMAIN t = 1 .. Len(t)
      /\ s \o t \in Seq(S) /\ DOMAIN (s \o t) = 1 .. Len(s) + Len(t)
      /\ \A i \in 1 .. Len(s) + Len(t) : (s \o t)[i] = IF i <= Len(s) THEN s[i] ELSE t[i - Len(s)]
  BY ConcatProperties
<1>2. ASSUME NEW x
      PROVE  x \in ToSet(s \o t) <=> x \in ToSet(s) \/ x \in ToSet(t)
  <2>1. /\ x \in ToSet(s) <=> \E i \in 1 .. Len(s) : s[i] = x
        /\ x \in ToSet(t) <=> \E i \in 1 .. Len(t) : t[i] = x
        /\ x \in ToSet(s \o t) <=> \E i \in 1 .. Len(s) + Len(t) : (s \o t)[i] = x
    BY <1>1 DEF ToSet
  <2>2. \A i \in 1 .. Len(s) : i \in 1 .. Len(s) + Len(t) /\ (s \o t)[i] = s[i]
    BY <1>1
  <2>3. \A i \in 1 .. Len(t) : i + Len(s) \in 1 .. Len(s) + Len(t) /\ (s \o t)[i + Len(s)] = t[i]
    BY <1>1
  <2>4. \A i \in 1 .. Len(s) + Len(t) :
           \/ i \in 1 .. Len(s) /\ (s \o t)[i] = s[i]
           \/ i - Len(s) \in 1 .. Len(t) /\ (s \o t)[i] = t[i - Len(s)]
    BY <1>1
  <2> QED BY <2>1, <2>2, <2>3, <2>4
<1> QED BY <1>1, <1>2

\* What a list of records costs.
LEMMA CostFacts ==
  ASSUME NEW s \in Seq(Handlers)
  PROVE  CostOf(s) \in Int /\ (ToSet(s) \cap slim = {} => CostOf(s) = 2 * Len(s))
<1> DEFINE I == {i \in DOMAIN s : s[i] \in slim}
<1>1. Len(s) \in Nat /\ DOMAIN s = 1 .. Len(s)
  OBVIOUS
<1>2. IsFiniteSet(I)
  <2>1. IsFiniteSet(1 .. Len(s))
    BY <1>1, FS_Interval
  <2> QED BY <1>1, <2>1, FS_Subset
<1>3. Cardinality(I) \in Nat
  BY <1>2, FS_CardinalityType
<1>4. ASSUME ToSet(s) \cap slim = {}
      PROVE  Cardinality(I) = 0
  <2>1. I = {}
    BY <1>4 DEF ToSet
  <2> QED BY <2>1, FS_EmptySet
<1>5. CostOf(s) = 2 * Len(s) - Cardinality(I)
  BY DEF CostOf
<1> HIDE DEF I
<1> QED BY <1>1, <1>3, <1>4, <1>5

\* Evictions are at most all records, and leave room for the new one.
LEMMA EvictionsFacts ==
  ASSUME CvTyped
  PROVE  LET n == Evictions(2)
         IN  /\ n \in 0 .. Len(pending)
             /\ \/ n = Len(pending)
                \/ bytes - CostOf(SubSeq(pending, 1, n)) + 2 <= PendingMaxBytes
<1> DEFINE Remain(n) == bytes - CostOf(SubSeq(pending, 1, n))
           Enough(n) == n = Len(pending) \/ Remain(n) + 2 <= PendingMaxBytes
           Good(n) == Enough(n) /\ \A m \in 0 .. (n - 1) : Remain(m) + 2 > PendingMaxBytes
<1>1. pending \in Seq(Handlers) /\ Len(pending) \in Nat /\ bytes \in Int /\ PendingMaxBytes \in Nat
  BY ListIndices, ConversationAssumption DEF CvTyped, ConversationAssumption
<1>2. \A n \in 0 .. Len(pending) : Remain(n) \in Int
  <2> TAKE n \in 0 .. Len(pending)
  <2>1. SubSeq(pending, 1, n) \in Seq(Handlers)
    BY <1>1
  <2>2. CostOf(SubSeq(pending, 1, n)) \in Int
    BY <2>1, CostFacts
  <2> QED BY <1>1, <2>2
<1> HIDE DEF Remain
<1>3. \E n \in 0 .. Len(pending) : Good(n)
  <2> DEFINE All == {n \in 0 .. Len(pending) : Enough(n)}
  <2>1. Len(pending) \in All
    BY <1>1
  <2>2. PICK n \in All : \A m \in All : n <= m
    <3>1. All \subseteq Nat
      BY <1>1
    <3> HIDE DEF All
    <3>2. PICK k \in All : \A m \in All : ~ (<<m, k>> \in OpToRel(<, Nat))
      BY <2>1, <3>1, NatLessThanWellFounded, WFMin
    <3>3. ASSUME NEW m \in All
          PROVE  k <= m
      <4>1. m \in Nat /\ k \in Nat /\ ~(m < k)
        BY <3>1, <3>2 DEF OpToRel
      <4> QED BY <4>1
    <3> QED BY <3>3
  <2>3. \A m \in 0 .. (n - 1) : Remain(m) + 2 > PendingMaxBytes
    <3> TAKE m \in 0 .. (n - 1)
    <3>1. m \in 0 .. Len(pending) /\ ~(n <= m) /\ m # Len(pending)
      BY <1>1, <2>2
    <3>2. m \notin All
      <4> HIDE DEF All
      <4> QED BY <2>2, <3>1
    <3> QED BY <1>1, <1>2, <3>1, <3>2
  <2> QED BY <2>2, <2>3
<1>4. Evictions(2) = CHOOSE n \in 0 .. Len(pending) : Good(n)
  BY DEF Evictions, Remain
<1> HIDE DEF Good
<1>5. Evictions(2) \in 0 .. Len(pending) /\ Good(Evictions(2))
  BY <1>3, <1>4
<1> QED BY <1>5 DEF Good, Remain

\* Where a record is archived.
LEMMA ArchivedFacts ==
  ASSUME NEW h
  PROVE  h \in Archived <=> \E d \in Days : h \in ToSet(plain[d]) \/ h \in ToSet(gz[d])
BY DEF Archived

LEMMA ArchiveGrows ==
  ASSUME NEW d \in Days, NEW X, gz' = gz, \A e \in Days : e # d => plain'[e] = plain[e],
         ToSet(plain'[d]) = ToSet(plain[d]) \cup X
  PROVE  /\ Archived' = Archived \cup X
         /\ DaysApart /\ X \cap Archived = {} => DaysApart'
<1>1. \A e \in Days : ToSet(gz'[e]) = ToSet(gz[e]) /\ (e # d => ToSet(plain'[e]) = ToSet(plain[e]))
  OBVIOUS
<1>2. Archived' = UNION {ToSet(plain'[e]) \cup ToSet(gz'[e]) : e \in Days}
  BY DEF Archived, Days
<1>3. ASSUME NEW h
      PROVE  h \in Archived' <=> h \in Archived \/ h \in X
  <2>1. h \in Archived' <=> \E e \in Days : h \in ToSet(plain'[e]) \/ h \in ToSet(gz'[e])
    BY <1>2
  <2> QED BY <1>1, <2>1, ArchivedFacts
<1>4. ASSUME DaysApart, X \cap Archived = {}
      PROVE  DaysApart'
  <2>1. \A e \in Days : X \cap ToSet(plain[e]) = {} /\ X \cap ToSet(gz[e]) = {}
    BY <1>4 DEF Archived
  <2> SUFFICES ASSUME NEW c \in Days, NEW e \in Days, c # e
               PROVE  /\ Apart(plain'[c], plain'[e]) /\ Apart(gz'[c], gz'[e])
                      /\ Apart(plain'[c], gz'[e])
    BY DEF DaysApart, Apart, Days
  <2>2. Apart(plain[c], plain[e]) /\ Apart(gz[c], gz[e]) /\ Apart(plain[c], gz[e])
    BY <1>4 DEF DaysApart
  <2> QED BY <1>1, <2>1, <2>2 DEF Apart
<1> QED BY <1>3, <1>4

LEMMA LeftGrows ==
  ASSUME CvTyped, NEW r \in Reasons, NEW X \in SUBSET Handlers,
         gone' = [gone EXCEPT ![r] = @ \cup X]
  PROVE  gone' \in [Reasons -> SUBSET Handlers] /\ Left' = Left \cup X
<1>1. gone \in [Reasons -> SUBSET Handlers]
  BY DEF CvTyped
<1>2. \A q \in Reasons : gone'[q] = IF q = r THEN gone[q] \cup X ELSE gone[q]
  BY <1>1
<1>3. gone' \in [Reasons -> SUBSET Handlers]
  BY <1>1
<1>4. Left' = UNION {gone'[q] : q \in Reasons}
  BY DEF Left, Reasons
<1> QED BY <1>2, <1>3, <1>4 DEF Left

\* A write to the file of day d.
WriteTyped(d) ==
    /\ plain' \in [Days -> Seq(Handlers)] /\ gone' \in [Reasons -> SUBSET Handlers]
    /\ slim' \subseteq Handlers /\ faults' \in Nat
    /\ \A e \in Days : e # d => plain'[e] = plain[e]

LEMMA WrittenFacts ==
  ASSUME CvTyped, NEW f \in [open : BOOLEAN, unlinked : BOOLEAN, broken : BOOLEAN],
         NEW d \in Days, NEW r \in Lists(Handlers), Written(f, d, r), gz' = gz
  PROVE  /\ WriteTyped(d) /\ slim' = slim \cup ToSet(r) /\ faults' = faults /\ ~f.broken
         /\ Archived' \cup Left' = Archived \cup Left \cup ToSet(r)
         /\ ToSet(r) \cap (Archived \cup Left) = {} /\ Archived \cap Left = {}
            => Archived' \cap Left' = {}
         /\ DaysApart /\ ToSet(r) \cap Archived = {} => DaysApart'
<1>1. /\ plain \in [Days -> Seq(Handlers)] /\ gone \in [Reasons -> SUBSET Handlers]
      /\ slim \subseteq Handlers /\ faults \in Nat
      /\ r \in Seq(Handlers) /\ ToSet(r) \subseteq Handlers
  BY ListFacts, ListIndices DEF CvTyped
<1>2. /\ ~f.broken /\ slim' = slim \cup ToSet(r) /\ faults' = faults
      /\ \/ f.unlinked /\ plain' = plain /\ gone' = [gone EXCEPT !["unlinked"] = @ \cup ToSet(r)]
         \/ ~f.unlinked /\ plain' = [plain EXCEPT ![d] = @ \o r] /\ gone' = gone
  BY DEF Written
<1>3. CASE plain' = plain /\ gone' = [gone EXCEPT !["unlinked"] = @ \cup ToSet(r)]
  <2>1. gone' \in [Reasons -> SUBSET Handlers] /\ Left' = Left \cup ToSet(r)
    BY <1>1, <1>3, LeftGrows DEF Reasons
  <2>2. Archived' = Archived /\ (DaysApart => DaysApart')
    BY <1>3 DEF Archived, DaysApart, Apart, Days
  <2> QED BY <1>1, <1>2, <1>3, <2>1, <2>2 DEF WriteTyped
<1>4. CASE plain' = [plain EXCEPT ![d] = @ \o r] /\ gone' = gone
  <2>1. Left' = Left
    BY <1>4 DEF Left
  <2>2. plain[d] \o r \in Seq(Handlers) /\ ToSet(plain[d] \o r) = ToSet(plain[d]) \cup ToSet(r)
    BY <1>1, SetOfConcat
  <2>3. /\ plain' \in [Days -> Seq(Handlers)] /\ plain'[d] = plain[d] \o r
        /\ \A e \in Days : e # d => plain'[e] = plain[e]
    BY <1>1, <1>4, <2>2
  <2>4. /\ Archived' = Archived \cup ToSet(r)
        /\ DaysApart /\ ToSet(r) \cap Archived = {} => DaysApart'
    BY <2>2, <2>3, ArchiveGrows
  <2> QED BY <1>1, <1>2, <1>4, <2>1, <2>3, <2>4 DEF WriteTyped
<1> QED BY <1>2, <1>3, <1>4

LEMMA FailedFacts ==
  ASSUME CvTyped, CvHealthy, NEW f \in [open : BOOLEAN, unlinked : BOOLEAN, broken : BOOLEAN],
         f.broken => file.broken,
         NEW d \in Days, NEW r \in Lists(Handlers), r # <<>>, Failed(f, d, r), gz' = gz
  PROVE  /\ WriteTyped(d) /\ slim' \subseteq slim \cup ToSet(r) /\ faults' # 0
         /\ Left' = Left /\ Archived \subseteq Archived'
         /\ Archived' \subseteq Archived \cup ToSet(r)
<1>1. /\ plain \in [Days -> Seq(Handlers)] /\ gone \in [Reasons -> SUBSET Handlers]
      /\ slim \subseteq Handlers /\ faults \in Nat
      /\ r \in Seq(Handlers) /\ ToSet(r) \subseteq Handlers /\ Len(r) \in Nat
  BY ListFacts, ListIndices DEF CvTyped
<1>2. gone' = gone /\ faults' = IF f.broken THEN faults ELSE faults + 1
  BY DEF Failed
<1>3. faults' \in Nat /\ faults' # 0
  BY <1>1, <1>2 DEF CvHealthy
<1>4. PICK k \in 0 .. (IF f.broken THEN 0 ELSE Len(r) - 1) :
         /\ plain' = IF f.unlinked THEN plain ELSE [plain EXCEPT ![d] = @ \o SubSeq(r, 1, k)]
         /\ slim' = slim \cup ToSet(SubSeq(r, 1, k + 1))
  BY DEF Failed
<1> DEFINE first == SubSeq(r, 1, k)
           next == SubSeq(r, 1, k + 1)
<1>5. k \in 0 .. Len(r) /\ k + 1 \in 0 .. Len(r)
  <2>1. Len(r) >= 1
    BY <1>1, EmptySeq
  <2> QED BY <1>1, <2>1
<1>6. first \in Seq(Handlers) /\ ToSet(first) \subseteq ToSet(r) /\ ToSet(next) \subseteq ToSet(r)
  <2>1. first \in Lists(Handlers) /\ ToSet(first) \subseteq ToSet(r)
    BY <1>5, ListSplit
  <2>2. ToSet(next) \subseteq ToSet(r)
    BY <1>5, ListSplit
  <2> QED BY <2>1, <2>2, ListIndices
<1> HIDE DEF first, next
<1>7. slim' = slim \cup ToSet(next) /\ (plain' = plain \/ plain' = [plain EXCEPT ![d] = @ \o first])
  BY <1>4 DEF first, next
<1>8. Left' = Left
  BY <1>2 DEF Left
<1>9. CASE plain' = plain
  <2>1. Archived' = Archived
    BY <1>9 DEF Archived, Days
  <2> QED BY <1>1, <1>2, <1>3, <1>6, <1>7, <1>8, <1>9, <2>1 DEF WriteTyped
<1>10. CASE plain' = [plain EXCEPT ![d] = @ \o first]
  <2>1. plain[d] \o first \in Seq(Handlers) /\ ToSet(plain[d] \o first) = ToSet(plain[d]) \cup ToSet(first)
    BY <1>1, <1>6, SetOfConcat
  <2>2. /\ plain' \in [Days -> Seq(Handlers)] /\ plain'[d] = plain[d] \o first
        /\ \A e \in Days : e # d => plain'[e] = plain[e]
    BY <1>1, <1>10, <2>1
  <2>3. Archived' = Archived \cup ToSet(first)
    BY <2>1, <2>2, ArchiveGrows
  <2> QED BY <1>1, <1>2, <1>3, <1>6, <1>7, <1>8, <2>2, <2>3 DEF WriteTyped
<1> QED BY <1>7, <1>9, <1>10

\* The parts that an action leaves alone.
LEMMA ConversationsKeep ==
  ASSUME CvInv
  PROVE  /\ UNCHANGED <<plain, gz>> => Archived' = Archived /\ (DaysApart => DaysApart')
         /\ UNCHANGED gone => Left' = Left
         /\ UNCHANGED <<pending, inflight>> => Waiting' = Waiting
         /\ UNCHANGED handler => Ended' = Ended
         /\ Waiting \subseteq Handlers
<1>1. UNCHANGED <<plain, gz>> => Archived' = Archived /\ (DaysApart => DaysApart')
  BY DEF Archived, DaysApart, Apart, Days
<1>2. UNCHANGED gone => Left' = Left
  BY DEF Left
<1>3. UNCHANGED <<pending, inflight>> => Waiting' = Waiting
  BY DEF Waiting
<1>4. UNCHANGED handler => Ended' = Ended
  BY DEF Ended
<1>5. Waiting \subseteq Handlers
  <2>1. pending \in Lists(Handlers) /\ inflight.records \in Lists(Handlers)
    BY DEF CvInv, CvTyped
  <2> QED BY <2>1, ListFacts DEF Waiting
<1> QED BY <1>1, <1>2, <1>3, <1>4, <1>5

\* The day of the open file, when it is one, and today are not past.
LEMMA PastFacts ==
  ASSUME CvInv
  PROVE  /\ day \in 1 .. MaxDay /\ day \in Nat /\ curDay \in Nat /\ curDay <= day /\ MaxDay \in Nat
         /\ curDay # 0 => curDay \in Days
         /\ compactDay \in 0 .. MaxDay /\ source \in 0 .. MaxDay
         /\ ~Past(day) /\ gz[day] = <<>> /\ day \in Days
         /\ file.open => curDay \in Days /\ ~Past(curDay) /\ gz[curDay] = <<>>
<1>1. MaxDay \in Nat /\ day \in 1 .. MaxDay /\ curDay \in 0 .. day
  BY ConversationAssumption DEF ConversationAssumption, CvInv, CvTyped, Days
<1>2. ~Past(day) /\ (curDay # 0 => curDay \in Days) /\ (file.open => ~Past(curDay) /\ curDay # 0)
  BY <1>1 DEF Past, Days, CvInv, CvPhases
<1>3. compactDay \in 0 .. MaxDay /\ source \in 0 .. MaxDay
  BY DEF CvInv, CvDays, Past
<1> QED BY <1>1, <1>2, <1>3 DEF CvInv, CvDays, Days

LEMMA MidnightKeeps ==
  ASSUME CvInv, LcInv, Midnight
  PROVE  CvInv'
<1>1. /\ UNCHANGED <<watched, handler, hook, late, pending, bytes, slim, inflight, plain, gz, file>>
      /\ UNCHANGED <<curDay, compactDay, archivist, source, stopped, closer, hookDone, jammed>>
      /\ UNCHANGED <<denied, faults, gone>>
      /\ day' = day + 1 /\ day < MaxDay
  BY DEF Midnight, lcVars
<1>2. day' \in Days /\ curDay \in 0 .. day' /\ \A d : Past(d) => Past(d)'
  <2>1. \A d : Past(d) => Past(d)'
    BY <1>1, PastFacts DEF Past
  <2> QED BY <1>1, <2>1, PastFacts DEF Days
<1>3. CvTyped' /\ CvPhases' /\ CvDays' /\ CvFlushed'
  BY <1>1, <1>2 DEF CvInv, CvTyped, CvPhases, CvDays, CvFlushed, Days
<1>4. CvWhole' /\ CvHealthy'
  BY <1>1, ConversationsKeep DEF CvInv, CvWhole, CvHealthy, Apart
<1> QED BY <1>3, <1>4 DEF CvInv

LEMMA CaptureKeeps ==
  ASSUME CvInv, LcInv, NEW h \in Handlers, Capture(h)
  PROVE  CvInv'
<1>1. /\ UNCHANGED <<watched, hook, late, day, slim, inflight, plain, gz, file, curDay, compactDay>>
      /\ UNCHANGED <<archivist, source, stopped, closer, hookDone, jammed, denied, faults>>
      /\ watched = "conversations" /\ handler[h] = "serving"
      /\ handler' = [handler EXCEPT ![h] = "ended"]
  BY DEF Capture
<1>2. h \notin Ended /\ Ended' = Ended \cup {h}
  BY <1>1 DEF Ended, LcInv
<1>3. /\ h \notin Waiting /\ h \notin Archived /\ h \notin Left /\ h \notin slim
      /\ pending \in Lists(Handlers) /\ bytes \in Int /\ pending \in Seq(Handlers)
  BY <1>1, <1>2, ListIndices DEF CvInv, CvWhole, CvTyped
<1>4. Archived' = Archived /\ (DaysApart => DaysApart') /\ Past(0)' = Past(0)
  BY <1>1, ConversationsKeep DEF Past
<1>5. CvDays' /\ CvFlushed'
  <2>1. CvDays'
    BY <1>1 DEF CvInv, CvDays, Past, Days
  <2>2. late = {} => hook <= IndexOf("server")
    BY <1>1, HookIndices DEF LcInv, Done
  <2>3. CvFlushed'
    BY <1>1, <2>2, HookIndices DEF CvInv, CvFlushed, LcInv
  <2> QED BY <2>1, <2>3
<1>6. ASSUME NEW reason \in {"discarded", "refused"},
             gone' = [gone EXCEPT ![reason] = @ \cup {h}], UNCHANGED <<pending, bytes>>
      PROVE  CvInv'
  <2>1. UNCHANGED <<pending, bytes>>
    BY <1>6
  <2>2. gone' \in [Reasons -> SUBSET Handlers] /\ Left' = Left \cup {h}
    <3>1. reason \in Reasons /\ {h} \in SUBSET Handlers /\ CvTyped
      BY DEF Reasons, CvInv
    <3> QED BY <1>6, <3>1, LeftGrows
  <2>3. Waiting' = Waiting
    BY <1>1, <2>1, ConversationsKeep
  <2>4. CvTyped' /\ CvPhases'
    BY <1>1, <2>1, <2>2 DEF CvInv, CvTyped, CvPhases, Days
  <2>5. CvWhole'
    BY <1>1, <1>2, <1>4, <2>1, <2>2, <2>3 DEF CvInv, CvWhole, Apart
  <2>6. CvHealthy'
    BY <1>1, <1>3, <1>4, <2>1, <2>2, <2>3 DEF CvInv, CvHealthy
  <2> QED BY <1>5, <2>4, <2>5, <2>6 DEF CvInv
<1>7. ASSUME LET n == Evictions(2)
                 out == SubSeq(pending, 1, n)
             IN  /\ pending' = Append(SubSeq(pending, n + 1, Len(pending)), h)
                 /\ bytes' = bytes - CostOf(out) + 2
                 /\ gone' = [gone EXCEPT !["evicted"] = @ \cup ToSet(out)]
      PROVE  CvInv'
  <2> DEFINE n == Evictions(2)
             out == SubSeq(pending, 1, n)
             others == SubSeq(pending, n + 1, Len(pending))
  <2>1. /\ pending' = Append(others, h) /\ bytes' = bytes - CostOf(out) + 2
        /\ gone' = [gone EXCEPT !["evicted"] = @ \cup ToSet(out)]
    BY <1>7
  <2>2. /\ n \in 0 .. Len(pending)
        /\ n = Len(pending) \/ bytes - CostOf(out) + 2 <= PendingMaxBytes
    BY EvictionsFacts DEF CvInv
  <2>3. /\ out \in Lists(Handlers) /\ others \in Lists(Handlers) /\ Apart(out, others)
        /\ ToSet(pending) = ToSet(out) \cup ToSet(others)
        /\ Len(out) = n /\ Len(others) = Len(pending) - n
    <3> HIDE DEF n
    <3> QED BY <1>3, <2>2, ListSplit
  <2> HIDE DEF out, others, n
  <2>4. /\ out \in Seq(Handlers) /\ others \in Seq(Handlers) /\ CostOf(out) \in Int
        /\ ToSet(out) \subseteq Handlers /\ Len(pending) \in Nat
    BY <1>3, <2>3, ListFacts, CostFacts
  <2>5. /\ pending' \in Lists(Handlers) /\ ToSet(pending') = ToSet(others) \cup {h}
        /\ Len(pending') = Len(others) + 1
    <3>1. h \notin ToSet(others)
      BY <1>3, <2>3 DEF Waiting
    <3> QED BY <2>1, <2>3, <2>4, <3>1, ListAppend
  <2>6. gone' \in [Reasons -> SUBSET Handlers] /\ Left' = Left \cup ToSet(out)
    BY <2>1, <2>4, LeftGrows DEF Reasons, CvInv
  <2>7. bytes' \in Int
    BY <1>3, <2>1, <2>4
  <2>8. CvTyped' /\ CvPhases'
    BY <1>1, <2>5, <2>6, <2>7 DEF CvInv, CvTyped, CvPhases, Days
  <2>9. Waiting' = (ToSet(others) \cup {h}) \cup ToSet(inflight.records)
    BY <1>1, <2>5 DEF Waiting
  <2>10. CvWhole'
    <3>1. Apart(pending, inflight.records)'
      BY <1>1, <1>3, <2>3, <2>5 DEF CvInv, CvWhole, Apart, Waiting
    <3>2. Ended' = Waiting' \cup Archived' \cup Left'
      BY <1>1, <1>2, <1>4, <2>3, <2>6, <2>9 DEF CvInv, CvWhole, Waiting
    <3> QED BY <1>1, <1>2, <3>1, <3>2 DEF CvInv, CvWhole
  <2>11. CvHealthy'
    <3> SUFFICES ASSUME faults = 0
                 PROVE  CvHealthy'
      BY <1>1 DEF CvHealthy
    <3>1. /\ Waiting \cap Archived = {} /\ Waiting \cap Left = {} /\ Archived \cap Left = {}
          /\ Waiting \cap slim = {} /\ DaysApart
          /\ bytes = 2 * Len(pending) /\ bytes <= PendingMaxBytes /\ ~file.broken
      BY DEF CvInv, CvHealthy
    <3>2. CostOf(out) = 2 * n
      <4>1. ToSet(out) \cap slim = {}
        BY <2>3, <3>1 DEF Waiting
      <4> QED BY <2>3, <2>4, <4>1, CostFacts
    <3>3. bytes' = 2 * Len(pending')
      BY <2>1, <2>2, <2>3, <2>4, <2>5, <3>1, <3>2
    <3>4. bytes' <= PendingMaxBytes
      <4>1. CASE n = Len(pending)
        <5>1. bytes' = 2
          BY <2>1, <2>4, <3>1, <3>2, <4>1
        <5> QED BY <5>1, ConversationAssumption DEF ConversationAssumption
      <4>2. CASE bytes - CostOf(out) + 2 <= PendingMaxBytes
        BY <2>1, <4>2
      <4> QED BY <2>2, <4>1, <4>2
    <3>5. Apart(pending, inflight.records)
      BY DEF CvInv, CvWhole
    <3>6. /\ Waiting' \cap Archived' = {} /\ Waiting' \cap Left' = {} /\ Archived' \cap Left' = {}
          /\ Waiting' \cap slim = {}
      BY <1>3, <1>4, <2>3, <2>6, <2>9, <3>1, <3>5 DEF Apart, Waiting
    <3> QED BY <1>1, <1>4, <3>1, <3>3, <3>4, <3>6 DEF CvHealthy
  <2> QED BY <1>5, <2>8, <2>10, <2>11 DEF CvInv
<1>8. \/ gone' = [gone EXCEPT !["discarded"] = @ \cup {h}] /\ UNCHANGED <<pending, bytes>>
      \/ gone' = [gone EXCEPT !["refused"] = @ \cup {h}] /\ UNCHANGED <<pending, bytes>>
      \/ LET n == Evictions(2)
             out == SubSeq(pending, 1, n)
         IN  /\ pending' = Append(SubSeq(pending, n + 1, Len(pending)), h)
             /\ bytes' = bytes - CostOf(out) + 2
             /\ gone' = [gone EXCEPT !["evicted"] = @ \cup ToSet(out)]
  BY DEF Capture
<1> QED BY <1>6, <1>7, <1>8

\* To open the file of today, or to fail to, leaves the past behind.
LEMMA DayOpens ==
  ASSUME CvInv, day' = day, curDay' \in {curDay, day}, file'.open => curDay' = day,
         compactDay' \in {compactDay, Registered}
  PROVE  curDay' \in 0 .. day' /\ Past(compactDay)' /\ \A d : Past(d) => Past(d)'
<1>1. \A d : Past(d) => Past(d)'
  BY DEF Past
<1>2. Past(compactDay)'
  <2>1. CASE compactDay' = curDay /\ curDay \notin {0, day}
    <3>1. curDay \in 0 .. MaxDay /\ curDay < day
      BY <2>1, PastFacts
    <3> QED BY <2>1, <3>1 DEF Past
  <2>2. CASE compactDay' = compactDay
    <3>1. Past(compactDay)
      BY DEF CvInv, CvDays
    <3> QED BY <2>2, <3>1 DEF Past
  <2> QED BY <2>1, <2>2 DEF Registered
<1> QED BY <1>1, <1>2, PastFacts

LEMMA OpenedFacts ==
  ASSUME CvTyped
  PROVE  /\ Opened \in [open : BOOLEAN, unlinked : BOOLEAN, broken : BOOLEAN]
         /\ Opened.open /\ (Opened.broken => file.broken)
BY DEF CvTyped, Opened, Closed

LEMMA TakeBatchKeeps ==
  ASSUME CvInv, LcInv, TakeBatch
  PROVE  CvInv'
<1>1. /\ UNCHANGED <<watched, handler, hook, late, day, slim, plain, gz, source, stopped, closer>>
      /\ UNCHANGED <<hookDone, jammed, denied, faults, gone>>
      /\ archivist = "idle" /\ archivist' = "io" /\ pending # <<>>
      /\ file' = Opened /\ curDay' = day /\ compactDay' = Registered
      /\ inflight' = [records |-> pending, held |-> bytes] /\ pending' = <<>> /\ bytes' = 0
  BY DEF TakeBatch, lcVars
<1>2. watched = "conversations" /\ source = 0 /\ inflight = NoBatch
  BY <1>1 DEF CvInv, CvPhases, CvDays
<1>3. <<>> \in Lists(Handlers) /\ ToSet(<<>>) = {} /\ Len(<<>>) = 0
  BY ListFacts
<1>4. inflight'.records = pending /\ inflight.records = <<>>
  BY <1>1, <1>2 DEF NoBatch
<1>5. Waiting' = Waiting
  BY <1>1, <1>3, <1>4 DEF Waiting
<1>6. CvTyped'
  <2>1. inflight' \in [records : Lists(Handlers), held : Int]
    BY <1>1 DEF CvInv, CvTyped
  <2> QED BY <1>1, <1>3, <2>1, DayOpens, OpenedFacts DEF CvInv, CvTyped, Days
<1>7. CvPhases'
  <2>1. file'.open /\ curDay' # 0 /\ inflight'.records # <<>>
    BY <1>1, <1>4, PastFacts, OpenedFacts DEF CvInv
  <2> QED BY <1>1, <1>2, <2>1 DEF CvPhases
<1>8. CvDays'
  <2>1. Past(source)'
    BY <1>1, DayOpens DEF CvInv, CvDays, Past
  <2>2. \A d \in Days : gz[d] # <<>> => Past(d)'
    BY <1>1, DayOpens DEF CvInv, CvDays
  <2> QED BY <1>1, <1>2, <2>1, <2>2, DayOpens DEF CvInv, CvDays, Days
<1>9. CvWhole'
  BY <1>1, <1>3, <1>4, <1>5, ConversationsKeep DEF CvInv, CvWhole, Apart
<1>10. CvHealthy'
  BY <1>1, <1>3, <1>5, ConversationsKeep, OpenedFacts, ConversationAssumption
     DEF CvInv, CvHealthy, ConversationAssumption
<1>11. CvFlushed'
  BY <1>1 DEF CvInv, CvFlushed
<1> QED BY <1>6, <1>7, <1>8, <1>9, <1>10, <1>11 DEF CvInv

LEMMA OpenFailsKeeps ==
  ASSUME CvInv, LcInv, OpenFails
  PROVE  CvInv'
<1>1. /\ UNCHANGED <<watched, handler, hook, late, day, pending, bytes, slim, inflight, plain, gz>>
      /\ UNCHANGED <<curDay, source, stopped, closer, hookDone, jammed, denied, faults, gone>>
      /\ archivist = "idle" /\ archivist' = "keeping" /\ pending # <<>>
      /\ file' = Closed /\ compactDay' \in {compactDay, Registered}
  BY DEF OpenFails, lcVars
<1>2. /\ file' \in [open : BOOLEAN, unlinked : BOOLEAN, broken : BOOLEAN]
      /\ ~file'.open /\ ~file'.broken
  BY <1>1 DEF Closed
<1>3. CvTyped' /\ CvPhases' /\ CvFlushed'
  BY <1>1, <1>2 DEF CvInv, CvTyped, CvPhases, CvFlushed, Days
<1>4. CvDays'
  <2>1. Past(compactDay)' /\ \A d : Past(d) => Past(d)'
    BY <1>1, <1>2, DayOpens
  <2>2. Past(source)'
    BY <1>1, <2>1 DEF CvInv, CvDays, Past
  <2> QED BY <1>1, <2>1, <2>2 DEF CvInv, CvDays, Days
<1>5. CvWhole' /\ CvHealthy'
  BY <1>1, <1>2, ConversationsKeep DEF CvInv, CvWhole, CvHealthy, Apart
<1> QED BY <1>3, <1>4, <1>5 DEF CvInv

LEMMA BatchWrittenKeeps ==
  ASSUME CvInv, LcInv, BatchWritten
  PROVE  CvInv'
<1> DEFINE r == inflight.records
<1>1. /\ UNCHANGED <<watched, handler, hook, late, day, pending, bytes, gz, file, curDay>>
      /\ UNCHANGED <<compactDay, source, stopped, closer, hookDone, jammed, denied>>
      /\ archivist = "io" /\ archivist' = "keeping" /\ inflight' = NoBatch
      /\ Written(file, curDay, r)
  BY DEF BatchWritten, lcVars
<1>2. /\ watched = "conversations" /\ curDay \in Days /\ gz[curDay] = <<>> /\ r \in Lists(Handlers)
      /\ source = 0 /\ file \in [open : BOOLEAN, unlinked : BOOLEAN, broken : BOOLEAN]
  BY <1>1, PastFacts DEF CvInv, CvPhases, CvDays, CvTyped
<1>3. /\ WriteTyped(curDay) /\ slim' = slim \cup ToSet(r) /\ faults' = faults
      /\ Archived' \cup Left' = Archived \cup Left \cup ToSet(r)
      /\ ToSet(r) \cap (Archived \cup Left) = {} /\ Archived \cap Left = {}
         => Archived' \cap Left' = {}
      /\ DaysApart /\ ToSet(r) \cap Archived = {} => DaysApart'
  BY <1>1, <1>2, WrittenFacts DEF CvInv
<1>4. Waiting = ToSet(pending) \cup ToSet(r) /\ Waiting' = ToSet(pending)
      /\ ToSet(pending) \cap ToSet(r) = {}
  <2>1. inflight'.records = <<>> /\ ToSet(<<>>) = {}
    BY <1>1, ListFacts DEF NoBatch
  <2> QED BY <1>1, <2>1 DEF Waiting, CvInv, CvWhole, Apart
<1> HIDE DEF r
<1>5. CvTyped' /\ CvPhases'
  <2>1. inflight' \in [records : Lists(Handlers), held : Int]
    BY <1>1, ListFacts DEF NoBatch
  <2> QED BY <1>1, <1>2, <1>3, <2>1 DEF CvInv, CvTyped, CvPhases, WriteTyped, Days
<1>6. CvDays'
  <2>1. \A d \in Days : d # curDay => plain'[d] = plain[d]
    BY <1>3 DEF WriteTyped
  <2>2. \A d \in Days : gz[d] # <<>> => plain[d] = <<>>
    BY <1>1 DEF CvInv, CvDays
  <2> QED BY <1>1, <1>2, <2>1, <2>2 DEF CvInv, CvDays, Past, Days
<1>7. CvWhole'
  <2>1. Apart(pending, inflight.records)'
    BY <1>1, ListFacts DEF NoBatch, Apart
  <2>2. Ended' = Ended
    BY <1>1, ConversationsKeep
  <2>3. Ended' = Waiting' \cup Archived' \cup Left' /\ slim' \subseteq Ended'
    BY <1>2, <1>3, <1>4, <2>2 DEF CvInv, CvWhole
  <2> QED BY <2>1, <2>3 DEF CvWhole
<1>8. CvHealthy'
  <2> SUFFICES ASSUME faults = 0
               PROVE  CvHealthy'
    BY <1>3 DEF CvHealthy
  <2>1. /\ Waiting \cap Archived = {} /\ Waiting \cap Left = {} /\ Archived \cap Left = {}
        /\ Waiting \cap slim = {} /\ DaysApart
        /\ bytes = 2 * Len(pending) /\ bytes <= PendingMaxBytes /\ ~file.broken
    BY DEF CvInv, CvHealthy
  <2>2. Archived' \cap Left' = {} /\ DaysApart'
    BY <1>3, <1>4, <2>1
  <2>3. Waiting' \cap Archived' = {} /\ Waiting' \cap Left' = {} /\ Waiting' \cap slim' = {}
    BY <1>3, <1>4, <2>1
  <2> QED BY <1>1, <2>1, <2>2, <2>3 DEF CvHealthy
<1>9. CvFlushed'
  BY <1>1, <1>3 DEF CvInv, CvFlushed
<1> QED BY <1>5, <1>6, <1>7, <1>8, <1>9 DEF CvInv

LEMMA BatchFailsKeeps ==
  ASSUME CvInv, LcInv, BatchFails
  PROVE  CvInv'
<1> DEFINE r == inflight.records
<1>1. /\ UNCHANGED <<watched, handler, hook, late, day, gz, curDay>>
      /\ UNCHANGED <<compactDay, source, stopped, closer, hookDone, jammed, denied>>
      /\ archivist = "io" /\ archivist' = "keeping" /\ inflight' = NoBatch
      /\ Failed(file, curDay, r) /\ file' = [file EXCEPT !.broken = TRUE]
      /\ pending' = r \o pending /\ bytes' = bytes + inflight.held
  BY DEF BatchFails, lcVars
<1>2. /\ watched = "conversations" /\ curDay \in Days /\ gz[curDay] = <<>> /\ r \in Lists(Handlers)
      /\ source = 0 /\ file \in [open : BOOLEAN, unlinked : BOOLEAN, broken : BOOLEAN]
      /\ r # <<>> /\ pending \in Lists(Handlers) /\ bytes' \in Int
      /\ file' \in [open : BOOLEAN, unlinked : BOOLEAN, broken : BOOLEAN] /\ file'.open = file.open
  <2>1. /\ watched = "conversations" /\ curDay \in Days /\ gz[curDay] = <<>> /\ source = 0
        /\ r # <<>>
    BY <1>1, PastFacts DEF CvInv, CvPhases, CvDays
  <2>2. /\ r \in Lists(Handlers) /\ pending \in Lists(Handlers) /\ inflight.held \in Int
        /\ file \in [open : BOOLEAN, unlinked : BOOLEAN, broken : BOOLEAN] /\ bytes \in Int
    BY DEF CvInv, CvTyped
  <2>3. file' \in [open : BOOLEAN, unlinked : BOOLEAN, broken : BOOLEAN] /\ file'.open = file.open
    BY <1>1, <2>2
  <2>4. bytes' \in Int
    BY <1>1, <2>2
  <2> HIDE DEF r
  <2> QED BY <2>1, <2>2, <2>3, <2>4
<1>3. /\ WriteTyped(curDay) /\ slim' \subseteq slim \cup ToSet(r) /\ faults' # 0
      /\ Left' = Left /\ Archived \subseteq Archived'
      /\ Archived' \subseteq Archived \cup ToSet(r)
  BY <1>1, <1>2, FailedFacts DEF CvInv
<1>4. /\ pending' \in Lists(Handlers) /\ ToSet(pending') = ToSet(r) \cup ToSet(pending)
  BY <1>1, <1>2, ListConcat DEF CvInv, CvWhole, Apart
<1>5. Waiting' = Waiting
  <2>1. inflight'.records = <<>> /\ ToSet(<<>>) = {}
    BY <1>1, ListFacts DEF NoBatch
  <2> QED BY <1>4, <2>1 DEF Waiting
<1>6. ToSet(r) \subseteq Waiting
  BY DEF Waiting
<1> HIDE DEF r
<1>7. CvTyped' /\ CvPhases'
  <2>1. inflight' \in [records : Lists(Handlers), held : Int]
    BY <1>1, ListFacts DEF NoBatch
  <2> QED BY <1>1, <1>2, <1>3, <1>4, <2>1 DEF CvInv, CvTyped, CvPhases, WriteTyped, Days
<1>8. CvDays'
  <2>1. \A d \in Days : d # curDay => plain'[d] = plain[d]
    BY <1>3 DEF WriteTyped
  <2>2. \A d \in Days : gz[d] # <<>> => plain[d] = <<>>
    BY <1>1 DEF CvInv, CvDays
  <2> QED BY <1>1, <1>2, <2>1, <2>2 DEF CvInv, CvDays, Past, Days
<1>9. CvWhole'
  <2>1. Apart(pending, inflight.records)'
    BY <1>1, ListFacts DEF NoBatch, Apart
  <2>2. Ended' = Ended
    BY <1>1, ConversationsKeep
  <2>3. Ended' = Waiting' \cup Archived' \cup Left' /\ slim' \subseteq Ended'
    BY <1>2, <1>3, <1>5, <1>6, <2>2 DEF CvInv, CvWhole
  <2> QED BY <2>1, <2>3 DEF CvWhole
<1>10. CvHealthy'
  BY <1>3 DEF CvHealthy
<1>11. CvFlushed'
  BY <1>1, <1>3 DEF CvInv, CvFlushed
<1> QED BY <1>7, <1>8, <1>9, <1>10, <1>11 DEF CvInv

LEMMA HousekeepKeeps ==
  ASSUME CvInv, LcInv, Housekeep
  PROVE  CvInv'
<1>1. /\ UNCHANGED <<watched, handler, hook, late, day, pending, bytes, slim, inflight, plain, gz>>
      /\ UNCHANGED <<file, curDay, stopped, closer, hookDone, jammed, denied, faults, gone>>
      /\ archivist \in {"idle", "keeping"} /\ archivist' = "compacting"
      /\ source' = compactDay /\ compactDay' = 0 /\ watched = "conversations"
  BY DEF Housekeep, lcVars
<1>2. CvTyped' /\ CvPhases' /\ CvFlushed'
  BY <1>1 DEF CvInv, CvTyped, CvPhases, CvFlushed, Days
<1>3. CvDays'
  BY <1>1, PastFacts DEF CvInv, CvDays, Past, Days
<1>4. CvWhole' /\ CvHealthy'
  BY <1>1, ConversationsKeep DEF CvInv, CvWhole, CvHealthy, Apart
<1> QED BY <1>2, <1>3, <1>4 DEF CvInv

LEMMA PublishKeeps ==
  ASSUME CvInv, LcInv, Publish
  PROVE  CvInv'
<1>1. /\ UNCHANGED <<watched, handler, hook, late, day, pending, bytes, slim, inflight, plain>>
      /\ UNCHANGED <<file, curDay, compactDay, source, stopped, closer, hookDone, jammed, faults>>
      /\ UNCHANGED <<denied, gone>>
      /\ archivist = "compacting" /\ archivist' = "published" /\ source # 0
      /\ plain[source] # <<>>
      /\ gz' = [gz EXCEPT ![source] = IF gz[source] = <<>> THEN plain[source] ELSE gz[source]]
  BY DEF Publish, lcVars
<1>2. /\ source \in Days /\ Past(source) /\ gz[source] = <<>>
      /\ gz \in [Days -> Seq(Handlers)] /\ plain \in [Days -> Seq(Handlers)]
  BY <1>1, PastFacts DEF CvInv, CvDays, CvTyped, Days
<1>3. \A d \in Days : gz'[d] = IF d = source THEN plain[source] ELSE gz[d]
  BY <1>1, <1>2
<1>4. CvTyped' /\ CvPhases' /\ CvFlushed'
  BY <1>1, <1>2 DEF CvInv, CvTyped, CvPhases, CvFlushed, Days
<1>5. CvDays'
  BY <1>1, <1>2, <1>3 DEF CvInv, CvDays, Past, Days
<1>6. Archived' = Archived
  <2>1. ASSUME NEW h
        PROVE  h \in Archived' <=> h \in Archived
    <3>1. h \in Archived' <=> \E d \in Days : h \in ToSet(plain[d]) \/ h \in ToSet(gz'[d])
      BY <1>1 DEF Archived, Days
    <3>2. \A d \in Days : ToSet(gz'[d]) = IF d = source THEN ToSet(plain[source]) ELSE ToSet(gz[d])
      BY <1>3
    <3>3. ToSet(gz[source]) = {}
      BY <1>2, ListFacts
    <3> QED BY <1>2, <3>1, <3>2, <3>3, ArchivedFacts
  <2> QED BY <2>1
<1>7. DaysApart => DaysApart'
  <2>1. ASSUME DaysApart, NEW c \in Days, NEW e \in Days, c # e
        PROVE  /\ Apart(plain'[c], plain'[e]) /\ Apart(gz'[c], gz'[e])
               /\ Apart(plain'[c], gz'[e])
    <3>1. /\ Apart(plain[c], plain[e]) /\ Apart(gz[c], gz[e]) /\ Apart(plain[c], gz[e])
          /\ Apart(plain[e], gz[c])
      BY <2>1 DEF DaysApart
    <3> QED BY <1>1, <1>3, <2>1, <3>1 DEF Apart
  <2> QED BY <2>1 DEF DaysApart, Days, Apart
<1>8. CvWhole' /\ CvHealthy'
  BY <1>1, <1>6, <1>7, ConversationsKeep DEF CvInv, CvWhole, CvHealthy, Apart
<1> QED BY <1>4, <1>5, <1>8 DEF CvInv

LEMMA RemoveSourceKeeps ==
  ASSUME CvInv, LcInv, RemoveSource
  PROVE  CvInv'
<1>1. /\ UNCHANGED <<watched, handler, hook, late, day, pending, bytes, slim, inflight, gz>>
      /\ UNCHANGED <<file, curDay, compactDay, stopped, closer, hookDone, jammed, faults>>
      /\ UNCHANGED <<denied, gone>>
      /\ archivist = "published" /\ archivist' = "compacting" /\ source' = 0
      /\ plain' = [plain EXCEPT ![source] = <<>>]
  BY DEF RemoveSource, lcVars
<1>2. /\ source \in Days /\ Past(source) /\ gz[source] = plain[source]
      /\ gz \in [Days -> Seq(Handlers)] /\ plain \in [Days -> Seq(Handlers)]
  BY <1>1, PastFacts DEF CvInv, CvDays, CvTyped, Days
<1>3. \A d \in Days : plain'[d] = IF d = source THEN <<>> ELSE plain[d]
  BY <1>1, <1>2
<1>4. CvTyped' /\ CvPhases' /\ CvFlushed'
  BY <1>1, <1>2 DEF CvInv, CvTyped, CvPhases, CvFlushed, Days
<1>5. CvDays'
  BY <1>1, <1>2, <1>3, PastFacts DEF CvInv, CvDays, Past, Days
<1>6. \A d \in Days : ToSet(plain'[d]) = IF d = source THEN {} ELSE ToSet(plain[d])
  BY <1>3, ListFacts
<1>7. Archived' = Archived
  <2>1. ASSUME NEW h
        PROVE  h \in Archived' <=> h \in Archived
    <3>1. h \in Archived' <=> \E d \in Days : h \in ToSet(plain'[d]) \/ h \in ToSet(gz[d])
      BY <1>1 DEF Archived, Days
    <3> QED BY <1>2, <1>6, <3>1, ArchivedFacts
  <2> QED BY <2>1
<1>8. DaysApart => DaysApart'
  <2>1. ASSUME DaysApart, NEW c \in Days, NEW e \in Days, c # e
        PROVE  /\ Apart(plain'[c], plain'[e]) /\ Apart(gz'[c], gz'[e])
               /\ Apart(plain'[c], gz'[e])
    <3>1. Apart(plain[c], plain[e]) /\ Apart(gz[c], gz[e]) /\ Apart(plain[c], gz[e])
      BY <2>1 DEF DaysApart
    <3> QED BY <1>1, <1>6, <2>1, <3>1 DEF Apart
  <2> QED BY <2>1 DEF DaysApart, Days, Apart
<1>9. CvWhole' /\ CvHealthy'
  BY <1>1, <1>7, <1>8, ConversationsKeep DEF CvInv, CvWhole, CvHealthy, Apart
<1> QED BY <1>4, <1>5, <1>9 DEF CvInv

\* The archives of some days are removed, that of the open file perhaps among them.
LEMMA CleanupKeeps ==
  ASSUME CvInv, LcInv, Cleanup
  PROVE  CvInv'
<1>1. /\ UNCHANGED <<watched, handler, hook, late, day, pending, bytes, slim, inflight>>
      /\ UNCHANGED <<curDay, compactDay, stopped, closer, hookDone, jammed, denied, faults>>
      /\ archivist = "compacting" /\ archivist' = "idle" /\ source' = 0
  BY DEF Cleanup, lcVars
<1>2. PICK R \in SUBSET Days :
         /\ plain' = [d \in Days |-> IF d \in R THEN <<>> ELSE plain[d]]
         /\ gz' = [d \in Days |-> IF d \in R THEN <<>> ELSE gz[d]]
         /\ \E b \in BOOLEAN : file' = [file EXCEPT !.unlinked = b]
         /\ gone' = [gone EXCEPT !["deleted"] =
                        @ \cup UNION {ToSet(plain[d]) \cup ToSet(gz[d]) : d \in R}]
  <2>1. PICK kept \in SUBSET Days :
           /\ plain' = [d \in Days |-> IF d \in kept THEN plain[d] ELSE <<>>]
           /\ gz' = [d \in Days |-> IF d \in kept THEN gz[d] ELSE <<>>]
           /\ file' = [file EXCEPT !.unlinked = @ \/ (file.open /\ curDay \notin kept)]
           /\ gone' = [gone EXCEPT !["deleted"] =
                          @ \cup UNION {ToSet(plain[d]) \cup ToSet(gz[d]) : d \in Days \ kept}]
    BY DEF Cleanup
  <2> DEFINE R == Days \ kept
             b == file.unlinked \/ (file.open /\ curDay \notin kept)
  <2>2. R \in SUBSET Days /\ \A d \in Days : d \in R <=> d \notin kept
    OBVIOUS
  <2>3. b \in BOOLEAN /\ file' = [file EXCEPT !.unlinked = b]
    BY <2>1
  <2>4. /\ plain' = [d \in Days |-> IF d \in R THEN <<>> ELSE plain[d]]
        /\ gz' = [d \in Days |-> IF d \in R THEN <<>> ELSE gz[d]]
    <3> HIDE DEF R, b
    <3> QED BY <2>1, <2>2
  <2>5. gone' = [gone EXCEPT !["deleted"] =
                   @ \cup UNION {ToSet(plain[d]) \cup ToSet(gz[d]) : d \in R}]
    BY <2>1
  <2> HIDE DEF R, b
  <2> QED BY <2>2, <2>3, <2>4, <2>5
<1> DEFINE X == UNION {ToSet(plain[d]) \cup ToSet(gz[d]) : d \in R}
<1>3. X \subseteq Archived /\ X \in SUBSET Handlers
  <2>1. \A d \in Days : ToSet(plain[d]) \subseteq Handlers /\ ToSet(gz[d]) \subseteq Handlers
    <3> TAKE d \in Days
    <3>1. plain[d] \in Seq(Handlers) /\ gz[d] \in Seq(Handlers)
      BY DEF CvInv, CvTyped
    <3> QED BY <3>1 DEF ToSet
  <2> QED BY <2>1, ArchivedFacts
<1>4. gone' \in [Reasons -> SUBSET Handlers] /\ Left' = Left \cup X
  <2>1. "deleted" \in Reasons /\ CvTyped /\ gone' = [gone EXCEPT !["deleted"] = @ \cup X]
    BY <1>2 DEF Reasons, CvInv
  <2> HIDE DEF X
  <2> QED BY <1>3, <2>1, LeftGrows
<1>5. /\ \A d \in Days : plain'[d] = IF d \in R THEN <<>> ELSE plain[d]
      /\ \A d \in Days : gz'[d] = IF d \in R THEN <<>> ELSE gz[d]
  BY <1>2
<1>6. /\ plain' \in [Days -> Seq(Handlers)] /\ gz' \in [Days -> Seq(Handlers)]
      /\ file' \in [open : BOOLEAN, unlinked : BOOLEAN, broken : BOOLEAN]
      /\ file'.broken = file.broken /\ file'.open = file.open
  <2>1. plain' \in [Days -> Seq(Handlers)] /\ gz' \in [Days -> Seq(Handlers)]
    BY <1>2 DEF CvInv, CvTyped
  <2>2. file \in [open : BOOLEAN, unlinked : BOOLEAN, broken : BOOLEAN]
    BY DEF CvInv, CvTyped
  <2>3. PICK b \in BOOLEAN : file' = [file EXCEPT !.unlinked = b]
    BY <1>2
  <2>4. /\ file' \in [open : BOOLEAN, unlinked : BOOLEAN, broken : BOOLEAN]
        /\ file'.broken = file.broken /\ file'.open = file.open
    BY <2>2, <2>3
  <2> QED BY <2>1, <2>4
<1> HIDE DEF X
<1>7. CvTyped' /\ CvPhases' /\ CvFlushed'
  BY <1>1, <1>4, <1>6 DEF CvInv, CvTyped, CvPhases, CvFlushed, Days
<1>8. CvDays'
  <2>1. \A d : Past(d)' <=> Past(d)
    BY <1>1, <1>6 DEF Past
  <2>2. Past(compactDay)' /\ Past(source)'
    <3>1. Past(compactDay)'
      BY <1>1, <2>1 DEF CvInv, CvDays, Past
    <3>2. Past(0)
      BY PastFacts, <1>1 DEF Past, CvInv, CvPhases
    <3> QED BY <1>1, <2>1, <3>1, <3>2 DEF Past
  <2>3. \A d \in Days : gz'[d] # <<>> => gz[d] # <<>> /\ (plain'[d] # <<>> => plain[d] # <<>>)
    BY <1>5
  <2>4. \A d \in Days : gz[d] # <<>> => Past(d)' /\ plain[d] = <<>>
    BY <1>1, <2>1 DEF CvInv, CvDays
  <2> QED BY <1>1, <2>2, <2>3, <2>4 DEF CvDays, Days
<1>9. /\ \A d \in Days : ToSet(plain'[d]) = IF d \in R THEN {} ELSE ToSet(plain[d])
      /\ \A d \in Days : ToSet(gz'[d]) = IF d \in R THEN {} ELSE ToSet(gz[d])
  BY <1>5, ListFacts
<1>10. \A h : h \in Archived' <=> \E d \in Days : h \in ToSet(plain'[d]) \/ h \in ToSet(gz'[d])
  BY DEF Archived, Days
<1>11. Archived' \cup X = Archived
  <2>1. ASSUME NEW h
        PROVE  h \in Archived' \/ h \in X <=> h \in Archived
    BY <1>3, <1>9, <1>10, ArchivedFacts DEF X
  <2> QED BY <2>1
<1>12. CvWhole'
  <2>1. Ended' = Ended /\ Waiting' = Waiting
    BY <1>1, ConversationsKeep
  <2>2. watched = "conversations" => Ended' = Waiting' \cup Archived' \cup Left'
    BY <1>4, <1>11, <2>1 DEF CvInv, CvWhole
  <2> QED BY <1>1, <2>1, <2>2 DEF CvInv, CvWhole, Apart
<1>13. CvHealthy'
  <2> SUFFICES ASSUME faults = 0
               PROVE  CvHealthy'
    BY <1>1 DEF CvHealthy
  <2>1. /\ Waiting \cap Archived = {} /\ Waiting \cap Left = {} /\ Archived \cap Left = {}
        /\ Waiting \cap slim = {} /\ DaysApart
        /\ bytes = 2 * Len(pending) /\ bytes <= PendingMaxBytes /\ ~file.broken
    BY DEF CvInv, CvHealthy
  <2>2. DaysApart'
    <3>1. ASSUME NEW c \in Days, NEW e \in Days, c # e
          PROVE  /\ Apart(plain'[c], plain'[e]) /\ Apart(gz'[c], gz'[e])
                 /\ Apart(plain'[c], gz'[e])
      <4>1. Apart(plain[c], plain[e]) /\ Apart(gz[c], gz[e]) /\ Apart(plain[c], gz[e])
        BY <2>1, <3>1 DEF DaysApart
      <4> QED BY <1>9, <4>1 DEF Apart
    <3> QED BY <3>1 DEF DaysApart, Days, Apart
  <2>3. Archived' \cap X = {}
    <3> SUFFICES ASSUME NEW h, h \in Archived', h \in X
                 PROVE  FALSE
      OBVIOUS
    <3>1. PICK d \in Days : d \notin R /\ (h \in ToSet(plain[d]) \/ h \in ToSet(gz[d]))
      BY <1>9, <1>10
    <3>2. PICK e \in R : h \in ToSet(plain[e]) \/ h \in ToSet(gz[e])
      BY DEF X
    <3>3. e \in Days /\ d # e
      BY <3>1, <3>2
    <3>4. /\ Apart(plain[d], plain[e]) /\ Apart(gz[d], gz[e]) /\ Apart(plain[d], gz[e])
          /\ Apart(plain[e], gz[d])
      BY <2>1, <3>3 DEF DaysApart
    <3> QED BY <3>1, <3>2, <3>4 DEF Apart
  <2>4. Waiting' = Waiting
    BY <1>1, ConversationsKeep
  <2>5. /\ Waiting' \cap Archived' = {} /\ Waiting' \cap Left' = {} /\ Archived' \cap Left' = {}
        /\ Waiting' \cap slim' = {}
    BY <1>1, <1>3, <1>4, <1>11, <2>1, <2>3, <2>4
  <2> QED BY <1>1, <1>6, <2>1, <2>2, <2>5 DEF CvHealthy
<1> QED BY <1>7, <1>8, <1>12, <1>13 DEF CvInv

\* What is pending is written to the file of today by a goroutine that has the writer to
\* itself, and there is no writer afterwards.
LEMMA FlushKeeps ==
  ASSUME CvInv, LcInv, FlushAndClose, watched = "conversations",
         archivist \in {"idle", "dead"}, archivist' = "dead",
         UNCHANGED <<watched, handler, day, gz, inflight, source>>
  PROVE  /\ CvTyped' /\ CvPhases' /\ CvDays' /\ CvWhole' /\ CvHealthy'
         /\ faults' = 0 /\ ~denied' => pending' = <<>>
<1>1. file' = Closed /\ ~file'.open /\ source = 0 /\ inflight = NoBatch
      /\ Closed \in [open : BOOLEAN, unlinked : BOOLEAN, broken : BOOLEAN] /\ ~Closed.broken
  BY DEF FlushAndClose, CvInv, CvPhases, CvDays, Closed
<1>2. <<>> \in Lists(Handlers) /\ ToSet(<<>>) = {} /\ inflight.records = <<>> /\ Len(<<>>) = 0
  BY <1>1, ListFacts DEF NoBatch
<1>3. Waiting = ToSet(pending) /\ Waiting' = ToSet(pending') /\ Ended' = Ended
      /\ Apart(pending, inflight.records)'
  BY <1>2, ConversationsKeep DEF Waiting, Apart
<1>4. pending \in Lists(Handlers) /\ pending \in Seq(Handlers) /\ bytes \in Int
      /\ day \in Days /\ gz[day] = <<>>
  BY ListIndices, PastFacts DEF CvInv, CvTyped
<1>5. CASE pending = <<>> /\ UNCHANGED <<pending, bytes, slim, plain, curDay, compactDay, faults, gone>>
  <2>1. UNCHANGED <<pending, bytes, slim, plain, curDay, compactDay, faults, gone>>
    BY <1>5
  <2>2. CvTyped' /\ CvPhases' /\ CvDays'
    BY <1>1, <2>1 DEF CvInv, CvTyped, CvPhases, CvDays, Past, Days
  <2>3. CvWhole' /\ CvHealthy'
    BY <1>1, <1>3, <2>1, ConversationsKeep DEF CvInv, CvWhole, CvHealthy
  <2> QED BY <1>5, <2>1, <2>2, <2>3
<1>6. CASE /\ pending # <<>>
           /\ curDay' = day /\ compactDay' = Registered
           /\ \/ /\ Written(Opened, day, pending)
                 /\ bytes' = IF bytes > CostOf(pending) THEN bytes - CostOf(pending) ELSE 0
                 /\ pending' = <<>>
              \/ Failed(Opened, day, pending) /\ UNCHANGED <<pending, bytes>>
  <2>1. curDay' = day /\ compactDay' = Registered
    BY <1>6
  <2>2. ASSUME WriteTyped(day)
        PROVE  CvDays'
    <3>1. /\ Past(compactDay)' /\ Past(source)' /\ \A d \in Days : gz[d] # <<>> => Past(d)'
      BY <1>1, <2>1, DayOpens DEF CvInv, CvDays, Past
    <3>2. \A d \in Days : gz[d] # <<>> => plain[d] = <<>>
      BY DEF CvInv, CvDays
    <3>3. \A d \in Days : gz[d] # <<>> => plain'[d] = <<>>
      BY <1>4, <2>2, <3>2 DEF WriteTyped
    <3> QED BY <1>1, <3>1, <3>3 DEF CvDays, Days
  <2>3. CASE /\ Written(Opened, day, pending)
             /\ bytes' = IF bytes > CostOf(pending) THEN bytes - CostOf(pending) ELSE 0
             /\ pending' = <<>>
    <3>1. /\ WriteTyped(day) /\ slim' = slim \cup ToSet(pending) /\ faults' = faults
          /\ Archived' \cup Left' = Archived \cup Left \cup ToSet(pending)
          /\ ToSet(pending) \cap (Archived \cup Left) = {} /\ Archived \cap Left = {}
             => Archived' \cap Left' = {}
          /\ DaysApart /\ ToSet(pending) \cap Archived = {} => DaysApart'
      BY <1>4, <2>3, OpenedFacts, WrittenFacts DEF CvInv
    <3>2. CostOf(pending) \in Int /\ bytes' \in Int
      <4>1. CostOf(pending) \in Int
        BY <1>4, CostFacts
      <4> QED BY <1>4, <2>3, <4>1
    <3>3. CvTyped' /\ CvPhases'
      BY <1>1, <1>2, <2>1, <2>3, <3>1, <3>2, DayOpens DEF CvInv, CvTyped, CvPhases, WriteTyped, Days
    <3>4. CvWhole'
      BY <1>2, <1>3, <2>3, <3>1 DEF CvInv, CvWhole
    <3>5. CvHealthy'
      <4> SUFFICES ASSUME faults = 0
                   PROVE  CvHealthy'
        BY <3>1 DEF CvHealthy
      <4>1. /\ Waiting \cap Archived = {} /\ Waiting \cap Left = {} /\ Archived \cap Left = {}
            /\ Waiting \cap slim = {} /\ DaysApart /\ bytes = 2 * Len(pending)
        BY DEF CvInv, CvHealthy
      <4>2. CostOf(pending) = 2 * Len(pending)
        BY <1>3, <1>4, <4>1, CostFacts
      <4>3. bytes' = 0
        BY <1>4, <2>3, <4>1, <4>2
      <4>4. Archived' \cap Left' = {} /\ DaysApart'
        BY <1>3, <3>1, <4>1
      <4> QED BY <1>1, <1>2, <1>3, <2>3, <4>3, <4>4, ConversationAssumption
              DEF CvHealthy, ConversationAssumption
    <3> QED BY <2>2, <2>3, <3>1, <3>3, <3>4, <3>5
  <2>4. CASE Failed(Opened, day, pending) /\ UNCHANGED <<pending, bytes>>
    <3>1. /\ WriteTyped(day) /\ slim' \subseteq slim \cup ToSet(pending) /\ faults' # 0
          /\ Left' = Left /\ Archived \subseteq Archived'
          /\ Archived' \subseteq Archived \cup ToSet(pending)
      BY <1>4, <1>6, <2>4, OpenedFacts, FailedFacts DEF CvInv
    <3>2. CvTyped' /\ CvPhases'
      BY <1>1, <2>1, <2>4, <3>1, DayOpens DEF CvInv, CvTyped, CvPhases, WriteTyped, Days
    <3>3. CvWhole'
      BY <1>3, <2>4, <3>1 DEF CvInv, CvWhole
    <3> QED BY <2>2, <3>1, <3>2, <3>3 DEF CvHealthy
  <2> QED BY <1>6, <2>3, <2>4
<1>7. CASE Denied
  <2>1. /\ UNCHANGED <<pending, bytes, slim, plain, curDay, faults, gone>>
        /\ compactDay' \in {compactDay, Registered} /\ denied' = TRUE
    BY <1>7 DEF Denied
  <2>2. CvTyped' /\ CvPhases'
    BY <1>1, <2>1 DEF CvInv, CvTyped, CvPhases, Days
  <2>3. CvDays'
    <3>1. Past(compactDay)' /\ \A d : Past(d) => Past(d)'
      BY <1>1, <2>1, DayOpens
    <3>2. Past(source)'
      BY <1>1, <3>1 DEF CvInv, CvDays, Past
    <3> QED BY <1>1, <2>1, <3>1, <3>2 DEF CvInv, CvDays, Days
  <2>4. CvWhole' /\ CvHealthy'
    BY <1>1, <1>3, <2>1, ConversationsKeep DEF CvInv, CvWhole, CvHealthy
  <2> QED BY <2>1, <2>2, <2>3, <2>4
<1>8. \/ pending = <<>> /\ UNCHANGED <<pending, bytes, slim, plain, curDay, compactDay, faults, gone>>
      \/ /\ pending # <<>>
         /\ curDay' = day /\ compactDay' = Registered
         /\ \/ /\ Written(Opened, day, pending)
               /\ bytes' = IF bytes > CostOf(pending) THEN bytes - CostOf(pending) ELSE 0
               /\ pending' = <<>>
            \/ Failed(Opened, day, pending) /\ UNCHANGED <<pending, bytes>>
      \/ Denied
  BY DEF FlushAndClose
<1> QED BY <1>5, <1>6, <1>7, <1>8

LEMMA WriterEndsKeeps ==
  ASSUME CvInv, LcInv, WriterEnds
  PROVE  CvInv'
<1>1. /\ UNCHANGED <<watched, handler, hook, late, day, inflight, gz, source, stopped, closer>>
      /\ UNCHANGED <<hookDone, jammed>>
      /\ archivist = "idle" /\ stopped /\ FlushAndClose /\ archivist' = "dead" /\ ~jammed
  BY DEF WriterEnds, lcVars
<1>2. watched = "conversations"
  BY <1>1 DEF CvInv, CvPhases
<1>3. CvTyped' /\ CvPhases' /\ CvDays' /\ CvWhole' /\ CvHealthy'
  BY <1>1, <1>2, FlushKeeps
<1>4. CvFlushed'
  BY <1>1 DEF CvInv, CvFlushed
<1> QED BY <1>3, <1>4 DEF CvInv

LEMMA HookFlushesKeeps ==
  ASSUME CvInv, LcInv, HookFlushes
  PROVE  CvInv'
<1>1. /\ UNCHANGED <<watched, handler, hook, late, day, inflight, gz, source, stopped, archivist>>
      /\ UNCHANGED jammed
      /\ archivist \in {"idle", "dead"} /\ archivist' = "dead" /\ FlushAndClose /\ closer = "hook"
      /\ closer' = "none" /\ hookDone' = TRUE
  BY DEF HookFlushes, lcVars, Alive
<1>2. watched = "conversations"
  BY <1>1 DEF CvInv, CvPhases
<1>3. /\ CvTyped' /\ CvPhases' /\ CvDays' /\ CvWhole' /\ CvHealthy'
      /\ faults' = 0 /\ ~denied' => pending' = <<>>
  BY <1>1, <1>2, FlushKeeps
<1>4. CvFlushed'
  BY <1>1, <1>3 DEF CvInv, CvFlushed
<1> QED BY <1>3, <1>4 DEF CvInv

\* What the call of either closer does to the writer: it stops it, or finds it stopped.
LEMMA StopKeeps ==
  ASSUME CvInv, LcInv, NEW who \in {"hook", "panel"}, StopWriter(who),
         watched = "conversations", who = "hook" => hook >= IndexOf("conversations")
  PROVE  CvInv'
<1>1. /\ UNCHANGED <<watched, handler, hook, late, day, pending, bytes, slim, inflight, plain, gz>>
      /\ UNCHANGED <<file, curDay, compactDay, archivist, source, denied, faults, gone>>
  BY DEF StopWriter
<1>2. \/ /\ jammed' = TRUE /\ hookDone' = (hookDone \/ who = "hook")
         /\ UNCHANGED <<stopped, closer>>
      \/ stopped' = TRUE /\ closer' = who /\ UNCHANGED <<jammed, hookDone>>
  BY DEF StopWriter
<1>3. CvTyped' /\ CvPhases' /\ CvDays'
  BY <1>1 DEF CvInv, CvTyped, CvPhases, CvDays, Past, Days
<1>4. CvWhole' /\ CvHealthy'
  BY <1>1, ConversationsKeep DEF CvInv, CvWhole, CvHealthy, Apart
<1>5. CvFlushed'
  <2>1. hook \in Nat /\ IndexOf("conversations") \in Nat
    BY HookIndices DEF LcInv
  <2>2. CASE /\ jammed' = TRUE /\ hookDone' = (hookDone \/ who = "hook")
             /\ UNCHANGED <<stopped, closer>>
    BY <1>1, <2>1, <2>2 DEF CvInv, CvFlushed
  <2>3. CASE stopped' = TRUE /\ closer' = who /\ UNCHANGED <<jammed, hookDone>>
    BY <1>1, <2>1, <2>3 DEF CvInv, CvFlushed
  <2> QED BY <1>2, <2>2, <2>3
<1> QED BY <1>3, <1>4, <1>5 DEF CvInv

LEMMA ClosersKeep ==
  ASSUME CvInv, LcInv, HookStopsWriter \/ PanelStopsWriter
  PROVE  CvInv'
<1>1. CASE HookStopsWriter
  <2>1. watched = "conversations" /\ hook >= IndexOf("conversations") /\ StopWriter("hook")
    BY <1>1 DEF HookStopsWriter, Begun
  <2>2. "hook" \in {"hook", "panel"}
    OBVIOUS
  <2> QED BY <2>1, <2>2, StopKeeps
<1>2. CASE PanelStopsWriter
  <2>1. watched = "conversations" /\ "panel" # "hook" /\ StopWriter("panel")
    BY <1>2 DEF PanelStopsWriter
  <2>2. "panel" \in {"hook", "panel"}
    OBVIOUS
  <2> QED BY <2>1, <2>2, StopKeeps
<1> QED BY <1>1, <1>2

LEMMA CloserGivesUpKeeps ==
  ASSUME CvInv, LcInv, CloserGivesUp
  PROVE  CvInv'
<1>1. /\ UNCHANGED <<watched, handler, hook, day, pending, bytes, slim, inflight, plain, gz>>
      /\ UNCHANGED <<file, curDay, compactDay, archivist, source, stopped, jammed, denied, faults>>
      /\ UNCHANGED gone
      /\ closer # "none" /\ closer' = "none"
  BY DEF CloserGivesUp
<1>2. \/ closer = "hook" /\ late' # {} /\ hookDone' = TRUE
      \/ UNCHANGED <<late, hookDone>>
  BY DEF CloserGivesUp
<1>3. CvTyped' /\ CvPhases' /\ CvDays'
  BY <1>1 DEF CvInv, CvTyped, CvPhases, CvDays, Past, Days
<1>4. CvWhole' /\ CvHealthy'
  BY <1>1, ConversationsKeep DEF CvInv, CvWhole, CvHealthy, Apart
<1>5. CvFlushed'
  BY <1>1, <1>2 DEF CvInv, CvFlushed
<1> QED BY <1>3, <1>4, <1>5 DEF CvInv

LEMMA PanelClearsKeeps ==
  ASSUME CvInv, LcInv, PanelClears
  PROVE  CvInv'
<1>1. /\ UNCHANGED <<watched, handler, hook, late, day, inflight, archivist, source, stopped>>
      /\ UNCHANGED <<hookDone, jammed>>
      /\ archivist = "dead" /\ closer = "panel" /\ closer' = "none"
      /\ slim' \in {slim, slim \cup ToSet(pending)}
      /\ plain' = [d \in Days |-> <<>>] /\ gz' = [d \in Days |-> <<>>]
      /\ file' = Closed /\ curDay' = 0 /\ compactDay' = 0
  BY DEF PanelClears, Alive
<1>2. \/ /\ gone' = [gone EXCEPT !["deleted"] = @ \cup Archived \cup ToSet(pending)]
         /\ pending' = <<>> /\ faults' = faults /\ slim' = slim \cup ToSet(pending)
         /\ bytes' = IF bytes > CostOf(pending) THEN bytes - CostOf(pending) ELSE 0
      \/ /\ faults' = faults + 1
         /\ gone' = [gone EXCEPT !["deleted"] = @ \cup Archived]
         /\ UNCHANGED <<pending, bytes>>
      \/ /\ gone' = [gone EXCEPT !["deleted"] = @ \cup Archived]
         /\ pending # <<>> /\ denied' = TRUE
         /\ UNCHANGED <<pending, bytes, slim, faults>>
  BY DEF PanelClears, Archived
<1>3. /\ watched = "conversations" /\ source = 0 /\ inflight = NoBatch
      /\ pending \in Lists(Handlers) /\ bytes \in Int /\ slim \subseteq Handlers /\ faults \in Nat
      /\ day \in Days /\ day > 0 /\ MaxDay \in Nat
  BY <1>1, PastFacts DEF CvInv, CvPhases, CvDays, CvTyped
<1>4. /\ pending \in Seq(Handlers) /\ ToSet(pending) \subseteq Handlers
      /\ <<>> \in Lists(Handlers) /\ ToSet(<<>>) = {} /\ inflight.records = <<>> /\ Len(<<>>) = 0
      /\ <<>> \in Seq(Handlers)
  BY <1>3, ListFacts, ListIndices DEF NoBatch
<1>5. Archived \subseteq Handlers
  <2>1. \A d \in Days : ToSet(plain[d]) \subseteq Handlers /\ ToSet(gz[d]) \subseteq Handlers
    <3> TAKE d \in Days
    <3>1. plain[d] \in Seq(Handlers) /\ gz[d] \in Seq(Handlers)
      BY DEF CvInv, CvTyped
    <3> QED BY <3>1 DEF ToSet
  <2> QED BY <2>1, ArchivedFacts
<1>6. /\ Waiting = ToSet(pending) /\ Waiting' = ToSet(pending') /\ Ended' = Ended
      /\ Apart(pending, inflight.records)'
  BY <1>1, <1>4, ConversationsKeep DEF Waiting, Apart
<1>7. \A d \in Days : plain'[d] = <<>> /\ gz'[d] = <<>>
  BY <1>1
<1>8. Archived' = {}
  <2>1. \A h : h \in Archived' <=> \E d \in Days : h \in ToSet(plain'[d]) \/ h \in ToSet(gz'[d])
    BY DEF Archived, Days
  <2> QED BY <1>4, <1>7, <2>1
<1>9. CostOf(pending) \in Int
  BY <1>4, CostFacts
<1> DEFINE X == IF gone' = [gone EXCEPT !["deleted"] = @ \cup Archived] /\ pending' = pending
                 THEN Archived ELSE Archived \cup ToSet(pending)
<1>11. /\ X \in SUBSET Handlers /\ gone' = [gone EXCEPT !["deleted"] = @ \cup X]
       /\ Archived \subseteq X /\ X \cup ToSet(pending') = Archived \cup ToSet(pending)
       /\ pending' \in Lists(Handlers) /\ (pending' # <<>> => X = Archived)
  <2>1. CASE gone' = [gone EXCEPT !["deleted"] = @ \cup Archived] /\ pending' = pending
    <3>1. X = Archived
      BY <2>1
    <3> HIDE DEF X
    <3> QED BY <1>3, <1>5, <2>1, <3>1
  <2>2. CASE ~(gone' = [gone EXCEPT !["deleted"] = @ \cup Archived] /\ pending' = pending)
    <3>1. /\ X = Archived \cup ToSet(pending) /\ pending' = <<>>
          /\ gone' = [gone EXCEPT !["deleted"] = @ \cup Archived \cup ToSet(pending)]
      BY <1>2, <2>2
    <3>2. gone' = [gone EXCEPT !["deleted"] = @ \cup X]
      BY <3>1
    <3> HIDE DEF X
    <3> QED BY <1>4, <1>5, <3>1, <3>2
  <2> QED BY <2>1, <2>2
<1>12. gone' \in [Reasons -> SUBSET Handlers] /\ Left' = Left \cup X
  <2>1. "deleted" \in Reasons /\ CvTyped
    BY DEF Reasons, CvInv
  <2> HIDE DEF X
  <2> QED BY <1>11, <2>1, LeftGrows
<1> HIDE DEF X
<1>13. /\ bytes' \in Int /\ faults' \in Nat /\ (faults' = 0 => faults = 0)
       /\ faults' = 0 /\ ~denied' => pending' = <<>>
  BY <1>2, <1>3, <1>9
<1>14. CvTyped'
  <2>1. plain' \in [Days -> Seq(Handlers)] /\ gz' \in [Days -> Seq(Handlers)]
    BY <1>1, <1>4
  <2>2. file' \in [open : BOOLEAN, unlinked : BOOLEAN, broken : BOOLEAN]
    BY <1>1 DEF Closed
  <2>3. slim' \subseteq Handlers /\ day' \in Days /\ curDay' \in 0 .. day'
    BY <1>1, <1>3, <1>4 DEF Days
  <2> QED BY <1>1, <1>11, <1>12, <1>13, <2>1, <2>2, <2>3 DEF CvInv, CvTyped, Days
<1>15. CvPhases' /\ CvDays'
  <2>1. CvPhases'
    BY <1>1, <1>3 DEF CvInv, CvPhases, Closed
  <2>2. CvDays'
    BY <1>1, <1>3, <1>7 DEF CvDays, Past, Days, Closed
  <2> QED BY <2>1, <2>2
<1>16. CvWhole'
  BY <1>1, <1>3, <1>6, <1>8, <1>11, <1>12 DEF CvInv, CvWhole
<1>17. CvHealthy'
  <2> SUFFICES ASSUME faults' = 0
               PROVE  CvHealthy'
    BY DEF CvHealthy
  <2>1. /\ faults = 0 /\ Waiting \cap Archived = {} /\ Waiting \cap Left = {} /\ Waiting \cap slim = {}
        /\ bytes = 2 * Len(pending) /\ bytes <= PendingMaxBytes
    BY <1>13 DEF CvInv, CvHealthy
  <2>2. DaysApart'
    BY <1>4, <1>7 DEF DaysApart, Apart, Days
  <2>3. ~file'.broken
    BY <1>1 DEF Closed
  <2>4. CASE pending' = <<>>
    <3>1. CostOf(pending) = 2 * Len(pending) /\ Len(pending) \in Nat
      BY <1>4, <1>6, <2>1, CostFacts
    <3>2. bytes' = 0
      <4>1. CASE bytes' = IF bytes > CostOf(pending) THEN bytes - CostOf(pending) ELSE 0
        BY <1>3, <2>1, <3>1, <4>1
      <4>2. CASE UNCHANGED <<pending, bytes>>
        BY <1>4, <2>1, <2>4, <4>2
      <4> QED BY <1>2, <4>1, <4>2
    <3>3. Waiting' = {}
      BY <1>4, <1>6, <2>4
    <3> QED BY <1>4, <1>8, <2>2, <2>3, <2>4, <3>2, <3>3, ConversationAssumption
            DEF CvHealthy, ConversationAssumption
  <2>5. CASE pending' # <<>>
    <3>1. UNCHANGED <<pending, bytes, slim>>
      <4>1. faults # faults + 1
        BY <1>3
      <4> QED BY <1>2, <2>1, <2>5, <4>1
    <3>2. Waiting' = Waiting /\ Left' = Left \cup Archived
      BY <1>6, <1>11, <1>12, <2>5, <3>1
    <3> QED BY <1>8, <2>1, <2>2, <2>3, <3>1, <3>2 DEF CvHealthy
  <2> QED BY <2>4, <2>5
<1>18. CvFlushed'
  BY <1>1, <1>13 DEF CvInv, CvFlushed
<1> QED BY <1>14, <1>15, <1>16, <1>17, <1>18 DEF CvInv

LEMMA ConversationHookEndsKeeps ==
  ASSUME CvInv, LcInv, ConversationHookEnds
  PROVE  CvInv'
<1>1. /\ UNCHANGED <<day, pending, bytes, slim, inflight, plain, gz, file, curDay, compactDay>>
      /\ UNCHANGED <<archivist, source, stopped, closer, hookDone, jammed, denied, faults, gone>>
      /\ UNCHANGED <<watched, handler, late>>
      /\ hook' = hook + 1 /\ hook \in Nat /\ (hookDone \/ watched # "conversations")
  BY DEF ConversationHookEnds, Ends, cvVars, LcInv
<1>2. CvTyped' /\ CvPhases' /\ CvDays'
  BY <1>1 DEF CvInv, CvTyped, CvPhases, CvDays, Past, Days
<1>3. CvWhole' /\ CvHealthy'
  BY <1>1, ConversationsKeep DEF CvInv, CvWhole, CvHealthy, Apart
<1>4. CvFlushed'
  BY <1>1, HookIndices DEF CvInv, CvFlushed
<1> QED BY <1>2, <1>3, <1>4 DEF CvInv

ConversationStep ==
    \/ Midnight
    \/ \E h \in Handlers : Capture(h)
    \/ TakeBatch \/ BatchWritten \/ BatchFails \/ OpenFails \/ Housekeep \/ Publish
    \/ RemoveSource \/ Cleanup
    \/ WriterEnds \/ HookStopsWriter \/ PanelStopsWriter \/ CloserGivesUp \/ HookFlushes
    \/ PanelClears \/ ConversationHookEnds

\* No action of the archive disturbs its invariant ...
LEMMA ConversationStepKeeps ==
  ASSUME CvInv, LcInv, ConversationStep
  PROVE  CvInv'
BY MidnightKeeps, CaptureKeeps, TakeBatchKeeps, BatchWrittenKeeps, BatchFailsKeeps, OpenFailsKeeps,
   HousekeepKeeps,
   PublishKeeps, RemoveSourceKeeps, CleanupKeeps, WriterEndsKeeps, ClosersKeep, CloserGivesUpKeeps,
   HookFlushesKeeps, PanelClearsKeeps, ConversationHookEndsKeeps DEF ConversationStep

\* ... or the other writers.
LEMMA ConversationsMove ==
  ASSUME CvInv, LcInv, ConversationStep
  PROVE  /\ LcInv'
         /\ Elsewhere("errors", "error_log") /\ Elsewhere("stats", "client_stats")
<1> USE HookIndices DEF LcInv, Elsewhere, Forward, Passes, Minds, Done
<1>1. ASSUME NEW h \in Handlers, Capture(h)
      PROVE  /\ LcInv'
             /\ Elsewhere("errors", "error_log") /\ Elsewhere("stats", "client_stats")
  <2>1. /\ UNCHANGED <<watched, panel, hook, late, cancelled, run>>
        /\ handler[h] = "serving" /\ handler' = [handler EXCEPT ![h] = "ended"]
        /\ watched = "conversations"
    BY <1>1 DEF Capture
  <2> QED BY <2>1
<1>2. CASE Midnight \/ TakeBatch \/ BatchWritten \/ BatchFails \/ Housekeep \/ Publish
  <2>1. UNCHANGED <<watched, handler, panel, hook, late, cancelled, run>>
    BY <1>2 DEF Midnight, TakeBatch, BatchWritten, BatchFails, Housekeep, Publish, lcVars
  <2> QED BY <2>1
<1>3. CASE OpenFails \/ RemoveSource \/ Cleanup \/ WriterEnds \/ HookFlushes
  <2>1. UNCHANGED <<watched, handler, panel, hook, late, cancelled, run>>
    BY <1>3 DEF OpenFails, RemoveSource, Cleanup, WriterEnds, HookFlushes, lcVars
  <2> QED BY <2>1
<1>4. CASE HookStopsWriter
  <2>1. UNCHANGED <<watched, handler, panel, hook, late, cancelled, run>>
    BY <1>4 DEF HookStopsWriter, StopWriter
  <2> QED BY <2>1
<1>5. CASE PanelStopsWriter
  <2>1. /\ UNCHANGED <<watched, handler, hook, late, cancelled, run>>
        /\ hook = 0 /\ watched = "conversations"
    BY <1>5 DEF PanelStopsWriter, StopWriter
  <2> QED BY <2>1
<1>6. CASE CloserGivesUp
  <2>1. /\ UNCHANGED <<watched, handler, hook, cancelled, run>> /\ late \subseteq late'
        /\ panel' = panel \/ panel' = FALSE
    BY <1>6 DEF CloserGivesUp
  <2>2. watched = "conversations"
    BY <1>6 DEF CloserGivesUp, CvInv, CvPhases
  <2> QED BY <2>1, <2>2
<1>7. CASE PanelClears
  <2>1. /\ UNCHANGED <<watched, handler, hook, late, cancelled, run>> /\ panel' = FALSE
        /\ watched = "conversations"
    BY <1>7 DEF PanelClears, CvInv, CvPhases
  <2> QED BY <2>1
<1>8. CASE ConversationHookEnds
  BY <1>8 DEF ConversationHookEnds, Ends, AtWork
<1> QED BY <1>1, <1>2, <1>3, <1>4, <1>5, <1>6, <1>7, <1>8 DEF ConversationStep

\* What the invariant says of the records.
LEMMA RecordsKnown ==
  ASSUME CvInv
  PROVE  RecordsAccounted
<1> DEFINE InPlain(h) == {d \in Days : h \in ToSet(plain[d])}
           InGz(h) == {d \in Days : h \in ToSet(gz[d])}
           copies(h) == Cardinality(InPlain(h)) + Cardinality(InGz(h))
<1>1. ASSUME faults = 0, NEW h \in Archived
      PROVE  copies(h) = 1 \/ (copies(h) = 2 /\ archivist = "published")
  <2>1. DaysApart
    BY <1>1 DEF CvInv, CvHealthy
  <2>2. \A d, e \in InPlain(h) : d = e
    BY <2>1 DEF DaysApart, Apart
  <2>3. \A d, e \in InGz(h) : d = e
    BY <2>1 DEF DaysApart, Apart
  <2>4. \A d \in InPlain(h) : \A e \in InGz(h) : d = e
    BY <2>1 DEF DaysApart, Apart
  <2>5. InPlain(h) # {} \/ InGz(h) # {}
    BY <1>1, ArchivedFacts
  <2>6. InPlain(h) # {} /\ InGz(h) # {} => archivist = "published"
    <3> SUFFICES ASSUME NEW d \in InPlain(h), NEW e \in InGz(h)
                 PROVE  archivist = "published"
      OBVIOUS
    <3>1. d \in Days /\ h \in ToSet(plain[d]) /\ h \in ToSet(gz[d])
      BY <2>4
    <3>2. plain[d] # <<>> /\ gz[d] # <<>>
      BY <3>1, ListFacts
    <3> QED BY <3>1, <3>2 DEF CvInv, CvDays
  <2>7. ASSUME NEW S, \A d, e \in S : d = e
        PROVE  Cardinality(S) = IF S = {} THEN 0 ELSE 1
    <3>1. CASE S = {}
      BY <3>1, FS_EmptySet
    <3>2. CASE S # {}
      <4>1. PICK d \in S : S = {d}
        BY <2>7, <3>2
      <4> QED BY <4>1, FS_Singleton
    <3> QED BY <3>1, <3>2
  <2>8. Cardinality(InPlain(h)) = IF InPlain(h) = {} THEN 0 ELSE 1
    <3> HIDE DEF InPlain
    <3> QED BY <2>2, <2>7
  <2>9. Cardinality(InGz(h)) = IF InGz(h) = {} THEN 0 ELSE 1
    <3> HIDE DEF InGz
    <3> QED BY <2>3, <2>7
  <2> HIDE DEF InPlain, InGz
  <2> QED BY <2>5, <2>6, <2>8, <2>9
<1>2. watched = "conversations" => Ended = Waiting \cup Archived \cup Left
  BY DEF CvInv, CvWhole
<1>3. ToSet(pending) \cap ToSet(inflight.records) = {}
  BY DEF CvInv, CvWhole, Apart
<1>4. faults = 0 => Waiting \cap (Archived \cup Left) = {} /\ Archived \cap Left = {}
  BY DEF CvInv, CvHealthy
<1>5. faults = 0 => \A h \in Archived : copies(h) = 1 \/ (copies(h) = 2 /\ archivist = "published")
  BY <1>1
<1> HIDE DEF copies
<1>6. RecordsAccounted =
        (watched = "conversations" =>
            /\ Ended = Waiting \cup Archived \cup Left
            /\ ToSet(pending) \cap ToSet(inflight.records) = {}
            /\ faults = 0 =>
                  /\ Waiting \cap (Archived \cup Left) = {} /\ Archived \cap Left = {}
                  /\ \A h \in Archived : copies(h) = 1 \/ (copies(h) = 2 /\ archivist = "published"))
  BY DEF RecordsAccounted, Ended, Waiting, Left, copies
<1> QED BY <1>2, <1>3, <1>4, <1>5, <1>6

LEMMA BudgetIsHeld ==
  ASSUME CvInv
  PROVE  BudgetHeld
<1> SUFFICES ASSUME faults = 0
             PROVE  bytes = CostOf(pending) /\ bytes <= PendingMaxBytes
  BY DEF BudgetHeld
<1>1. pending \in Seq(Handlers) /\ ToSet(pending) \cap slim = {}
  BY ListIndices DEF CvInv, CvTyped, CvHealthy, Waiting
<1>2. CostOf(pending) = 2 * Len(pending)
  BY <1>1, CostFacts
<1> QED BY <1>2 DEF CvInv, CvHealthy

LEMMA ConversationsAreSaved ==
  ASSUME CvInv, LcInv
  PROVE  ConversationsSaved
<1> SUFFICES ASSUME Exited, late = {}, faults = 0, ~denied, ~jammed
             PROVE  pending = <<>> /\ inflight = NoBatch
  BY DEF ConversationsSaved
<1>1. hook > IndexOf("conversations")
  BY HookIndices DEF Exited, Up, LcInv
<1>2. hookDone \/ watched # "conversations"
  BY <1>1 DEF CvInv, CvFlushed
<1>3. archivist # "io" /\ pending = <<>>
  BY <1>2 DEF CvInv, CvFlushed, CvPhases
<1> QED BY <1>3 DEF CvInv, CvPhases

-----------------------------------------------------------------------------
(* The writers together.  A step of one is a step elsewhere for the others.  *)

WInv == LcInv /\ ErInv /\ CvInv /\ CsInv

LEMMA LifecycleStarts ==
  ASSUME LcInit
  PROVE  LcInv
BY HookIndices DEF LcInit, LcInv

LEMMA ErrorLogStarts ==
  ASSUME LcInit, ElInit
  PROVE  ErInv
<1>1. <<>> \in Lists(Handlers) /\ ToSet(<<>>) = {} /\ DOMAIN <<>> = {} /\ Len(<<>>) = 0
  BY ListFacts
<1>2. <<>> \in Seq(Lists(Handlers))
  OBVIOUS
<1>3. /\ born = <<>> /\ queues = <<>> /\ writer = "none" /\ stopping = FALSE /\ batch = <<>>
      /\ sender = [h \in Handlers |-> 0] /\ flush = "off" /\ target = 0 /\ rest = <<>>
      /\ rows = <<>> /\ stored = {} /\ failed = {} /\ dropped = {} /\ sweep = Quiet
      /\ handler = [h \in Handlers |-> "new"] /\ hook = 0 /\ late = {}
  BY DEF ElInit, LcInit
<1>4. Queued = {} /\ Sent = {}
  BY <1>1, <1>3 DEF Queued, Sent
<1>5. ErTyped /\ ErSenders /\ ErPhases
  <2>1. ErTyped
    BY <1>1, <1>2, <1>3 DEF ErTyped
  <2>2. ErSenders /\ ErPhases
    BY <1>1, <1>3 DEF ErSenders, ErPhases
  <2> QED BY <2>1, <2>2
<1>6. ErPlaces
  BY <1>1, <1>3, <1>4 DEF ErPlaces, Shares
<1>7. ErRows
  <2>1. IsInjective(<<>>) /\ Range(<<>>) = {}
    BY <1>1 DEF IsInjective, Range
  <2> QED BY <1>1, <1>3, <2>1 DEF ErRows, RowsFit
<1>8. ErFlushed /\ ErSweep
  <2>1. ErFlushed
    BY <1>1, <1>3, HookIndices DEF ErFlushed
  <2>2. ErSweep
    BY <1>3 DEF ErSweep, Quiet
  <2> QED BY <2>1, <2>2
<1> QED BY <1>5, <1>6, <1>7, <1>8 DEF ErInv

LEMMA ConversationsStart ==
  ASSUME LcInit, CvInit
  PROVE  CvInv
<1>1. <<>> \in Lists(Handlers) /\ ToSet(<<>>) = {} /\ Len(<<>>) = 0 /\ <<>> \in Seq(Handlers)
  BY ListFacts
<1>2. /\ day = 1 /\ pending = <<>> /\ bytes = 0 /\ slim = {} /\ inflight = NoBatch
      /\ plain = [d \in Days |-> <<>>] /\ gz = [d \in Days |-> <<>>]
      /\ file = Closed /\ curDay = 0 /\ compactDay = 0
      /\ archivist = "idle" /\ source = 0 /\ stopped = FALSE
      /\ closer = "none" /\ hookDone = FALSE /\ jammed = FALSE /\ denied = FALSE
      /\ faults = 0
      /\ gone = [r \in Reasons |-> {}]
      /\ handler = [h \in Handlers |-> "new"] /\ hook = 0 /\ late = {}
  BY DEF CvInit, LcInit
<1>3. /\ MaxDay \in Nat \ {0} /\ PendingMaxBytes \in Nat
      /\ \A d \in Days : plain[d] = <<>> /\ gz[d] = <<>>
  BY <1>2, ConversationAssumption DEF ConversationAssumption
<1>4. Archived = {} /\ Left = {} /\ Waiting = {} /\ Ended = {}
  <2>1. Archived = {}
    BY <1>1, <1>3 DEF Archived
  <2>2. Left = {} /\ Waiting = {} /\ Ended = {}
    BY <1>1, <1>2 DEF Left, Waiting, Ended, NoBatch
  <2> QED BY <2>1, <2>2
<1>5. CvTyped
  <2>1. inflight \in [records : Lists(Handlers), held : Int]
    BY <1>1, <1>2 DEF NoBatch
  <2>2. file \in [open : BOOLEAN, unlinked : BOOLEAN, broken : BOOLEAN]
    BY <1>2 DEF Closed
  <2>3. day \in Days /\ curDay \in 0 .. day
    BY <1>2, <1>3 DEF Days
  <2>4. gone \in [Reasons -> SUBSET Handlers]
    BY <1>2
  <2>5. plain \in [Days -> Seq(Handlers)] /\ gz \in [Days -> Seq(Handlers)]
    BY <1>1, <1>2
  <2> QED BY <1>1, <1>2, <2>1, <2>2, <2>3, <2>4, <2>5 DEF CvTyped
<1>6. CvPhases /\ CvFlushed
  BY <1>2, HookIndices DEF CvPhases, CvFlushed, Closed
<1>7. CvDays
  BY <1>2, <1>3 DEF CvDays, Past, Closed
<1>8. CvWhole
  BY <1>1, <1>2, <1>4 DEF CvWhole, Apart
<1>9. CvHealthy
  BY <1>1, <1>2, <1>3, <1>4 DEF CvHealthy, DaysApart, Apart, Closed
<1> QED BY <1>5, <1>6, <1>7, <1>8, <1>9 DEF CvInv

LEMMA StatsStart ==
  ASSUME LcInit, CsInit
  PROVE  CsInv
<1>1. <<>> \in Lists(Addresses) /\ ToSet(<<>>) = {}
  BY ListFacts
<1>2. /\ counts = Nothing /\ recent = <<>> /\ totals = Nothing
      /\ snapshot = [f \in Flushers |-> None] /\ wroteHook = FALSE /\ loaded = None
      /\ forgotten = {} /\ hook = 0
  BY DEF CsInit, LcInit
<1>3. Nothing \in [Addresses -> Nat] /\ \A a \in Addresses : Nothing[a] = 0
  BY DEF Nothing
<1>4. \A f \in Flushers : snapshot[f] = None
  BY <1>2
<1>5. snapshot \in [Flushers -> {None} \cup [Addresses -> Nat]]
  BY <1>2
<1>6. CsTyped
  BY <1>1, <1>2, <1>3, <1>5 DEF CsTyped
<1>7. CsAhead
  <2>1. Below(totals, counts)
    BY <1>2, <1>3 DEF Below
  <2> QED BY <1>4, <2>1 DEF CsAhead, Flushers
<1>8. CsFlushed
  BY <1>2, <1>4, HookIndices DEF CsFlushed, Flushers
<1> QED BY <1>6, <1>7, <1>8 DEF CsInv

LEMMA Starts ==
  ASSUME Init
  PROVE  WInv
BY LifecycleStarts, ErrorLogStarts, ConversationsStart, StatsStart DEF Init, WInv

LEMMA Steps ==
  ASSUME Next
  PROVE  \/ LifecycleStep /\ UNCHANGED <<elVars, cvVars, csVars>>
         \/ ErrorLogStep /\ UNCHANGED <<cvVars, csVars>>
         \/ ConversationStep /\ UNCHANGED <<elVars, csVars>>
         \/ StatsStep /\ UNCHANGED <<elVars, cvVars>>
BY DEF Next, LifecycleStep, ErrorLogStep, RowsDeleted, ConversationStep, StatsStep

\* A step that changes nothing is a step elsewhere for everyone.
LEMMA Stutters ==
  ASSUME WInv, UNCHANGED vars
  PROVE  WInv'
<1>1. UNCHANGED lcVars /\ UNCHANGED elVars /\ UNCHANGED cvVars /\ UNCHANGED csVars
  BY DEF vars
<1>2. UNCHANGED <<watched, handler, panel, hook, late, cancelled, run>>
  BY <1>1 DEF lcVars
<1>3. LcInv'
  BY <1>2 DEF WInv, LcInv, Done
<1>4. /\ Elsewhere("errors", "error_log") /\ Elsewhere("conversations", "conversations")
      /\ Elsewhere("stats", "client_stats")
  BY <1>2 DEF WInv, LcInv, Elsewhere, Forward, Passes, Minds
<1>5. handler' \in [Handlers -> {"new", "serving", "sending", "ended"}]
  BY <1>3 DEF LcInv
<1>6. ErInv'
  BY <1>1, <1>4, <1>5, ErrorsElsewhere DEF WInv
<1> QED BY <1>1, <1>3, <1>4, <1>6, ConversationsElsewhere, StatsElsewhere DEF WInv

LEMMA WritersKeep ==
  ASSUME WInv, [Next]_vars
  PROVE  WInv'
<1>1. CASE UNCHANGED vars
  BY <1>1, Stutters
<1>2. CASE LifecycleStep /\ UNCHANGED <<elVars, cvVars, csVars>>
  <2>1. /\ LcInv' /\ Elsewhere("errors", "error_log")
        /\ Elsewhere("conversations", "conversations") /\ Elsewhere("stats", "client_stats")
    BY <1>2, LifecycleMoves DEF WInv, Writers
  <2>2. ErInv'
    BY <1>2, <2>1, ErrorsElsewhere DEF WInv, LcInv
  <2> QED BY <1>2, <2>1, <2>2, ConversationsElsewhere, StatsElsewhere DEF WInv
<1>3. CASE ErrorLogStep /\ UNCHANGED <<cvVars, csVars>>
  BY <1>3, ErrorLogKeeps, ErrorLogMoves, ConversationsElsewhere, StatsElsewhere DEF WInv
<1>4. CASE ConversationStep /\ UNCHANGED <<elVars, csVars>>
  <2>1. LcInv' /\ Elsewhere("errors", "error_log") /\ Elsewhere("stats", "client_stats")
    BY <1>4, ConversationsMove DEF WInv
  <2>2. ErInv'
    BY <1>4, <2>1, ErrorsElsewhere DEF WInv, LcInv
  <2> QED BY <1>4, <2>1, <2>2, ConversationStepKeeps, StatsElsewhere DEF WInv
<1>5. CASE StatsStep /\ UNCHANGED <<elVars, cvVars>>
  <2>1. LcInv' /\ Elsewhere("errors", "error_log") /\ Elsewhere("conversations", "conversations")
    BY <1>5, StatsMove DEF WInv
  <2>2. ErInv'
    BY <1>5, <2>1, ErrorsElsewhere DEF WInv, LcInv
  <2> QED BY <1>5, <2>1, <2>2, StatsKeep, ConversationsElsewhere DEF WInv
<1> QED BY <1>1, <1>2, <1>3, <1>4, <1>5, Steps

\* However many requests, queues, batches, days and hooks there are: in every state what is known
\* of the process, of the error log, of the archive and of the statistics holds together.
THEOREM WritersInvariant ==
  Spec => []WInv
<1>1. Init => WInv
  BY Starts
<1>2. WInv /\ [Next]_vars => WInv'
  BY WritersKeep
<1> QED BY <1>1, <1>2, PTL DEF Spec

\* A process that exits after all its hooks ended in time has nothing left in memory: every entry
\* is stored or counted as failed or dropped, no record is on the list or in the batch, and no count
\* is known to the cache only (cmd/start.go:86).  For the counts that excepts a hook whose write
\* failed; for the records a write that failed, a last flush without room on the disk or without a
\* file (op/conversation.go:275), and a hook that panicked: it closes a stop channel again that a
\* clear of the panel had closed before its context ended.
THEOREM QuietExitAlwaysSaves ==
  Spec => []QuietExitSavesAll
<1>1. WInv => QuietExitSavesAll
  BY EntriesSaved, ConversationsAreSaved, StatsAreSaved DEF WInv, QuietExitSavesAll
<1> QED BY <1>1, WritersInvariant, PTL

\* Every entry that a request has sent is at exactly one place: a queue, a batch, the entries the
\* flush drained, or counted as stored, failed or dropped; and no entry is in the table twice
\* (op/error_log.go:99).
THEOREM ErrorEntriesAlwaysAccounted ==
  Spec => []ErrorEntriesAccounted
<1>1. WInv => ErrorEntriesAccounted
  BY EntriesAccounted DEF WInv
<1> QED BY <1>1, WritersInvariant, PTL

\* Every captured record is on the list, in the batch, in an archive or among those that left: that
\* were discarded, evicted, refused, deleted with their archive or written to a deleted file.  As long
\* as no write fails it is at one of these places only, and in one archive but for the two steps of a
\* compaction (op/conversation.go:351).
THEOREM RecordsAlwaysAccounted ==
  Spec => []RecordsAccounted
<1>1. WInv => RecordsAccounted
  BY RecordsKnown DEF WInv
<1> QED BY <1>1, WritersInvariant, PTL

\* As long as no write fails the counter of the budget is the cost of the list, and below the
\* budget (op/conversation.go:351).
THEOREM BudgetAlwaysHeld ==
  Spec => []BudgetHeld
<1>1. WInv => BudgetHeld
  BY BudgetIsHeld DEF WInv
<1> QED BY <1>1, WritersInvariant, PTL

\* The total of a client that was not evicted never falls: the task and the hook write copies made
\* at different times without a lock, and the older copy is never written last
\* (op/client_stat.go:147).
THEOREM TotalsNeverEverFall ==
  Spec => TotalsNeverFall
<1>1. WInv /\ [Next]_vars
      => [\A a \in Addresses : totals'[a] >= totals[a] \/ a \in forgotten]_totals
  <2> SUFFICES ASSUME WInv, [Next]_vars, totals' # totals
               PROVE  \A a \in Addresses : totals'[a] >= totals[a] \/ a \in forgotten
    OBVIOUS
  <2>1. StatsStep
    BY Steps DEF vars, csVars
  <2> QED BY <2>1, StatsKeep DEF WInv
<1> QED BY <1>1, WritersInvariant, PTL DEF Spec, TotalsNeverFall

\* What the last statement of the sweep deletes is older than Keep entries that were stored,
\* whatever was inserted or deleted between its statements (op/error_log.go:640).
THEOREM SweepAlwaysKeepsNewest ==
  Spec => SweepKeepsNewest
<1>1. WInv => [SweepDeletes => \A e \in Range(rows) \ Range(rows') :
                 Cardinality({f \in stored : Age(f) > Age(e)}) >= Keep]_rows
  BY SweepSpares DEF WInv
<1> QED BY <1>1, WritersInvariant, PTL DEF SweepKeepsNewest
=============================================================================
