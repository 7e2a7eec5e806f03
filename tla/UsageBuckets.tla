----------------------------- MODULE UsageBuckets -----------------------------
(***************************************************************************)
(* The usage statistics of internal/op/usage_bucket.go: one row per hour   *)
(* and model, to which every request that ends adds its tokens and every   *)
(* failure adds one, and the queries from which the panel draws its        *)
(* figures, its trend, its list of models and its heat map.                *)
(*                                                                         *)
(* Time is counted in hours, as the rows are.  The clock is never read on  *)
(* the hour, so that a moment some days ago lies after the start of its    *)
(* hour.  Reasoning and cached tokens, cost and duration are added and     *)
(* summed like the tokens and are left out.                                *)
(***************************************************************************)
EXTENDS Integers, FiniteSetsExt, TLC

CONSTANTS
    Models,         \* upstream models
    Reports,        \* what a request may report: [input, output], each an integer
    Retentions,     \* the values the panel gives to usage_retention_days; 0 keeps all
    Hours,          \* the hours at which something happens
    MaxCounted      \* bound: the requests and failures in the table

ASSUME UsageAssumption ==
    /\ Reports \subseteq [input : Int, output : Int]
    /\ Retentions \subseteq Nat /\ MaxCounted \in Nat
    /\ IsFiniteSet(Hours) /\ Hours # {} /\ Hours \subseteq Nat

VARIABLES
    hour,       \* usageBucketNow, truncated
    buckets,    \* the table usage_buckets: <<hour, model>> to row
    retention   \* the setting usage_retention_days

ubVars == <<hour, buckets, retention>>

UbInit ==
    /\ hour = Min(Hours)
    /\ buckets = [k \in {} |-> 0]
    /\ retention = 0

Row(in, out, requests, errors) == [in |-> in, out |-> out, requests |-> requests, errors |-> errors]
RowsIn(from, to) == {k \in DOMAIN buckets : k[1] \in from..to}

InputOf(keys) == MapThenSumSet(LAMBDA k : buckets[k].in, keys)
OutputOf(keys) == MapThenSumSet(LAMBDA k : buckets[k].out, keys)
RequestsOf(keys) == MapThenSumSet(LAMBDA k : buckets[k].requests, keys)
ErrorsOf(keys) == MapThenSumSet(LAMBDA k : buckets[k].errors, keys)

-----------------------------------------------------------------------------
(* What is recorded. *)

\* INSERT ... ON CONFLICT DO UPDATE: the row is added to, never replaced.
Upsert(model, row) ==
    LET k == <<hour, model>>
        old == IF k \in DOMAIN buckets THEN buckets[k] ELSE Row(0, 0, 0, 0)
    IN  buckets' = k :> [f \in DOMAIN row |-> old[f] + row[f]] @@ buckets

Full == RequestsOf(DOMAIN buckets) + ErrorsOf(DOMAIN buckets) >= MaxCounted

\* A report of nothing is skipped, a negative number counts as none.
RecordUsageBucket(model, report) ==
    /\ ~Full
    /\ report.input > 0 \/ report.output > 0
    /\ Upsert(model, Row(Max({report.input, 0}), Max({report.output, 0}), 1, 0))
    /\ UNCHANGED <<hour, retention>>

RecordErrorBucket(model) ==
    /\ ~Full
    /\ Upsert(model, Row(0, 0, 0, 1))
    /\ UNCHANGED <<hour, retention>>

\* Rows of hours before the same time some days ago.
Expired(days) == {k \in DOMAIN buckets : days > 0 /\ k[1] <= hour - 24 * days}

UsageBucketCleanExpired ==
    /\ Expired(retention) # {}
    /\ buckets' = [k \in DOMAIN buckets \ Expired(retention) |-> buckets[k]]
    /\ UNCHANGED <<hour, retention>>

SetRetention ==
    /\ retention' \in Retentions
    /\ UNCHANGED <<hour, buckets>>

HourPasses ==
    /\ hour' \in {h \in Hours : h > hour}
    /\ UNCHANGED <<buckets, retention>>

UbNext ==
    \/ \E m \in Models, r \in Reports : RecordUsageBucket(m, r)
    \/ \E m \in Models : RecordErrorBucket(m)
    \/ UsageBucketCleanExpired
    \/ SetRetention
    \/ HourPasses

-----------------------------------------------------------------------------
(* What is read. *)

UsageWindow(days, step, count) == [span |-> 24 * days, step |-> step, count |-> count]

Ranges == "24h" :> UsageWindow(1, 1, 24) @@ "7d" :> UsageWindow(7, 6, 28) @@ "30d" :> UsageWindow(30, 24, 30)

\* Mutated: long ranges have a point for each whole step and none for the rest.
UsageWindowsOfWholeSteps ==
    Ranges @@ "1y" :> UsageWindow(365, 7 * 24, 52) @@ "3y" :> UsageWindow(3 * 365, 30 * 24, 36)
           @@ "forever" :> UsageWindow(10 * 365, 30 * 24, 121)

UsageWindows ==
    Ranges @@ "1y" :> UsageWindow(365, 7 * 24, 53) @@ "3y" :> UsageWindow(3 * 365, 30 * 24, 37)
           @@ "forever" :> UsageWindow(10 * 365, 30 * 24, 121)

\* A row of the window whose point lies behind the last one is dropped.
UsageTrendPoints(range) ==
    LET w == UsageWindows[range]
        start == hour - w.span + 1
        At(i) == {k \in RowsIn(start, hour) : (k[1] - start) \div w.step = i}
    IN  [i \in 0..(w.count - 1) |-> [in |-> InputOf(At(i)), out |-> OutputOf(At(i))]]

Kept == DOMAIN buckets \ Expired(retention)

\* The rows of a figure: the window of the range, or all that the retention keeps.
Counted(range) ==
    IF range = "forever" THEN Kept ELSE RowsIn(hour - UsageWindows[range].span, hour)

UsageKPIsByRange(range) ==
    LET keys == Counted(range) IN [in |-> InputOf(keys), out |-> OutputOf(keys), requests |-> RequestsOf(keys)]

\* What the panel opens with: the tokens of all time.
UsageTotals == [in |-> InputOf(Kept), out |-> OutputOf(Kept)]

UsageErrorCountByRange(range) == ErrorsOf(Counted(range))

\* Every model has its line; the list is cut after ten, which the bounds do not reach.
UsageTotalsByModelRange(range) ==
    [m \in {k[2] : k \in Counted(range)} |->
        LET keys == {k \in Counted(range) : k[2] = m} IN [in |-> InputOf(keys), out |-> OutputOf(keys)]]

\* A point per calendar day, from 7 to 730 of them.
UsageHeatmapData(wanted) ==
    LET days == Max({7, Min({wanted, 730})})
        first == hour \div 24 - (days - 1)
        On(d) == RowsIn(24 * d, 24 * d + 23)
    IN  [d \in first..(hour \div 24) |-> [tokens |-> InputOf(On(d)) + OutputOf(On(d)), count |-> RequestsOf(On(d))]]

-----------------------------------------------------------------------------
(* Properties. *)

\* What the points of a graph, or the lines of a list, add up to.
Total(points, field) ==
    MapThenSumSet(LAMBDA x : points[x][field], {x \in DOMAIN points : points[x][field] # 0})

\* The trend shows each row of its window once, the hour that has just begun included, and
\* differs from the figure of the same range by the hour before the window only; the lines
\* of the models and the days of the map add up to the same figures.  Excepted is the trend
\* of "forever", whose last point ends before the present (usage_bucket.go:102).
UsageAddsUp ==
    /\ \A range \in DOMAIN UsageWindows \ {"forever"} :
          LET points == UsageTrendPoints(range)
              figure == UsageKPIsByRange(range)
              lines == UsageTotalsByModelRange(range)
              before == RowsIn(hour - UsageWindows[range].span, hour - UsageWindows[range].span)
          IN  /\ Total(points, "in") = figure.in - InputOf(before)
              /\ Total(points, "out") = figure.out - OutputOf(before)
              /\ Total(lines, "in") = figure.in
    /\ LET map == UsageHeatmapData(365)
           year == RowsIn(24 * Min(DOMAIN map), hour)
       IN  Total(map, "tokens") = InputOf(year) + OutputOf(year)

\* A clean-up deletes nothing that the figures of all time still count, however the setting
\* was changed in between (usage_bucket.go:386).
CleaningUnseen ==
    [][DOMAIN buckets \subseteq DOMAIN buckets'
        \/ /\ UsageTotals' = UsageTotals
           /\ UsageErrorCountByRange("forever")' = UsageErrorCountByRange("forever")]_ubVars
=============================================================================
