------------------------------- MODULE Reports -------------------------------
(***************************************************************************)
(* The reports on the time of one vehicle: MovementTimeService builds its  *)
(* timeline (dwells inside units, transits between them) out of the        *)
(* confirmed movements, ReportsService loads them, keeps the baselines of  *)
(* routes in a cache, and derives every report from the timeline.          *)
(* Instants count half minutes; names, CSV and ISO strings are left out.   *)
(***************************************************************************)
EXTENDS Pairing, Integers, SequencesExt, FiniteSetsExt

CONSTANTS
    Units,            \* the administrative units the vehicle visits
    Now,              \* the instant at which reports are asked for
    MaxPassages,      \* bound: movements of the vehicle
    MaxSteps,         \* bound: movements and reports
    Requests,         \* the reports asked for: period and unit, None when not sent,
                      \* and the journey of the company at that moment
    Offset,           \* the time zone
    DayLength,        \* half minutes in a day
    DefaultRange, Lookback, BaselineWindow, BaselineCache, OpenDwellAlert,
    MinSamples,       \* CONFIDENCE_MIN_SAMPLES
    P95,              \* the upper percentile, in hundredths
    None

ASSUME ReportsAssumption ==
    /\ {Now, MaxPassages, DefaultRange, Lookback} \subseteq Nat
    /\ \A r \in Requests : {r.from, r.to} \subseteq Int \cup {None}
    /\ None \notin Int /\ None # "missing_exit"

VARIABLES
    passages,  \* the movements that the query selects: confirmed, of an own vehicle
    cache,     \* baselineCache of the company, None until it is filled
    asked,     \* the number of reports asked for
    report     \* the last answer, until the table changes

reportVars == <<passages, cache, asked, report>>

Passage == [id: 1 .. MaxPassages, type: {"entry", "exit"}, time: 0 .. Now, unit: Units]

-----------------------------------------------------------------------------
(* journey-window.ts                                                       *)

ParseHHMM(value) == IF value \in Nat THEN value ELSE 0

ToJourneyWindow(config) ==
    LET days == config.days \cap (1 .. 7)
    IN [start    |-> ParseHHMM(config.start),
        end      |-> IF config.end = None THEN DayLength \div 2 - 1 ELSE ParseHHMM(config.end),
        weekdays |-> IF days = {} THEN 1 .. 7 ELSE days]

LocalParts(t) ==
    LET local == t + Offset
    IN [weekday |-> ((local \div DayLength) % 7) + 1,
        minutes |-> (local % DayLength) \div 2,
        day     |-> local \div DayLength]

\* A journey may cross midnight.
IsWithin(t, window) ==
    LET local == LocalParts(t)
    IN /\ local.weekday \in window.weekdays
       /\ IF window.start <= window.end
          THEN window.start <= local.minutes /\ local.minutes <= window.end
          ELSE window.start <= local.minutes \/ local.minutes <= window.end

IntervalWithin(from, to, window) ==
    /\ IsWithin(from, window) /\ IsWithin(to, window)
    /\ LocalParts(from).day = LocalParts(to).day

-----------------------------------------------------------------------------
(* movement-time.service.ts                                                *)

\* compareMovements: the n-th movement is the one with n - 1 before it.
\* (TLC computes a concatenation once, a function at each application.)
Sorted(movements) ==
    <<>> \o [n \in 1 .. Cardinality(movements) |->
                CHOOSE m \in movements : Cardinality({x \in movements : Before(x, m)}) = n - 1]

DiffMinutes(from, to) == Max({0, (to - from + 1) \div 2})

\* The average of n values, rounded half up.
Rounded(total, n) == (2 * total + n) \div (2 * n)

MakeDwell(entry, exit, window) ==
    [kind |-> "dwell", unit |-> entry.unit, start |-> entry.time,
     first |-> entry.id, last |-> exit.id,
     minutes |-> DiffMinutes(entry.time, exit.time), ongoing |-> FALSE,
     inJourneyWindow |-> IntervalWithin(entry.time, exit.time, window), anomaly |-> None]

MakeOpenDwell(entry, window) ==
    [kind |-> "dwell", unit |-> entry.unit, start |-> entry.time,
     first |-> entry.id, last |-> None,
     minutes |-> DiffMinutes(entry.time, Now), ongoing |-> TRUE,
     inJourneyWindow |-> IsWithin(entry.time, window), anomaly |-> None]

\* Mutant: an exit takes the first entry that waits.
CloseOldest(unit, walk, event) ==
    IF event.unit # unit THEN walk
    ELSE IF event.type = "entry" THEN [walk EXCEPT !.open = Append(@, event)]
    ELSE IF walk.open = <<>> THEN walk
    ELSE [open |-> Tail(walk.open), visits |-> walk.visits \cup {<<Head(walk.open), event>>}]

\* The events of one unit: entries wait on a stack, an exit takes the last one.
Close(unit, walk, event) ==
    IF event.unit # unit THEN walk
    ELSE IF event.type = "entry" THEN [walk EXCEPT !.open = Append(@, event)]
    ELSE IF walk.open = <<>> THEN walk
    ELSE [open |-> Front(walk.open), visits |-> walk.visits \cup {<<Last(walk.open), event>>}]

Walk(sorted, unit) ==
    FoldLeft(LAMBDA walk, event : Close(unit, walk, event), [open |-> <<>>, visits |-> {}], sorted)

Dwells(sorted, window) ==
    UNION {{MakeDwell(v[1], v[2], window) : v \in Walk(sorted, u).visits}
             \cup {MakeOpenDwell(e, window) : e \in ToSet(Walk(sorted, u).open)} : u \in Units}

MakeTransit(departed, arrived, window, baselines) ==
    LET minutes == DiffMinutes(departed.time, arrived.time)
        route == <<departed.unit, arrived.unit>>
        baseline == IF route \in DOMAIN baselines THEN baselines[route] ELSE None
        inside == IntervalWithin(departed.time, arrived.time, window)
    IN [kind |-> "transit", unit |-> departed.unit, destination |-> arrived.unit,
        start |-> departed.time, first |-> departed.id, last |-> arrived.id,
        minutes |-> minutes, ongoing |-> FALSE,
        inJourneyWindow |-> inside, overnight |-> ~inside, anomaly |-> None,
        baseline |-> baseline,
        deviation |-> IF baseline = None \/ baseline.avg = 0 THEN None
                      ELSE Rounded(100 * (minutes - baseline.avg), baseline.avg)]

MakeOpenTransit(departed, window) ==
    [kind |-> "transit", unit |-> departed.unit, destination |-> None,
     start |-> departed.time, first |-> departed.id, last |-> None,
     minutes |-> DiffMinutes(departed.time, Now), ongoing |-> TRUE,
     inJourneyWindow |-> IsWithin(departed.time, window), overnight |-> FALSE,
     anomaly |-> "missing_arrival", baseline |-> None, deviation |-> None]

\* An exit followed at once by an entry in another unit; the last exit is on its way.
Transits(sorted, window, baselines) ==
    {MakeTransit(sorted[i], sorted[i + 1], window, baselines) :
        i \in {i \in 1 .. Len(sorted) - 1 :
                  /\ sorted[i].type = "exit" /\ sorted[i + 1].type = "entry"
                  /\ sorted[i].unit # sorted[i + 1].unit}}
      \cup {MakeOpenTransit(sorted[i], window) :
                i \in {i \in 1 .. Len(sorted) : i = Len(sorted) /\ sorted[i].type = "exit"}}

\* Mutant: the movement that was created last.
LastCreated(sorted) == CHOOSE m \in ToSet(sorted) : \A x \in ToSet(sorted) : x.id <= m.id

LastEvent(sorted) == sorted[Len(sorted)]

ResolveCurrentState(last) ==
    [state |-> IF last.type = "entry" THEN "at_unit" ELSE "in_transit",
     unit |-> IF last.type = "entry" THEN last.unit ELSE None,
     since |-> last.time, minutes |-> DiffMinutes(last.time, Now)]

AnyOf(segments, kind) == {s \in segments : s.kind = kind}

Completed(segments, kind) == {s \in segments : s.kind = kind /\ ~s.ongoing}

SumMinutes(segments) == MapThenSumSet(LAMBDA s : s.minutes, segments)

Visible(segments, range) == {s \in segments : range.from <= s.start /\ s.start <= range.to}

\* buildTimelines, for the one vehicle: None when no movement was loaded.
BuildTimeline(movements, window, range, baselines) ==
    IF movements = {} THEN None ELSE
    LET sorted == Sorted(movements)
        last == LastEvent(sorted)
        Marked(s) == IF s.kind = "dwell" /\ s.ongoing /\ s.first # last.id
                     THEN [s EXCEPT !.anomaly = "missing_exit"] ELSE s
        segments == {Marked(s) : s \in Dwells(sorted, window) \cup Transits(sorted, window, baselines)}
        visible == Visible(segments, range)
    IN [segments |-> visible, current |-> ResolveCurrentState(last),
        totalDwell |-> SumMinutes(Completed(visible, "dwell")),
        totalTransit |-> SumMinutes(Completed(visible, "transit"))]

-----------------------------------------------------------------------------
(* reports.service.ts                                                      *)

LoadMovements(from, to, unit) ==
    {m \in passages : from <= m.time /\ m.time <= to /\ (unit # None => m.unit = unit)}

ResolveRange(r) ==
    LET to == IF r.to = None THEN Now ELSE r.to
    IN [from |-> IF r.from = None THEN to - DefaultRange ELSE r.from, to |-> to]

Percentile(values, hundredths) ==
    IF values = <<>> THEN 0
    ELSE values[Min({Len(values), (hundredths * Len(values)) \div 100 + 1})]

\* The minutes of a set of segments, in ascending order.
Minutes(segments) ==
    LET sorted == SetToSortSeq(segments, LAMBDA a, b : a.minutes < b.minutes)
    IN [i \in 1 .. Len(sorted) |-> sorted[i].minutes]

Stats(segments) ==
    LET values == Minutes({s \in segments : ~s.ongoing})
        n == Len(values)
    IN [visits |-> Cardinality(segments), completed |-> n,
        avg |-> IF n = 0 THEN 0 ELSE Rounded(FoldLeft(+, 0, values), n),
        median |-> Percentile(values, 50), p95 |-> Percentile(values, P95),
        least |-> IF n = 0 THEN 0 ELSE values[1], most |-> IF n = 0 THEN 0 ELSE values[n]]

Route(s) == <<s.unit, s.destination>>

\* The routes of the last 90 days before the reference; overnight transits are left out.
ComputeBaselines(reference, window) ==
    LET timeline == BuildTimeline(LoadMovements(reference - BaselineWindow, reference, None), window,
                                  [from |-> 0, to |-> reference], <<>>)
        samples == IF timeline = None THEN {}
                   ELSE {s \in Completed(timeline.segments, "transit") : s.inJourneyWindow}
    IN [route \in {Route(s) : s \in samples} |->
           LET stats == Stats({s \in samples : Route(s) = route})
           IN [avg |-> stats.avg, p95 |-> stats.p95, count |-> stats.completed]]

\* A report of the past takes the baselines of a later reference as they are.
Fresh(reference) == cache # None /\ reference - cache.at < BaselineCache

GetRouteBaselines(reference, window) ==
    IF Fresh(reference) THEN cache
    ELSE [at |-> reference, baselines |-> ComputeBaselines(reference, window)]

\* A vehicle at a unit is listed with its earliest visit without an exit,
\* which may be an older one, of another unit.
FleetStatus(timeline) ==
    LET going == {s \in timeline.segments : s.kind = "dwell" /\ s.ongoing}
        shown == {s \in going : \A t \in going : s.start <= t.start}
    IN [state |-> timeline.current.state, unit |-> timeline.current.unit,
        entries |-> IF timeline.current.state = "at_unit" THEN {s.first : s \in shown} ELSE {}]

AggregateUnits(dwell) == [u \in {s.unit : s \in dwell} |-> Stats({s \in dwell : s.unit = u})]

DwellReport(segments) ==
    LET dwell == AnyOf(segments, "dwell")
    IN [byVehicle |-> Stats(dwell), byUnit |-> AggregateUnits(dwell)]

TransitReport(segments) ==
    LET transit == AnyOf(segments, "transit")
    IN [r \in {Route(s) : s \in transit} |-> Stats({s \in transit : Route(s) = r})]

Pct(value, total) == IF total <= 0 THEN 0 ELSE Rounded(100 * value, total)

UtilizationReport(segments, range) ==
    LET rangeMinutes == DiffMinutes(range.from, range.to)
        dwell == SumMinutes(Completed(segments, "dwell"))
        transit == SumMinutes(Completed(segments, "transit"))
    IN [rangeMinutes |-> rangeMinutes, dwell |-> dwell, transit |-> transit,
        unaccounted |-> Max({0, rangeMinutes - dwell - transit}),
        dwellPct |-> Pct(dwell, rangeMinutes), transitPct |-> Pct(transit, rangeMinutes)]

AboveBaseline(s) ==
    /\ s.kind = "transit" /\ s.baseline # None
    /\ s.baseline.count >= MinSamples /\ s.minutes > s.baseline.p95

Exceptions(segments) ==
    [openTooLong |-> {s \in segments : s.kind = "dwell" /\ s.ongoing /\ s.minutes >= OpenDwellAlert},
     missingExit |-> {s \in segments : s.anomaly = "missing_exit"},
     missingArrival |-> {s \in segments : s.anomaly = "missing_arrival"},
     aboveBaseline |-> {s \in segments : AboveBaseline(s)},
     overnight |-> {s \in segments : s.kind = "transit" /\ s.overnight}]

\* Visible segments by start; the dwells were built first.
InOrder(s, t) == s.start < t.start \/ (s.start = t.start /\ s.kind = "dwell" /\ t.kind = "transit")

\* A segment gives its duration to its two movements, over what an earlier one gave.
Write(durations, s) ==
    LET row == [kind |-> s.kind, minutes |-> s.minutes, ongoing |-> s.ongoing, anomaly |-> s.anomaly]
        lastRow == [row EXCEPT !.anomaly = None]
    IN [m \in DOMAIN durations |-> IF m = s.last THEN lastRow
                                   ELSE IF m = s.first THEN row ELSE durations[m]]

ToBookRows(movements, segments) ==
    FoldLeft(Write,
             [m \in {x.id : x \in movements} |->
                 [kind |-> None, minutes |-> None, ongoing |-> FALSE, anomaly |-> None]],
             SetToSortSeq(segments, InOrder))

BookMinutes(rows, kind) ==
    MapThenSumSet(LAMBDA m : rows[m].minutes, {m \in DOMAIN rows : rows[m].kind = kind})

MovementBook(range, unit, segments) ==
    LET rows == ToBookRows(LoadMovements(range.from, range.to, unit), segments)
    IN [rows |-> rows, dwellMinutes |-> BookMinutes(rows, "dwell"),
        transitMinutes |-> BookMinutes(rows, "transit"),
        anomalies |-> Cardinality({m \in DOMAIN rows : rows[m].anomaly # None})]

-----------------------------------------------------------------------------
(* Requests.                                                               *)

\* Movements come in any order: reviews and manual movements are dated back,
\* so the ties of the report, which are broken by random ids, are broken in any way.
Confirm(m) ==
    /\ Cardinality(passages) + asked < MaxSteps
    /\ m.id = Cardinality(passages) + 1
    /\ passages' = passages \cup {m}
    /\ report' = None
    /\ UNCHANGED <<cache, asked>>

\* collectSegments and the report made of it.
Ask(r) ==
    /\ Cardinality(passages) + asked < MaxSteps
    /\ asked' = asked + 1
    /\ LET window == ToJourneyWindow(r.journey)
           range == ResolveRange(r)
           loaded == LoadMovements(range.from - Lookback, range.to, r.unit)
           timeline == BuildTimeline(loaded, window, range, cache'.baselines)
           segments == IF timeline = None THEN {} ELSE timeline.segments
       IN /\ cache' = GetRouteBaselines(range.to, window)
          /\ report' = [range |-> range, loaded |-> loaded, timeline |-> timeline,
                        fleet |-> IF timeline = None THEN None ELSE FleetStatus(timeline),
                        dwell |-> DwellReport(segments), transit |-> TransitReport(segments),
                        utilization |-> UtilizationReport(segments, range),
                        exceptions |-> Exceptions(segments),
                        book |-> MovementBook(range, r.unit, segments)]
    /\ UNCHANGED passages

ReportInit == passages = {} /\ cache = None /\ asked = 0 /\ report = None

ReportNext ==
    \/ \E m \in Passage : Confirm(m)
    \/ \E r \in Requests : Ask(r)

ReportSpec == ReportInit /\ [][ReportNext]_reportVars

-----------------------------------------------------------------------------
(* Properties.                                                             *)

Answered == report # None /\ report.timeline # None

\* The dwells of a report are the visits that reconcile counts, "mesma regra do
\* reconcile" (buildDwellSegments): among the movements loaded of a unit, the
\* visit of an entry in the period ends with the first exit up to which exits
\* outweigh entries, and goes on when there is none.  Here both break ties alike.
DwellsCountVisits ==
    Answered =>
        LET Group(e) == {m \in report.loaded : m.unit = e.unit}
            Ended(e) == IF EntryPaired(Group(e), e) THEN VisitEnd(Group(e), e).id ELSE None
        IN {<<s.first, s.last>> : s \in AnyOf(report.timeline.segments, "dwell")}
             = {<<e.id, Ended(e)>> : e \in {m \in Of(report.loaded, "entry") : report.range.from <= m.time}}

\* Movements of a vehicle that leaves each unit it entered before it enters another.
Alternating(s) ==
    \A i \in 1 .. Len(s) - 1 :
        s[i].type # s[i + 1].type /\ (s[i].type = "entry" => s[i].unit = s[i + 1].unit)

\* The use of a vehicle whose movements alternate never accounts for more than
\* the period, but for the half minute that rounding may add to each of its
\* segments: dwells and transits share no time, and nothing counts that reaches
\* out of the period (getUtilizationReport, buildSummary).
TimeAddsUp ==
    Answered /\ Alternating(Sorted(report.loaded)) =>
        LET u == report.utilization
            parts == {s \in report.timeline.segments : ~s.ongoing}
        IN 2 * (u.dwell + u.transit) <= Max({0, report.range.to - report.range.from}) + Cardinality(parts)

\* The state of the vehicle and its segments tell the same story: a vehicle is at
\* a unit exactly when one visit, begun by its last movement, goes on without
\* anomaly, and on its way exactly when a transit that left with it has not
\* arrived (resolveCurrentState looks at the last movement only, the segments
\* come from the stacks of all units).
CurrentStateExplained ==
    Answered =>
        LET current == report.timeline.current
            going == {s \in report.timeline.segments : s.ongoing /\ s.anomaly # "missing_exit"}
            seen == report.range.from <= current.since /\ current.since <= report.range.to
        IN /\ Cardinality(going) = (IF seen THEN 1 ELSE 0)
           /\ \A s \in going :
                 /\ s.start = current.since
                 /\ (s.kind = "dwell") = (current.state = "at_unit")
                 /\ s.kind = "dwell" => s.unit = current.unit

=============================================================================
