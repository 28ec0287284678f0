----------------------------- MODULE SessionHealth -----------------------------
(***************************************************************************)
(* How the store judges one dataset: the trading calendar                  *)
(* (trading_calendar.py), completeness over it (completeness.py), the      *)
(* status (health.py), and the coverage strip the dataset screen draws     *)
(* (dataset_coverage), while time passes and fetches store bars.           *)
(* An instant is a quarter of a day: midnight, open, close, settled.       *)
(***************************************************************************)
EXTENDS Integers, Sequences, FiniteSets, FiniteSetsExt

CONSTANTS
    Sessions,      \* the days that are sessions
    CalendarStart, \* the first day the calendar is built for
    WeekDays,      \* days of a week
    LastDay,       \* bound on time
    SettleTicks,   \* settle_margin
    StreamBars,    \* stream_bar_multiple
    Subscriptions, \* the datasets there can be
    Forever,       \* the end of an open-ended range
    MaxStops,      \* bound on the operator's switches
    BucketCounts   \* how many buckets a strip may be asked for

ASSUME CalendarAssumption ==
    /\ Sessions \subseteq Nat /\ CalendarStart \in Nat /\ WeekDays \in Nat \ {0} /\ LastDay \in Nat
    /\ \E s \in Sessions : s > LastDay + WeekDays
    /\ SettleTicks \in Nat /\ StreamBars \in Nat \ {0} /\ BucketCounts \subseteq Nat \ {0}
    /\ MaxStops \in Nat
    /\ Subscriptions \subseteq [update : {"STATIC", "DAILY", "STREAM"}, width : {"day", "week"},
                               start : Nat, end : Nat \cup {Forever}, collect : BOOLEAN]

VARIABLES
    kept,    \* the dataset: how it updates, its bars' width, its range, its collect intent
    covered, \* the days that hold a bar
    wrote,   \* when the newest bar was last written; read of a DAILY dataset only
    clock,
    stops

healthVars == <<kept, covered, wrote, clock, stops>>

HealthInit ==
    /\ kept \in Subscriptions
    /\ covered = {} /\ wrote = 0
    /\ clock = 0 /\ stops = 0

---------------------------------------------------------------------------
(* The calendar. *)

Midnight(d)     == 4 * d
SessionOpen(d)  == 4 * d + 1
SessionClose(d) == 4 * d + 2
DayOf(t)        == t \div 4

\* _require_covered: a range that starts before the calendar does cannot be judged.
Uncovered(t) == DayOf(t) < CalendarStart

Overlapping(from, to) == {s \in Sessions : SessionOpen(s) < to /\ SessionClose(s) > from}

NextSession(d)      == Min({s \in Sessions : s > d})
CompletedBefore(t)  == {s \in Sessions : SessionClose(s) <= t}
InProgress(t)       == \E s \in Sessions : SessionOpen(s) <= t /\ t < SessionClose(s)

---------------------------------------------------------------------------
(* Completeness. *)

PeriodStart(d) == IF kept.width = "week" THEN d - (d % WeekDays) ELSE d
NextPeriod(d)  == PeriodStart(d) + (IF kept.width = "week" THEN WeekDays ELSE 1)

Periods(days) == {PeriodStart(d) : d \in days}

\* effective_end: an open-ended range ends now.
RangeEnd == IF kept.end = Forever THEN Max({clock, kept.start + 1}) ELSE kept.end

\* judged: the sessions to walk.
Walked(from, to) ==
    IF kept.width = "day" THEN Overlapping(from, to)
    ELSE LET bound == Min({to, clock})
         IN  IF bound <= from THEN {} ELSE Overlapping(from, Midnight(NextPeriod(DayOf(bound))))

\* judged: the sessions among them that owe a bar, their period having started in the range and ended.
Expected(from, to) ==
    {s \in Walked(from, to) :
        IF kept.width = "day" THEN SessionClose(s) <= clock
        ELSE LET members == {x \in Walked(from, to) : PeriodStart(x) = PeriodStart(s)}
             IN  /\ from <= Midnight(PeriodStart(s)) /\ Midnight(PeriodStart(s)) < to
                 /\ SessionClose(Max(members)) <= clock}

\* Mutant: a period that straddles the end reports all of its sessions.
Unclipped(expected) == expected

\* _in_range: what is reported lies inside the range.
InRange(expected) ==
    IF kept.width = "day" THEN expected
    ELSE expected \cap Overlapping(kept.start, RangeEnd)

\* A bar covers the whole of its period.
Holds(s) == PeriodStart(s) \in Periods(covered)

MissingSessions == {s \in InRange(Expected(kept.start, RangeEnd)) : ~Holds(s)}

\* gap_intervals: the maximal runs of missing sessions among those walked.
GapIntervals ==
    LET walked  == Walked(kept.start, RangeEnd)
        run(a, b) == {s \in walked : a <= s /\ s <= b}
        whole(a, b) == /\ a <= b /\ run(a, b) \subseteq MissingSessions
                       /\ \A s \in MissingSessions : run(Min({a, s}), Max({b, s})) \subseteq MissingSessions
                                                       => s \in run(a, b)
    IN  {[first |-> g[1], last |-> g[2], sessions |-> Cardinality(run(g[1], g[2]))] :
            g \in {p \in MissingSessions \X MissingSessions : whole(p[1], p[2])}}

\* The n-th of these days.
Nth(days, n) == CHOOSE d \in days : Cardinality({x \in days : x < d}) = n - 1

\* coverage_buckets: the range's sessions in at most n contiguous groups, the earlier ones a session longer.
CoverageBuckets(n) ==
    LET days     == Overlapping(kept.start, RangeEnd)
        strip    == [i \in 1 .. Cardinality(days) |-> Nth(days, i)]
        groups   == Min({n, Len(strip)})
        upto(i)  == i * (Len(strip) \div groups) + Min({i, Len(strip) % groups})
        bucket(i) ==
            LET expected == {strip[j] : j \in upto(i - 1) + 1 .. upto(i)} \cap Expected(kept.start, RangeEnd)
            IN  [start    |-> IF i = 1 THEN kept.start ELSE Midnight(strip[upto(i - 1) + 1]),
                 end      |-> IF i = groups THEN RangeEnd ELSE Midnight(strip[upto(i) + 1]),
                 expected |-> Cardinality(expected),
                 held     |-> Cardinality({s \in expected : Holds(s)})]
    IN  [i \in 1 .. groups |-> bucket(i)]

\* dataset_coverage: the strip, and the half-open window that holds a gap's bars.
DatasetCoverage(n) ==
    [buckets |-> CoverageBuckets(n),
     gaps    |-> {[start |-> Midnight(g.first), end |-> Midnight(g.last + 1), sessions |-> g.sessions] :
                     g \in GapIntervals}]

---------------------------------------------------------------------------
(* Health. *)

\* bar_period_close, last_bar_is_provisional: the newest bar was written before its period had settled.
Provisional ==
    /\ covered # {}
    /\ LET period == PeriodStart(Max(covered))
           members == Overlapping(Midnight(period), Midnight(NextPeriod(period)))
       IN  members # {} /\ wrote < SessionClose(Max(members)) + SettleTicks

Owed == Periods(Expected(kept.start, Min({RangeEnd, clock})))

\* Mutant: the deadline is the newest period's.
NewestMissed(provisional) == Max(Owed)

\* The first period not stored: its deadline counts, and a later period's end does not move it.
FirstMissed(provisional) ==
    IF provisional THEN Max(Owed)
    ELSE IF covered = {} THEN Min(Owed)
    ELSE Min({Max(Owed), PeriodStart(NextSession(NextPeriod(Max(covered)) - 1))})

DailyStatus ==
    LET provisional == covered # {} /\ PeriodStart(Max(covered)) = Max(Owed) /\ Provisional
        stored      == covered # {} /\ PeriodStart(Max(covered)) >= Max(Owed) /\ ~provisional
        deadline    == SessionOpen(NextSession(NextPeriod(FirstMissed(provisional)) - 1))
    IN  CASE Owed = {}        -> "FRESH"
          [] Owed # {} /\ stored  -> "FRESH"
          [] OTHER -> IF clock < deadline THEN "LATE" ELSE "OVERDUE"

StreamStatus ==
    LET bar == Midnight(NextPeriod(0))
        threshold == IF InProgress(clock) THEN clock - StreamBars * bar
                                          ELSE SessionClose(Max(CompletedBefore(clock))) - bar
    IN  IF ~InProgress(clock) /\ CompletedBefore(clock) = {} THEN "FRESH"
        ELSE IF covered # {} /\ Midnight(Max(covered)) >= threshold THEN "FRESH" ELSE "OVERDUE"

\* evaluate_dataset, as evaluate_views calls it: no health for a range the calendar does not cover.
Status ==
    CASE kept.update # "STATIC" /\ ~kept.collect -> "RETIRED"
      [] kept.update = "STREAM" /\ kept.collect  -> StreamStatus
      [] OTHER ->
           IF Uncovered(kept.start) THEN "NONE"
           ELSE IF kept.update = "DAILY" THEN DailyStatus
           ELSE IF MissingSessions = {} THEN "COMPLETE" ELSE "GAPS"

---------------------------------------------------------------------------
(* What happens to a dataset. *)

TimePasses ==
    /\ clock < Midnight(LastDay)
    /\ clock' = clock + 1
    /\ UNCHANGED <<kept, covered, wrote, stops>>

\* The days in range that a vendor can have stamped a bar with by now.
Stamps == {d \in Periods({s \in Sessions : SessionOpen(s) <= clock}) :
             kept.start <= Midnight(d) /\ Midnight(d) < RangeEnd}

\* A fetch stores what the vendor has, the bar of a period that is still open included.
StoreBars ==
    \E days \in SUBSET Stamps :
      /\ days # {}
      /\ covered' = covered \cup days
      /\ wrote' = IF kept.update = "DAILY" /\ Max(covered') \in days THEN clock ELSE wrote
      /\ UNCHANGED <<kept, clock, stops>>

SwitchCollecting ==
    /\ kept.update # "STATIC" /\ stops < MaxStops
    /\ kept' = [kept EXCEPT !.collect = ~@]
    /\ stops' = stops + 1
    /\ UNCHANGED <<covered, wrote, clock>>

HealthNext == TimePasses \/ StoreBars \/ SwitchCollecting

---------------------------------------------------------------------------
(* Properties. *)

HealthTypeOK ==
    /\ kept.collect \in BOOLEAN /\ stops \in 0 .. MaxStops
    /\ covered \subseteq 0 .. LastDay /\ wrote \in 0 .. clock
    /\ Status \in {"FRESH", "LATE", "OVERDUE", "COMPLETE", "GAPS", "RETIRED", "NONE"}

\* Time alone never makes a subscription that missed a deadline merely late again, nor a failed one
\* healthy, however many periods end after it; a newest bar that was written too early is left out.
TimeOnlyWorsens ==
    [][ clock' # clock =>
          /\ Status = "OVERDUE" /\ kept.update = "DAILY" /\ ~Provisional => Status' = "OVERDUE"
          /\ Status = "LATE" => Status' \in {"LATE", "OVERDUE"}
          /\ Status = "GAPS" => Status' = "GAPS" /\ MissingSessions \subseteq MissingSessions' ]_healthVars

\* The strip, the listed gaps and the status tell one story of what is missing: the buckets tile the
\* range and leave out as many sessions as the gaps list, a gap's window holds no bar and no session
\* but its own, and a STATIC dataset reads GAPS when and only when there is one.
StripAgrees ==
    ~Uncovered(kept.start) =>
      \A n \in BucketCounts :
        LET strip   == DatasetCoverage(n).buckets
            gaps    == DatasetCoverage(n).gaps
            days(g) == DayOf(g.start) .. DayOf(g.end) - 1
        IN  /\ strip # <<>> =>
                 /\ strip[1].start = kept.start /\ strip[Len(strip)].end = RangeEnd
                 /\ \A i \in 1 .. Len(strip) :
                      strip[i].start < strip[i].end /\ (i > 1 => strip[i].start = strip[i - 1].end)
                 /\ MapThenSumSet(LAMBDA i : strip[i].expected - strip[i].held, 1 .. Len(strip))
                      = MapThenSumSet(LAMBDA g : g.sessions, gaps)
            /\ \A g \in gaps :
                 /\ covered \cap days(g) = {}
                 /\ Sessions \cap days(g) \subseteq MissingSessions
                 /\ g.sessions = Cardinality(Sessions \cap days(g))
            /\ (UNION {days(g) : g \in gaps}) \cap Sessions = MissingSessions
            /\ kept.update = "STATIC" => (Status = "GAPS" <=> gaps # {})
=============================================================================
