-------------------------------- MODULE Stats ---------------------------------
(***************************************************************************)
(* The statistics of the tspan server (src/src/stats.rs), as functions of  *)
(* the completed records, the clock and a time zone, and what their        *)
(* figures promise, checked against definitions that do not follow the     *)
(* code.  Records come from SessionStore; imports bring in sessions of any *)
(* age.  The calendars of the daily data are in Calendar.                  *)
(*                                                                         *)
(* Abstracted: the filters by client, alias and command, which select some *)
(* of the records beforehand; the tables by alias and by command; means,   *)
(* ratios in floating point and the monthly table; formatting.  Dates are  *)
(* days since the epoch.                                                   *)
(***************************************************************************)
EXTENDS SessionStore, Calendar

CONSTANT Zones  \* [before, after, at]: offsets to UTC, and when the one replaces the other

\* Clocks are set forward to a full minute: since 1970 only Africa/Monrovia,
\* in 1972, is an exception, and local_date_start does not look at seconds.
ASSUME ZonesAssumption ==
    /\ Zones \subseteq [before : Int, after : Int, at : Int]
    /\ \A z \in Zones : z.after > z.before => (z.at + z.after) % 60 = 0

Day == 86400

Done == {i \in DOMAIN records : records[i].status = "completed"}

Start(i) == records[i].start

Duration(i) == records[i].duration

TotalOf(S) == SumFunctionOnSet([i \in Done |-> Duration(i)], S)

\* Division of i64 rounds towards zero.
DivTrunc(a, b) == IF a >= 0 THEN a \div b ELSE -((-a) \div b)

-----------------------------------------------------------------------------
(* Local time *)

Offset(z, t) == IF t < z.at THEN z.before ELSE z.after

DateOf(z, t) == (t + Offset(z, t)) \div Day

HourOf(z, t) == ((t + Offset(z, t)) % Day) \div 3600

\* Monday is 0; the epoch was a Thursday.
Weekday(date) == (date + 3) % 7

\* The instants at which clocks in the zone show a local time: one, two or none.
Instants(z, local) == {t \in {local - z.before, local - z.after} : t + Offset(z, t) = local}

Earliest(S) == Min(S)

\* The first minute of the day that the clocks show.
FirstMinute(z, date) ==
    CHOOSE m \in 0..1439 : /\ Instants(z, date * Day + m * 60) # {}
                           /\ \A k \in 0..(m - 1) : Instants(z, date * Day + k * 60) = {}

\* A day of which they show none begins with the midnight of UTC.
LocalDateStart(z, date) ==
    IF \E m \in 0..1439 : Instants(z, date * Day + m * 60) # {}
    THEN Earliest(Instants(z, date * Day + FirstMinute(z, date) * 60))
    ELSE date * Day

DatesOf(z, S) == {DateOf(z, Start(i)) : i \in S}

-----------------------------------------------------------------------------
(* compute_stats *)

Today(z) == DateOf(z, now)

FirstDate(z) == DateOf(z, Min({Start(i) : i \in Done}))

TotalDays(z) == Today(z) - FirstDate(z)

\* The days of the rows of past_n: three always, longer ones when the records
\* go back that far, and all time.
Periods(z) ==
    {7, 14, 30} \cup {n \in {90, 180, 365} \cup {365 * 2^k : k \in 1..8} : TotalDays(z) >= n}
        \cup {TotalDays(z)}

\* Not in the code: the cutoff is the instant, not the day, n days ago.
InPeriodByInstant(z, n) == {i \in Done : Start(i) > now - n * Day}

InPeriod(z, n) ==
    LET cutoff == LocalDateStart(z, Today(z) - n) IN {i \in Done : Start(i) > cutoff}

-----------------------------------------------------------------------------
(* The other figures *)

ByClient == [c \in {records[i].client : i \in Done} |-> TotalOf({i \in Done : records[i].client = c})]

\* Not in the code: a negative duration is subtracted from its day.
CountedRaw(i) == Duration(i)

Counted(i) == IF Duration(i) > 0 THEN Duration(i) ELSE 0

DailyData(z) ==
    [d \in DatesOf(z, Done) |->
        SumFunctionOnSet([i \in Done |-> Counted(i)], {i \in Done : DateOf(z, Start(i)) = d})]

IsWeekend(z, i) == Weekday(DateOf(z, Start(i))) \in {5, 6}

WeekendTotal(z) == TotalOf({i \in Done : IsWeekend(z, i)})

WeekdayTotal(z) == TotalOf({i \in Done : ~IsWeekend(z, i)})

Cell(z, i) == <<Weekday(DateOf(z, Start(i))), HourOf(z, Start(i))>>

Grid(z) == [c \in {Cell(z, i) : i \in Done} |-> TotalOf({i \in Done : Cell(z, i) = c})]

\* Not in the code: max_seconds is the longest session.
GridMaxSingle(z) == Max({0} \cup {Duration(i) : i \in Done})

\* max_seconds follows the cells as the records are added to them.
GridMax(z) ==
    Max({0} \cup {TotalOf({j \in Done : j <= i /\ Cell(z, j) = Cell(z, i)}) : i \in Done})

Shorter(j, i) == Duration(j) < Duration(i) \/ (Duration(j) = Duration(i) /\ j < i)

\* The k-th of the sorted durations has k - 1 before it.
SortedDuration(k) ==
    Duration(CHOOSE i \in Done : Cardinality({j \in Done : Shorter(j, i)}) = k - 1)

Median ==
    LET n == Cardinality(Done)
    IN  IF n % 2 = 1 THEN SortedDuration((n + 1) \div 2)
        ELSE DivTrunc(SortedDuration(n \div 2) + SortedDuration(n \div 2 + 1), 2)

Edges == <<0, 300, 900, 1800, 3600, 7200, 14400>>

\* Not in the code: a bucket does not hold its lower edge.
InBucketAbove(k, d) == d > Edges[k] /\ (k < 7 => d <= Edges[k + 1])

InBucket(k, d) == d >= Edges[k] /\ (k < 7 => d < Edges[k + 1])

Buckets == [k \in 1..7 |-> Cardinality({i \in Done : InBucket(k, Duration(i))})]

-----------------------------------------------------------------------------
(* compute_streaks *)

ActiveDates(z) == DatesOf(z, {i \in Done : Duration(i) > 0})

\* The days in order, each once.
DaysSorted(z) ==
    [k \in 1..Cardinality(ActiveDates(z)) |->
        CHOOSE d \in ActiveDates(z) : Cardinality({e \in ActiveDates(z) : e < d}) = k - 1]

\* Not in the code: the last run of days is not compared when the loop ends.
BestOfLoop(run) == run.best

Best(run) == IF run.current > run.best THEN run.current ELSE run.best

\* The loop over the days: the length of the current run and the best before
\* it, when the first k days have been seen.
Runs(days) ==
    LET run[k \in DOMAIN days] ==
            IF k = 1 THEN [current |-> 1, best |-> 1]
            ELSE IF days[k] - days[k - 1] = 1
                 THEN [current |-> run[k - 1].current + 1, best |-> run[k - 1].best]
                 ELSE [current |-> 1, best |-> Best(run[k - 1])]
    IN  run

Run(z) == Runs(DaysSorted(z))[Cardinality(ActiveDates(z))]

MaxStreak(z) == Best(Run(z))

CurrentStreak(z) == Run(z).current

-----------------------------------------------------------------------------
(* Properties *)

\* Every session is in the first minute of its local day or after it, in zones
\* where midnight is skipped or comes twice; and that first minute is of the
\* day (no second before it is).
DaysBegin ==
    \A z \in Zones, i \in Done :
        LET date == DateOf(z, Start(i))
            first == LocalDateStart(z, date)
        IN  first <= Start(i) /\ DateOf(z, first) = date /\ DateOf(z, first - 1) # date

\* Clocks pass over the whole day, as in Pacific/Apia at the end of 2011.
DayLeftOut(z, date) == z.at + z.before <= date * Day /\ (date + 1) * Day <= z.at + z.after

\* Clocks are set back over the beginning of the day after it was shown, as in
\* America/St_Johns until 2011: one minute after midnight.
BeginsTwice(z, date) == z.at + z.after < date * Day /\ date * Day < z.at + z.before

\* A row of past_n counts the sessions of today and of the n days before, but
\* for one that begins exactly with the first of them ("All Time" included).
\* Where that day begins twice, what follows its first beginning counts too;
\* nothing is said of a period that begins with a day left out.
PeriodsHoldTheirDays ==
    Done # {} =>
        \A z \in Zones : \A n \in Periods(z) :
            LET first == Today(z) - n
                days == {i \in Done : DateOf(z, Start(i)) >= first}
            IN  ~DayLeftOut(z, first) =>
                    /\ \A i \in InPeriod(z, n) \ days : BeginsTwice(z, first) /\ Start(i) >= z.at
                    /\ \A i \in days \ InPeriod(z, n) :
                            DateOf(z, Start(i)) = first /\ DateOf(z, Start(i) - 1) # first

\* The periods and the days they are made of.
PeriodsRight == DaysBegin /\ PeriodsHoldTheirDays

\* The pages of the dashboard agree: clients, weekdays and weekends, and the
\* heat map each account for all the time there is, and the calendar for all
\* but durations a clock set back has made negative, which it leaves out.
BreakdownsAgree ==
    \A z \in Zones :
        /\ SumFunction(ByClient) = TotalOf(Done)
        /\ WeekendTotal(z) + WeekdayTotal(z) = TotalOf(Done)
        /\ SumFunction(Grid(z)) = TotalOf(Done)
        /\ SumFunction(DailyData(z)) = TotalOf({i \in Done : Duration(i) > 0})

\* The colour scale of the heat map fits: no cell is above max_seconds, and
\* without negative durations one cell reaches it.
HeatmapScaled ==
    \A z \in Zones :
        /\ \A c \in DOMAIN Grid(z) : Grid(z)[c] <= GridMax(z)
        /\ (\A i \in Done : Duration(i) >= 0) =>
              GridMax(z) \in {0} \cup {Grid(z)[c] : c \in DOMAIN Grid(z)}

\* What the dashboard breaks the time down into, and the scale it is drawn on.
BreakdownsRight == BreakdownsAgree /\ HeatmapScaled

\* The calendars are right about the data they are given, and what they are
\* given is never negative: the classes of colour have no place for less than 0.
CalendarsRight ==
    /\ \A z \in Zones : \A d \in DOMAIN DailyData(z) : DailyData(z)[d] >= 0
    /\ EveryDayHasACell
    /\ CornersAgree

\* Every session is in one bucket, unless its duration is negative; half of
\* the sessions are no longer than the median and half no shorter.
DistributionComplete ==
    Done # {} =>
        /\ SumFunction(Buckets) = Cardinality({i \in Done : Duration(i) >= 0})
        /\ 2 * Cardinality({i \in Done : Duration(i) <= Median}) >= Cardinality(Done)
        /\ 2 * Cardinality({i \in Done : Duration(i) >= Median}) >= Cardinality(Done)

\* The longest streak is the length of the longest run of days in the set of
\* days, and the current one of the run that ends with the last of them.
StreaksAreRuns ==
    \A z \in Zones :
        LET days == ActiveDates(z)
            IsRun(d, n) == d..(d + n - 1) \subseteq days
            Lengths == 1..Cardinality(days)
        IN  days # {} =>
                /\ MaxStreak(z) = Max({n \in Lengths : \E d \in days : IsRun(d, n)})
                /\ CurrentStreak(z) = Max({n \in Lengths : IsRun(Max(days) - n + 1, n)})

=============================================================================
