------------------------------- MODULE Calendar --------------------------------
(***************************************************************************)
(* The calendars of src/src/svg_calendar.rs: one of all days there are     *)
(* data for, column by column, and one for each year with a row for every  *)
(* day of the week.  A day is a cell whose colour tells how long the       *)
(* activity was; edges and corners between days of one colour are filled.  *)
(* Pure functions of the data and of today's date.                         *)
(*                                                                         *)
(* Abstracted: coordinates, the colours of the schemes, labels of rows and *)
(* the legend.  Dates are days since the epoch; a date is kept in place of *)
(* its text.                                                               *)
(***************************************************************************)
EXTENDS Integers, FiniteSets, FiniteSetsExt, Functions

CONSTANT Inputs     \* [data, today]: day -> seconds, never negative, and the date

\* Without data no calendar is drawn.
ASSUME InputsAssumption ==
    \A in \in Inputs :
        /\ in.today \in Nat
        /\ DOMAIN in.data # {} /\ DOMAIN in.data \subseteq Nat /\ IsFiniteSet(DOMAIN in.data)
        /\ in.data \in [DOMAIN in.data -> Nat]

-----------------------------------------------------------------------------
(* Dates *)

\* January 1st.
YearBegins(y) ==
    365 * (y - 1970) + (y - 1969) \div 4 - (y - 1901) \div 100 + (y - 1601) \div 400

YearOf(date) ==
    CHOOSE y \in (1970 + date \div 366)..(1970 + date \div 365) : date \in YearBegins(y)..(YearBegins(y + 1) - 1)

February(y) == YearBegins(y + 1) - YearBegins(y) - 337

\* The first days of the months of a year.
MonthBegins(y) ==
    LET f == YearBegins(y) + 31 + February(y)
    IN  {YearBegins(y), YearBegins(y) + 31} \cup
            {f + n : n \in {0, 31, 61, 92, 122, 153, 184, 214, 245, 275}}

\* num_days_from_monday
FromMonday(date) == (date + 3) % 7

-----------------------------------------------------------------------------
(* generate_svg_calendar *)

AllTime == 0        \* in place of a year

Latest(in) == Max(DOMAIN in.data \cup {in.today})

FirstDay(in, y) == IF y = AllTime THEN Min(DOMAIN in.data) ELSE YearBegins(y)

LastDay(in, y) ==
    IF y = AllTime THEN Latest(in)
    ELSE IF y = YearOf(in.today) THEN in.today ELSE YearBegins(y + 1) - 1

TotalDaysOf(in, y) == LastDay(in, y) - FirstDay(in, y) + 1

\* The columns of a year begin on Mondays.
Skipped(in, y) == IF y = AllTime THEN 0 ELSE FromMonday(FirstDay(in, y))

\* Nearly a square, of seven rows or more.
Height(in, y) ==
    IF y = AllTime THEN CHOOSE n \in 7..Max({7, TotalDaysOf(in, y)}) :
                            /\ n * n >= TotalDaysOf(in, y)
                            /\ n = 7 \/ (n - 1) * (n - 1) < TotalDaysOf(in, y)
    ELSE 7

\* Not in the code: the days of the first week before the year take no room.
WidthOfDays(in, y) == (TotalDaysOf(in, y) + Height(in, y) - 1) \div Height(in, y)

Width(in, y) == (TotalDaysOf(in, y) + Skipped(in, y) + Height(in, y) - 1) \div Height(in, y)

\* The day in a row and a column, both from zero.
DayAt(in, y, row, col) == FirstDay(in, y) + col * Height(in, y) + row - Skipped(in, y)

Shown(in, y, row, col) ==
    /\ row \in 0..(Height(in, y) - 1) /\ col \in 0..(Width(in, y) - 1)
    /\ DayAt(in, y, row, col) \in FirstDay(in, y)..LastDay(in, y)

CellsOf(in, y) ==
    {p \in (0..(Height(in, y) - 1)) \X (0..(Width(in, y) - 1)) : Shown(in, y, p[1], p[2])}

Seconds(in, date) == IF date \in DOMAIN in.data THEN in.data[date] ELSE 0

ColorIdx(seconds) ==
    CASE seconds = 0 -> 0 [] seconds \in 1..1799 -> 1 [] seconds \in 1800..3599 -> 2 [] OTHER -> 3

ActiveAt(in, y, row, col) ==
    Shown(in, y, row, col) /\ Seconds(in, DayAt(in, y, row, col)) > 0

RowCount(in, y, row) == Cardinality({c \in 0..(Width(in, y) - 1) : ActiveAt(in, y, row, c)})

ColCount(in, y, col) == Cardinality({r \in 0..(Height(in, y) - 1) : ActiveAt(in, y, r, col)})

\* The columns with the name of a month above them.
MonthLabels(in, y) ==
    {p[2] : p \in {q \in CellsOf(in, y) : DayAt(in, y, q[1], q[2]) \in MonthBegins(y)}}

-----------------------------------------------------------------------------
(* Edges and corners, seen from a cell *)

ColorAt(in, y, p) == ColorIdx(Seconds(in, DayAt(in, y, p[1], p[2])))

\* The cell p has a neighbour of its colour by down rows and right columns.
Joins(in, y, p, down, right) ==
    /\ Shown(in, y, p[1] + down, p[2] + right)
    /\ ColorAt(in, y, <<p[1] + down, p[2] + right>>) = ColorAt(in, y, p)

\* Not in the code: the neighbour across the corner is not asked.
CornerOfEdges(in, y, p, down, right) == Joins(in, y, p, down, 0) /\ Joins(in, y, p, 0, right)

CornerFilled(in, y, p, down, right) ==
    /\ Joins(in, y, p, down, 0) /\ Joins(in, y, p, 0, right)
    /\ Joins(in, y, p, down, right)

-----------------------------------------------------------------------------
(* generate_all_years_svgs *)

YearsOf(in) == {YearOf(d) : d \in DOMAIN in.data}

-----------------------------------------------------------------------------
(* Properties *)

\* A calendar has one cell for every day from its first to its last, in the
\* row of its weekday in the calendar of a year, and no other cell; the counts
\* beside the rows and below the columns both account for every active day.
\* A day of the data is in the calendar of all time and in that of its year,
\* unless it is later than today: the calendar of this year ends today.
EveryDayHasACell ==
    \A in \in Inputs : \A y \in YearsOf(in) \cup {AllTime} :
        LET cells == CellsOf(in, y)
            days == FirstDay(in, y)..LastDay(in, y)
            active == {d \in DOMAIN in.data : in.data[d] > 0 /\ d \in days}
            dayOf == [p \in cells |-> DayAt(in, y, p[1], p[2])]
        IN  /\ {dayOf[p] : p \in cells} = days /\ Cardinality(cells) = Cardinality(days)
            /\ y # AllTime => \A p \in cells : FromMonday(dayOf[p]) = p[1]
            /\ SumFunction([r \in 0..(Height(in, y) - 1) |-> RowCount(in, y, r)]) = Cardinality(active)
            /\ SumFunction([c \in 0..(Width(in, y) - 1) |-> ColCount(in, y, c)]) = Cardinality(active)
            /\ y # AllTime => Cardinality(MonthLabels(in, y)) = Cardinality(MonthBegins(y) \cap days)
            /\ \A d \in DOMAIN in.data : y \in {AllTime, YearOf(d)} => d \in days \/ d > in.today

\* The four cells around a corner fill it alike: either they are all of one
\* colour and each paints its part, or none does.
CornersAgree ==
    \A in \in Inputs : \A y \in YearsOf(in) \cup {AllTime} :
        \A p \in CellsOf(in, y) :
            CornerFilled(in, y, p, 1, 1) =>
                /\ CornerFilled(in, y, <<p[1] + 1, p[2]>>, -1, 1)
                /\ CornerFilled(in, y, <<p[1], p[2] + 1>>, 1, -1)
                /\ CornerFilled(in, y, <<p[1] + 1, p[2] + 1>>, -1, -1)

=============================================================================
