-------------------------------- MODULE DateMath --------------------------------
(***************************************************************************)
(* Grafana's relative times (src/query/dateMath.ts): an anchor and the     *)
(* operators applied to it from left to right, read in a time zone.        *)
(*                                                                         *)
(* Instants are counted in ticks of half an hour, the shortest step any    *)
(* zone's offset takes here; a tick stands for minutes, seconds and        *)
(* milliseconds too ("m", "s").  A zone is its offset before the first     *)
(* transition and a set of transitions, as Intl.DateTimeFormat knows it.   *)
(* A wall clock is counted in ticks like an instant, from the same day.    *)
(***************************************************************************)
EXTENDS Integers, SequencesExt

CONSTANTS TicksPerHour,
          FirstDay,         \* FirstDay[m]: the day month m begins on, counted from day 0
          Weekday0          \* Date.getUTCDay() of day 0: 0 is a Sunday

Day    == 24 * TicksPerHour
Months == DOMAIN FirstDay           \* 0, 1, ...: the months from a January on

ASSUME CalendarAssumption ==
  /\ TicksPerHour \in Nat \ {0} /\ Weekday0 \in 0..6
  /\ \E last \in Months : last \in Nat /\ Months = 0..last
  /\ \A m \in Months : FirstDay[m] \in Int
  /\ \A m, n \in Months : m < n => FirstDay[m] < FirstDay[n]

Units  == {"m", "h", "d", "w", "M", "Q", "y"}

\* Intl: the offset a zone has at an instant, and the wall clock it shows.
Latest(past)   == CHOOSE j \in past : \A k \in past : k.at <= j.at
Past(z, t)     == {j \in z.jumps : j.at <= t}
OffsetAt(z, t) == IF Past(z, t) = {} THEN z.base ELSE Latest(Past(z, t)).offset

WallClock(z, t) == t + OffsetAt(z, t)

\* A slip (issue #216), not the code: the second offset is applied unread.
ToInstantInTwoPasses(z, wall) ==
  wall - OffsetAt(z, wall - OffsetAt(z, wall))

\* The instant that shows a wall clock: the earlier of two, and past a gap.
\* The two candidates are read back before one is taken.
ToInstant(z, wall) ==
  LET first     == OffsetAt(z, wall)
      candidate == wall - first
      second    == OffsetAt(z, candidate)
      both      == {candidate, wall - second}
      valid     == {t \in both : OffsetAt(z, t) = wall - t}
  IN  IF first = second THEN candidate
      ELSE IF valid # {} THEN Min(valid) ELSE Max(both)

--------------------------------------------------------------------------------
\* The calendar.
MonthOf(day) == CHOOSE m \in Months : FirstDay[m] <= day /\ (m + 1 \in Months => day < FirstDay[m + 1])
DayOf(wall)  == wall \div Day

\* The day a period begins on, of the day it lies in.
FirstOf(day, unit, weekStart) ==
  LET month == MonthOf(day)
  IN  CASE unit = "d" -> day
        [] unit = "w" -> day - ((day + Weekday0 - weekStart) % 7)
        [] unit = "M" -> FirstDay[month]
        [] unit = "Q" -> FirstDay[month - (month % 3)]
        [] unit = "y" -> FirstDay[month - (month % 12)]

\* The first wall clock of the period a wall clock lies in.
RoundDown(wall, unit, weekStart) ==
  CASE unit = "m" -> wall
    [] unit = "h" -> wall - (wall % TicksPerHour)
    [] OTHER -> FirstOf(DayOf(wall), unit, weekStart) * Day

StartOf(z, t, unit, weekStart) == ToInstant(z, RoundDown(WallClock(z, t), unit, weekStart))

\* Days and weeks keep the wall clock; months, quarters and years do, but for a
\* day the new month does not have.
Moved(wall, amount, unit) ==
  LET day   == DayOf(wall)
      month == MonthOf(day)
      moved == month + amount * (CASE unit = "M" -> 1 [] unit = "Q" -> 3 [] OTHER -> 12)
      last  == FirstDay[moved + 1] - FirstDay[moved] - 1
  IN  CASE unit = "d" -> wall + amount * Day
        [] unit = "w" -> wall + amount * 7 * Day
        [] OTHER -> (FirstDay[moved] + Min({day - FirstDay[month], last})) * Day + (wall % Day)

\* Shorter units are durations.
Shift(z, t, amount, unit) ==
  IF amount = 0 THEN t
  ELSE CASE unit = "m" -> t + amount
         [] unit = "h" -> t + amount * TicksPerHour
         [] OTHER -> ToInstant(z, Moved(WallClock(z, t), amount, unit))

\* The last tick of a period: the one before the start of the period in which the
\* start, shifted by one, lies.
EndOf(z, t, unit, weekStart) ==
  LET next == Shift(z, StartOf(z, t, unit, weekStart), 1, unit)
  IN  StartOf(z, next, unit, weekStart) - 1

--------------------------------------------------------------------------------
\* An expression: its anchor ("now", an instant, or a wall clock with no zone)
\* and its operators; [is |-> "text"] is one that does not parse as a date.
ZoneAnchored(expr) == expr.is = "wall"
Operators(expr)    == ToSet(expr.math)

\* parseOps, splitAnchor: a rounding takes no count, and fiscal units ("f") are
\* refused.
Parses(expr) ==
  /\ expr.is \in {"now", "instant", "wall"}
  /\ \A o \in Operators(expr) : o.unit \in Units /\ (o.op = "/" => o.amount = 1)

\* describeGrafanaTimeExpr.
Rounds(expr)     == \E o \in Operators(expr) : o.op = "/"
RoundsWeek(expr) == \E o \in Operators(expr) : o.op = "/" /\ o.unit = "w"

\* A slip, not the code: shifts by days are taken for durations.
ZoneSensitiveIfRounded(expr) == ZoneAnchored(expr) \/ Rounds(expr)

ZoneSensitive(expr) ==
  \/ ZoneAnchored(expr)
  \/ Rounds(expr)
  \/ \E o \in Operators(expr) : o.unit \in {"d", "w", "M", "Q", "y"}

\* parseGrafanaTimeExpr: a bound that rounds up goes to the end of each period.
Apply(z, weekStart, roundUp, t, o) ==
  CASE o.op = "/" -> IF roundUp THEN EndOf(z, t, o.unit, weekStart)
                     ELSE StartOf(z, t, o.unit, weekStart)
    [] o.op = "-" -> Shift(z, t, -o.amount, o.unit)
    [] o.op = "+" -> Shift(z, t, o.amount, o.unit)

Anchor(z, expr, now) ==
  CASE expr.is = "now" -> now
    [] expr.is = "instant" -> expr.at
    [] expr.is = "wall" -> ToInstant(z, expr.at)

WeekStartDay == [saturday |-> 6, sunday |-> 0, monday |-> 1]

ParseTime(z, expr, now, weekStart, roundUp) ==
  LET time[i \in 0..Len(expr.math)] ==
        IF i = 0 THEN Anchor(z, expr, now)
        ELSE Apply(z, WeekStartDay[weekStart], roundUp, time[i - 1], expr.math[i])
  IN  time[Len(expr.math)]

--------------------------------------------------------------------------------
\* What rounding promises, said of instants alone: the instants of a period are
\* those whose wall clocks lie in it, and rounding gives the first and the last.
SamePeriod(z, s, t, unit, weekStart) ==
  RoundDown(WallClock(z, s), unit, weekStart) = RoundDown(WallClock(z, t), unit, weekStart)

IsFirst(z, s, t, unit, weekStart) ==
  s <= t /\ SamePeriod(z, s, t, unit, weekStart) /\ ~SamePeriod(z, s - 1, t, unit, weekStart)

IsLast(z, s, t, unit, weekStart) ==
  s >= t /\ SamePeriod(z, s, t, unit, weekStart) /\ ~SamePeriod(z, s + 1, t, unit, weekStart)

--------------------------------------------------------------------------------
\* Zones whose days rounding finds.  Offsets are less than a day, changes less than
\* half of one, and two days apart at least; no midnight is skipped or repeated
\* unless the change begins or ends with it; and clocks that are set back to
\* midnight are behind UTC then.  Of two midnights ahead of UTC the second is
\* taken, since the first guess of the offset is made of an instant after both.
Offsets == (1 - Day)..(Day - 1)

Kept(at, before, after) ==
  /\ before \in Offsets /\ after \in Offsets
  /\ 2 * (before - after) < Day /\ 2 * (after - before) < Day
  /\ LET lowest  == at + (IF before < after THEN before ELSE after)
         highest == at + (IF before < after THEN after ELSE before)
     IN  \A wall \in (lowest + 1)..(highest - 1) : wall % Day # 0
  /\ after < before /\ (at + after) % Day = 0 => after < 0

KeepsMidnights(z) ==
  /\ z.base \in Offsets
  /\ z.jumps \subseteq [at : Int, offset : Offsets]
  /\ \A i, j \in z.jumps : i.at < j.at => i.at + 2 * Day <= j.at
  /\ \A i, j \in z.jumps : i.at = j.at => i = j
  /\ \A j \in z.jumps : Kept(j.at, OffsetAt(z, j.at - 1), j.offset)

\* Days whose year, the one before and the one after are in the calendar.
InCalendar(day) ==
  /\ 12 \in Months /\ FirstDay[12] <= day
  /\ \E m \in Months : m + 13 \in Months /\ day < FirstDay[m + 1]
================================================================================
