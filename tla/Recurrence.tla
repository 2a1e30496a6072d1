------------------------------- MODULE Recurrence ------------------------------
(***************************************************************************)
(* The calendar of scheduling/recurrence.py: the next instant of a rule    *)
(* after a given one, found by a search over the local time, and compared  *)
(* here with the instants at which the rule is due.                        *)
(*                                                                         *)
(* Units are scaled down (a day has HoursPerDay hours), the week has its   *)
(* seven days.  An instant counts ticks of UTC, a wall time counts ticks   *)
(* of the local clock; both start on a Monday at midnight.  The clock of a *)
(* zone may go back or forward by one hour, once, when it shows ChangeAt.  *)
(***************************************************************************)
EXTENDS Integers, FiniteSetsExt

CONSTANTS
  Rules,           \* the schedules that are asked for
  Clocks,          \* a subset of {"steady", "back", "forward"}
  MinutesPerHour, HoursPerDay, DaysPerMonth, MonthsPerYear,
  ChangeAt,        \* the wall time at which the clock is changed
  SearchMinutes,   \* bound: 5_270_400 in the code
  Calendar,        \* bound: the last instant an occurrence is computed from
  Never            \* the error after a search without result

Minute == 2        \* an instant lies on a minute or between two
Hour == Minute * MinutesPerHour
Day == Hour * HoursPerDay

ASSUME RecurrenceAssumption ==
  /\ {MinutesPerHour, HoursPerDay, DaysPerMonth, MonthsPerYear, SearchMinutes, Calendar} \subseteq Nat \ {0}
  /\ ChangeAt \in Nat /\ ChangeAt % Hour = 0 /\ Never \notin Int
  /\ 7 * MonthsPerYear * DaysPerMonth * HoursPerDay * MinutesPerHour <= SearchMinutes

VARIABLES
  rule,            \* schedule of a task
  clock,           \* what its time zone does
  asked,           \* after: the instant of the last question, Never before the first
  cursor           \* the instant it was answered with, where the next question starts
recurrenceVars == <<rule, clock, asked, cursor>>

(* Local time *)

Local(i) ==
  CASE clock = "back" /\ i >= ChangeAt ->
         [wall |-> i - Hour, fold |-> IF i < ChangeAt + Hour THEN 1 ELSE 0]
    [] clock = "forward" /\ i >= ChangeAt -> [wall |-> i + Hour, fold |-> 0]
    [] OTHER -> [wall |-> i, fold |-> 0]

\* astimezone(utc): a wall time that occurs twice is told apart by its fold, and one that
\* is left out counts with the offset before the change
Instant(l) ==
  CASE clock = "back" /\ (l.wall >= ChangeAt \/ (l.wall >= ChangeAt - Hour /\ l.fold = 1)) -> l.wall + Hour
    [] clock = "forward" /\ l.wall >= ChangeAt + Hour -> l.wall - Hour
    [] OTHER -> l.wall

MinuteOf(w) == (w \div Minute) % MinutesPerHour
HourOf(w) == (w \div Hour) % HoursPerDay
MonthDay(w) == ((w \div Day) % DaysPerMonth) + 1
MonthOf(w) == ((w \div (Day * DaysPerMonth)) % MonthsPerYear) + 1
Weekday(w) == (w \div Day) % 7                      \* Monday is 0
IsoWeekday(w) == Weekday(w) + 1

(* Intervals *)

NextInterval(r, after) ==
  IF r.anchor = Never THEN after + r.every
  ELSE r.anchor + r.every * (IF after > r.anchor THEN ((after - r.anchor) \div r.every) + 1 ELSE 1)

(* Times of the day *)

Weekdays(r) == CASE r.type = "weekly" -> r.weekdays [] r.type = "workday" -> 1 .. 5 [] OTHER -> 1 .. 7

\* the checks of the schedule: a positive interval, a time of the day, a day of the week
ASSUME RuleAssumption ==
  \A r \in Rules :
    /\ r.type = "interval" => r.every \in Nat \ {0} /\ r.anchor \in Int \cup {Never}
    /\ r.type \notin {"interval", "cron"} =>
         /\ r.hour \in 0 .. HoursPerDay - 1 /\ r.minute \in 0 .. MinutesPerHour - 1
         /\ Weekdays(r) \cap 1 .. 7 # {}

\* mutant: the instant itself counts as its next occurrence
Passed_Strictly(candidate, local) == candidate.wall < local.wall

\* aware datetimes of one zone are compared by their wall time
Passed(candidate, local) == candidate.wall <= local.wall

\* adding days to a datetime resets its fold
DaysLater(l, n) == IF n = 0 THEN l ELSE [wall |-> l.wall + n * Day, fold |-> 0]

NextTime(r, after) ==
  LET local == Local(after)
      today == [wall |-> (local.wall \div Day) * Day + r.hour * Hour + r.minute * Minute, fold |-> local.fold]
      first == DaysLater(today, IF Passed(today, local) THEN 1 ELSE 0)
  IN  Instant(DaysLater(first, Min({n \in 0 .. 6 : IsoWeekday(first.wall + n * Day) \in Weekdays(r)})))

(* Cron *)

\* a field is a set of ranges with a step; "*" is the range of all values
FieldValues(field) == UNION {{v \in part.from .. part.to : (v - part.from) % part.step = 0} : part \in field.parts}
Restricted(field) == ~field.star

DayMatches(r, w) ==
  LET day == MonthDay(w) \in FieldValues(r.day)
      weekday == Weekday(w) \in FieldValues(r.weekday)
  IN  IF Restricted(r.day) /\ Restricted(r.weekday) THEN day \/ weekday
      ELSE IF Restricted(r.day) THEN day
      ELSE Restricted(r.weekday) => weekday

CronMatches(r, w) ==
  /\ MinuteOf(w) \in FieldValues(r.minute) /\ HourOf(w) \in FieldValues(r.hour)
  /\ MonthOf(w) \in FieldValues(r.month) /\ DayMatches(r, w)

NextCron(r, after) ==
  LET first == ((Local(after).wall + Minute) \div Minute) * Minute
      found == {n \in 0 .. SearchMinutes - 1 : CronMatches(r, first + n * Minute)}
  IN  IF found = {} THEN Never ELSE Instant([wall |-> first + Min(found) * Minute, fold |-> 0])

NextOccurrence(r, after) ==
  CASE r.type = "cron" -> NextCron(r, after)
    [] r.type = "interval" -> NextInterval(r, after)
    [] OTHER -> NextTime(r, after)

(* A task that asks again and again, as preview_next_runs and a catch-up do *)

RecurrenceInit ==
  /\ rule \in Rules /\ clock \in Clocks
  /\ asked = Never /\ cursor \in 0 .. Calendar

Advance ==
  /\ cursor \in 0 .. Calendar
  /\ asked' = cursor
  /\ cursor' = NextOccurrence(rule, cursor)
  /\ UNCHANGED <<rule, clock>>

RecurrenceNext == Advance

RecurrenceSpec == RecurrenceInit /\ [][RecurrenceNext]_recurrenceVars

RecurrenceTypeOK ==
  /\ rule \in Rules /\ clock \in Clocks
  /\ asked \in Int \cup {Never} /\ cursor \in Int \cup {Never}

(* When a rule is due, without a search *)

DueAt(r, w) ==
  /\ w % Minute = 0
  /\ CASE r.type = "cron" -> CronMatches(r, w)
       [] OTHER -> HourOf(w) = r.hour /\ MinuteOf(w) = r.minute /\ IsoWeekday(w) \in Weekdays(r)

Due(r, i) ==
  IF r.type = "interval"
  THEN IF r.anchor = Never THEN i = asked + r.every
       ELSE i > r.anchor /\ (i - r.anchor) % r.every = 0
  ELSE DueAt(r, Local(i).wall)

\* a time the clock leaves out comes one hour later by the new clock
LeftOut(r, i) ==
  /\ clock = "forward" /\ r.type # "interval"
  /\ i \in ChangeAt .. ChangeAt + Hour - 1 /\ DueAt(r, i)

SecondPass(i) == Local(i).fold = 1

\* The answer is an instant at which the rule is due, later than the question, and it passes
\* over no other, except for the second pass of an hour the clock repeats; a search ends
\* without result only when there is nothing to find (next_occurrence).  A cron rule that is
\* asked in that second pass is left out: its search starts over in the first one.
RecurrenceIsExact ==
  asked # Never =>
    IF cursor = Never
    THEN \A i \in asked + 1 .. asked + Minute * (SearchMinutes - 1) - Hour : ~Due(rule, i)
    ELSE /\ Due(rule, cursor) \/ LeftOut(rule, cursor)
         /\ (rule.type = "cron" /\ SecondPass(asked)) \/ cursor > asked
         /\ \A i \in asked + 1 .. cursor - 1 : Due(rule, i) => rule.type # "interval" /\ SecondPass(i)
=============================================================================
