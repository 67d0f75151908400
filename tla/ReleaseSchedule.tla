--------------------------- MODULE ReleaseSchedule ---------------------------
(***************************************************************************)
(* When the release monitor looks at a game again                          *)
(* (server/src/release-monitor.ts: computeNextCheckAt, deriveReleaseState, *)
(* the catch block of processGameRow).                                     *)
(*                                                                         *)
(* IGDB refines the date of one game from nothing over year, quarter and   *)
(* month to the day; each check sees what IGDB knows then and plans the    *)
(* next one.  The model steps from check to check; times are hours since   *)
(* the first one, which writes the watch row and announces nothing.  The   *)
(* release-day event exists only if some later check falls on the release  *)
(* day; for a game added on its release day there is none.                 *)
(***************************************************************************)
EXTENDS Integers

CONSTANTS
    ReleaseDay,     \* hour at which the release day begins (00:00 UTC)
    MonthBegin,     \* hours at which its month, quarter and year begin
    QuarterBegin,
    YearBegin,
    YearOver,       \* and at which the year is over
    MaxLate,        \* how late a planned check may run: timer, queue and retries
    Forced,         \* forced refreshes and provider refreshes come this many hours after a check
    LastHour,       \* bound: checks after this hour are not followed
    MaxErrors       \* bound: checks that fail

Day == 24
ASSUME ScheduleAssumption ==
    /\ {ReleaseDay, MonthBegin, QuarterBegin, YearBegin, YearOver} \subseteq Int
    /\ YearBegin <= QuarterBegin /\ QuarterBegin <= MonthBegin /\ MonthBegin <= ReleaseDay
    /\ ReleaseDay < YearOver
    /\ MaxLate \in 0..17
    /\ Forced \subseteq Nat \ {0}
    /\ LastHour \in Int /\ MaxErrors \in Nat

Precisions == <<"unknown", "year", "quarter", "month", "day">>
Grain == 1..5                   \* positions in Precisions

VARIABLES
    hour,           \* when the last check ran
    planned,        \* next_check_at
    grain,          \* what the last good check knew of the date
    inTime,         \* IGDB knew the day early enough (see Window)
    seen,           \* a check after the first ran on the release day and knew it
    errors

scheduleVars == <<hour, planned, grain, inTime, seen, errors>>

\* getReleaseInfoTimestamp: the first hour of the day, month, quarter or year.
Begins(p) == CASE Precisions[p] = "day"     -> ReleaseDay
               [] Precisions[p] = "month"   -> MonthBegin
               [] Precisions[p] = "quarter" -> QuarterBegin
               [] OTHER                     -> YearBegin

OnReleaseDay(t) == t >= ReleaseDay /\ t < ReleaseDay + Day

\* deriveReleaseState = 'scheduled': a month or year that has begun counts as released.
Scheduled(p, t) == Precisions[p] # "unknown" /\ Begins(p) > t

\* The branches of computeNextCheckAt, before the cap for scheduled games.
DaysAhead(p, t) == (Begins(p) - t) \div Day
Cadence(p, t) ==
    LET ahead == DaysAhead(p, t) IN
    CASE Precisions[p] = "unknown" -> 7 * Day
      [] Precisions[p] = "year"    -> IF t >= YearOver THEN 365 * Day ELSE 30 * Day
      [] Precisions[p] \in {"quarter", "month"} -> IF ahead > 0 THEN 7 * Day ELSE 30 * Day
      [] OTHER -> IF ahead \in 0..30 THEN 6
                  ELSE IF ahead \in (31..120) \union (-30..-1) THEN Day
                  ELSE 365 * Day
Cap == 15 * Day                 \* MAX_UNRELEASED_NEXT_CHECK_MS
\* Mutation: no cap.
NextCheckUncapped(p, t) == t + Cadence(p, t)

NextCheck(p, t) ==
    t + IF Scheduled(p, t) /\ Cadence(p, t) > Cap THEN Cap ELSE Cadence(p, t)

\* How long before the release IGDB must know the day for a check to be sure to fall on it.
Window(p, t) == MaxLate + IF Scheduled(p, t) \/ Precisions[p] = "unknown" THEN Cap ELSE 30 * Day

ScheduleInit ==
    /\ hour = 0 /\ grain \in Grain
    /\ planned = NextCheck(grain, 0)
    /\ inTime = (Precisions[grain] = "day" /\ ReleaseDay > 0)
    /\ seen = FALSE
    /\ errors = 0

\* A check at hour t that learns grain p.  IGDB may have refined the date right after the
\* check before.
Check(t, p) ==
    /\ hour < LastHour /\ p >= grain
    /\ hour' = t /\ grain' = p /\ planned' = NextCheck(p, t)
    /\ inTime' = IF Precisions[grain] = "day" THEN inTime
                 ELSE Precisions[p] = "day" /\ hour + Window(grain, hour) < ReleaseDay + Day
    /\ seen' = (seen \/ (Precisions[p] = "day" /\ OnReleaseDay(t)))
    /\ UNCHANGED errors

DueCheck == \E late \in 0..MaxLate, p \in Grain : Check(planned + late, p)
EarlyCheck == \E h \in Forced, p \in Grain : hour + h < planned /\ Check(hour + h, p)

\* A check fails: nothing is learnt, the next one is a day later.
FailedCheck ==
    \E late \in 0..MaxLate :
        /\ hour < LastHour /\ errors < MaxErrors
        /\ errors' = errors + 1
        /\ hour' = planned + late /\ planned' = planned + late + Day
        /\ UNCHANGED <<grain, inTime, seen>>

ScheduleOver == hour >= LastHour /\ UNCHANGED scheduleVars
ScheduleNext == DueCheck \/ EarlyCheck \/ FailedCheck \/ ScheduleOver
ScheduleSpec == ScheduleInit /\ [][ScheduleNext]_scheduleVars

-----------------------------------------------------------------------------
ScheduleTypeOK ==
    /\ hour \in Nat /\ planned \in Nat
    /\ grain \in Grain
    /\ inTime \in BOOLEAN /\ seen \in BOOLEAN
    /\ errors \in 0..MaxErrors

(***************************************************************************)
(* No release day is slept through: if IGDB knew the day early enough (15  *)
(* days before, 30 once a coarser date has begun; or at the first check,   *)
(* on a day before it) and no check failed, then by the end of the release *)
(* day some check that announces has run on it.                            *)
(***************************************************************************)
ReleaseDayIsSeen ==
    hour >= ReleaseDay + Day /\ inTime /\ errors = 0 => seen
=============================================================================
