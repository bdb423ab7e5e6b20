------------------------------- MODULE NextRun -------------------------------
(***************************************************************************)
(* services/automation_service: when an automation next falls due.  Pure   *)
(* arithmetic on local days, turned into an instant last.                  *)
(*                                                                         *)
(* Instants and days are integers; a day has HoursPerDay hours and a month *)
(* DaysPerMonth days.  A zone is two offsets and the instant its clocks    *)
(* change, so one daylight-saving edge lies inside the modelled time.      *)
(***************************************************************************)
EXTENDS Integers

CONSTANTS
    HoursPerDay, DaysPerWeek, DaysPerMonth,     \* 24, 7, the calendar's
    OffsetBefore, OffsetAfter, ClockChange      \* the zone

ASSUME CalendarAssumption ==
    /\ {HoursPerDay, DaysPerWeek, DaysPerMonth} \subseteq Nat \ {0}
    /\ DaysPerMonth >= DaysPerWeek
    /\ {OffsetBefore, OffsetAfter, ClockChange} \subseteq Nat
    /\ {OffsetBefore, OffsetAfter} \subseteq 0..(HoursPerDay - 1)

\* No zone sets its clocks back across midnight, as St. John's did until 2011: a local day
\* never ends twice.  (_next_monthly would raise its "unreachable" in such an hour.)
ASSUME MidnightAssumption ==
    \A day \in 0..(ClockChange + HoursPerDay) :
        ~(ClockChange + OffsetAfter < day * HoursPerDay
            /\ day * HoursPerDay < ClockChange + OffsetBefore)

NULL == -1      \* no instant

Cadences == {"weekly", "biweekly", "monthly"}

Schedules == [cadence : Cadences, day : 0..(DaysPerWeek - 1), hour : 0..(HoursPerDay - 1)]

local_date(instant) ==
    (instant + (IF instant < ClockChange THEN OffsetBefore ELSE OffsetAfter))
        \div HoursPerDay

\* fold=0: an hour that does not exist has the offset before the change, and
\* of an hour that happens twice the first is meant.
slot_utc(day, hour) ==
    LET local == day * HoursPerDay + hour IN
    IF local - OffsetBefore >= ClockChange /\ local - OffsetAfter >= ClockChange
    THEN local - OffsetAfter
    ELSE local - OffsetBefore

snap_to_weekday(day, day_of_week) == day + ((day_of_week - day) % DaysPerWeek)

\* The first of the candidates that is strictly later.
FirstAfter(after, candidates) ==
    CHOOSE c \in candidates : c > after /\ \A d \in candidates : d > after => c <= d

next_by_stride(stride, s, after, last_run_at) ==
    LET today == local_date(after)
        start == IF last_run_at # NULL /\ stride > DaysPerWeek
                 THEN local_date(last_run_at) ELSE today
        snapped == snap_to_weekday(start, s.day)
        anchor == IF today > snapped
                  THEN snapped + ((today - snapped) \div stride) * stride
                  ELSE snapped
    IN FirstAfter(after, {slot_utc(anchor + n * stride, s.hour) : n \in 0..2})

first_of_month(month, s) ==
    slot_utc(snap_to_weekday(month * DaysPerMonth, s.day), s.hour)

next_monthly(s, after) ==
    LET month == local_date(after) \div DaysPerMonth
    IN FirstAfter(after, {first_of_month(month + n, s) : n \in 0..1})

compute_next_run(s, after, last_run_at) ==
    IF s.cadence = "monthly"
    THEN next_monthly(s, after)
    ELSE next_by_stride(IF s.cadence = "weekly" THEN DaysPerWeek ELSE 2 * DaysPerWeek,
                        s, after, last_run_at)

=============================================================================
