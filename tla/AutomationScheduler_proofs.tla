--------------------- MODULE AutomationScheduler_proofs ---------------------
(***************************************************************************)
(* What the schedule's arithmetic and the scheduler promise for every       *)
(* calendar, every zone and every number of workers and owners.            *)
(*                                                                         *)
(* The arithmetic: the next run exists, is strictly later than the instant *)
(* it is asked for and lies on the schedule's weekday and hour.  The       *)
(* scheduler: the slot a worker read is on the schedule it read with it;   *)
(* a claim succeeds only while the row still holds that slot, so what it   *)
(* writes is on the row's schedule as long as no two schedules share a     *)
(* slot (SlotsInv).                                                        *)
(***************************************************************************)
EXTENDS AutomationScheduler, TLAPS

-----------------------------------------------------------------------------
(* Division.                                                                *)

(* The multiples of n around a number.                                      *)
LEMMA DivBounds ==
    ASSUME NEW a \in Int, NEW n \in Nat \ {0}
    PROVE  a \div n \in Int /\ n * (a \div n) <= a /\ a < n * (a \div n) + n
OBVIOUS

(* Multiplying keeps the order.                                             *)
LEMMA MultipleOrder ==
    ASSUME NEW n \in Nat, NEW a \in Int, NEW b \in Int, a <= b
    PROVE  a * n <= b * n /\ a * n \in Int /\ b * n \in Int
OBVIOUS

(* A quotient and a remainder are the only ones.                            *)
LEMMA Remainder ==
    ASSUME NEW n \in Nat \ {0}, NEW q \in Int, NEW r \in 0 .. (n - 1)
    PROVE  (n * q + r) % n = r /\ (n * q + r) \div n = q
<1> DEFINE a == n * q + r
<1>1. a \in Int
  OBVIOUS
<1>2. \A b \in Int : b = n * q + r => b % n = r
  OBVIOUS
<1>3. \A b \in Int : b = n * q + r => b \div n = q
  OBVIOUS
<1> QED
  BY <1>1, <1>2, <1>3

(* Every number is its quotient and its remainder.                          *)
LEMMA Division ==
    ASSUME NEW a \in Int, NEW n \in Nat \ {0}
    PROVE  a % n \in 0 .. (n - 1) /\ a \div n \in Int /\ a = n * (a \div n) + (a % n)
<1> DEFINE q == a \div n
<1> DEFINE r == a - n * q
<1>1. q \in Int /\ n * q <= a /\ a < n * q + n
  BY DivBounds
<1> HIDE DEF q
<1>2. r \in 0 .. (n - 1) /\ a = n * q + r
  BY <1>1
<1>3. a % n = r /\ a \div n = q
  BY <1>1, <1>2, Remainder
<1> QED
  BY <1>1, <1>2, <1>3

(* Whole weeks later it is the same weekday.                                *)
LEMMA WeeksLater ==
    ASSUME NEW a \in Int, NEW k \in Int, NEW n \in Nat \ {0}
    PROVE  (a + n * k) % n = a % n
<1> DEFINE q == a \div n
<1> DEFINE r == a % n
<1>1. q \in Int /\ r \in 0 .. (n - 1) /\ a = n * q + r
  BY Division
<1> HIDE DEF q, r
<1>2. a + n * k = n * (q + k) + r /\ q + k \in Int
  BY <1>1
<1>3. (n * (q + k) + r) % n = r
  BY <1>1, <1>2, Remainder
<1> QED
  BY <1>2, <1>3 DEF r

-----------------------------------------------------------------------------
(* The zone and the calendar.                                               *)

(* The constants are numbers.                                               *)
LEMMA Calendar ==
    /\ HoursPerDay \in Nat \ {0} /\ DaysPerWeek \in Nat \ {0} /\ DaysPerMonth \in Nat \ {0}
    /\ DaysPerMonth >= DaysPerWeek
    /\ OffsetBefore \in 0 .. (HoursPerDay - 1) /\ OffsetAfter \in 0 .. (HoursPerDay - 1)
    /\ ClockChange \in Nat
BY CalendarAssumption

(* The local day of an instant starts no later than it and ends after it.   *)
LEMMA LocalDate ==
    ASSUME NEW instant \in Int
    PROVE  LET offset == IF instant < ClockChange THEN OffsetBefore ELSE OffsetAfter IN
           /\ local_date(instant) \in Int
           /\ local_date(instant) * HoursPerDay <= instant + offset
           /\ instant + offset < (local_date(instant) + 1) * HoursPerDay
<1> DEFINE offset == IF instant < ClockChange THEN OffsetBefore ELSE OffsetAfter
<1> DEFINE local == instant + offset
<1>1. local \in Int /\ local_date(instant) = local \div HoursPerDay
  BY Calendar DEF local_date
<1> HIDE DEF local
<1>2. /\ local_date(instant) \in Int
      /\ HoursPerDay * local_date(instant) <= local
      /\ local < HoursPerDay * local_date(instant) + HoursPerDay
  BY <1>1, Calendar, DivBounds
<1>3. \A d \in Int, h \in Nat : h * d = d * h /\ h * d + h = (d + 1) * h
  OBVIOUS
<1> QED
  BY <1>2, <1>3, Calendar DEF local

(* A day has at most one place among the local days.                        *)
LEMMA DayOf ==
    ASSUME NEW day \in Int, NEW local \in Int, day * HoursPerDay <= local,
           local < (day + 1) * HoursPerDay
    PROVE  local \div HoursPerDay = day
<1> DEFINE r == local - HoursPerDay * day
<1>1. HoursPerDay * day \in Int /\ (day + 1) * HoursPerDay = HoursPerDay * day + HoursPerDay
      /\ day * HoursPerDay = HoursPerDay * day
  BY Calendar
<1>2. r \in 0 .. (HoursPerDay - 1)
  BY <1>1, Calendar
<1>3. local = HoursPerDay * day + r
  BY <1>1
<1> HIDE DEF r
<1> QED
  BY <1>2, <1>3, Calendar, Remainder

Hour == 0 .. (HoursPerDay - 1)

(* A slot is its local hour minus one of the two offsets.                   *)
LEMMA SlotBounds ==
    ASSUME NEW day \in Int, NEW hour \in Hour
    PROVE  /\ slot_utc(day, hour) \in Int
           /\ slot_utc(day, hour) <= day * HoursPerDay + hour
           /\ day * HoursPerDay + hour < slot_utc(day, hour) + HoursPerDay
<1>1. day * HoursPerDay \in Int /\ hour \in Nat
  BY Calendar DEF Hour
<1> QED
  BY <1>1, Calendar DEF slot_utc

(* _slot_utc: the local date of a slot is the day asked for, or, when the   *)
(* clocks skip the hour, perhaps the next one.                              *)
LEMMA SlotDay ==
    ASSUME NEW day \in Int, NEW hour \in Hour
    PROVE  day \in (local_date(slot_utc(day, hour)) - 1) .. local_date(slot_utc(day, hour))
<1> DEFINE start == day * HoursPerDay
<1> DEFINE slot == slot_utc(day, hour)
<1> DEFINE offset == IF slot < ClockChange THEN OffsetBefore ELSE OffsetAfter
<1>1. /\ start \in Int /\ hour \in Nat /\ hour < HoursPerDay /\ slot \in Int
      /\ (day + 1) * HoursPerDay = start + HoursPerDay
      /\ (day + 2) * HoursPerDay = start + 2 * HoursPerDay
  BY Calendar, SlotBounds DEF Hour
<1>2. slot = IF start + hour - OffsetBefore >= ClockChange /\ start + hour - OffsetAfter >= ClockChange
             THEN start + hour - OffsetAfter ELSE start + hour - OffsetBefore
  BY <1>1, Calendar DEF slot_utc
<1>3. local_date(slot) = (slot + offset) \div HoursPerDay
  BY DEF local_date
<1> HIDE DEF start, slot
<1>4. start <= slot + offset /\ slot + offset < start + 2 * HoursPerDay /\ slot + offset \in Int
  BY <1>1, <1>2, Calendar
<1> HIDE DEF offset
<1>5. CASE slot + offset < start + HoursPerDay
  <2>1. (slot + offset) \div HoursPerDay = day
    BY <1>1, <1>4, <1>5, DayOf DEF start
  <2> QED
    BY <1>3, <2>1 DEF slot
<1>6. CASE ~ (slot + offset < start + HoursPerDay)
  <2>1. (day + 1) * HoursPerDay <= slot + offset
    BY <1>1, <1>4, <1>6, Calendar
  <2>2. slot + offset < (day + 1 + 1) * HoursPerDay
    BY <1>1, <1>4
  <2>3. (slot + offset) \div HoursPerDay = day + 1
    BY <1>4, <2>1, <2>2, DayOf
  <2> QED
    BY <1>3, <2>3 DEF slot
<1> QED
  BY <1>5, <1>6

(* _snap_to_weekday: the first day from this one on that is the weekday.    *)
LEMMA Snap ==
    ASSUME NEW day \in Int, NEW weekday \in 0 .. (DaysPerWeek - 1)
    PROVE  LET snapped == snap_to_weekday(day, weekday) IN
           /\ snapped \in Int /\ day <= snapped /\ snapped < day + DaysPerWeek
           /\ snapped % DaysPerWeek = weekday
<1> DEFINE q == (weekday - day) \div DaysPerWeek
<1> DEFINE r == (weekday - day) % DaysPerWeek
<1>1. DaysPerWeek \in Nat \ {0} /\ weekday \in Int
  BY Calendar
<1>2. weekday - day \in Int
  BY <1>1
<1>3. r \in 0 .. (DaysPerWeek - 1) /\ q \in Int /\ weekday - day = DaysPerWeek * q + r
  BY <1>1, <1>2, Division
<1>4. snap_to_weekday(day, weekday) = day + r
  BY DEF snap_to_weekday
<1> HIDE DEF q, r
<1>5. day + r = DaysPerWeek * (0 - q) + weekday
  BY <1>1, <1>3
<1>6. (DaysPerWeek * (0 - q) + weekday) % DaysPerWeek = weekday
  <2>1. 0 - q \in Int
    BY <1>3
  <2> QED
    BY <1>1, <2>1, Remainder
<1> QED
  BY <1>1, <1>3, <1>4, <1>5, <1>6

(* Of three candidates the first later one is taken, when one is later.     *)
LEMMA FirstOfThree ==
    ASSUME NEW after \in Int, NEW a \in Int, NEW b \in Int, NEW c \in Int,
           a > after \/ b > after \/ c > after
    PROVE  FirstAfter(after, {a, b, c}) \in {a, b, c} /\ FirstAfter(after, {a, b, c}) > after
<1>1. \E x \in {a, b, c} : x > after /\ \A y \in {a, b, c} : y > after => x <= y
  OBVIOUS
<1> QED
  BY <1>1 DEF FirstAfter

\* An instant is a slot of a schedule: its weekday, its hour.
OnSchedule(s, slot) ==
    \E day \in Int : day % DaysPerWeek = s.day /\ slot = slot_utc(day, s.hour)

(* What a schedule's fields hold.                                           *)
LEMMA ScheduleFields ==
    ASSUME NEW s \in Schedules
    PROVE  s.cadence \in Cadences /\ s.day \in 0 .. (DaysPerWeek - 1) /\ s.hour \in Hour
BY DEF Schedules, Hour

(* From the day after tomorrow on every slot is later.                      *)
LEMMA SlotsGoOn ==
    ASSUME NEW after \in Int, NEW day \in Int, NEW hour \in Hour, day >= local_date(after) + 2
    PROVE  slot_utc(day, hour) > after
<1> DEFINE today == local_date(after)
<1> DEFINE end == (today + 1) * HoursPerDay
<1>1. today \in Int /\ after < end
  <2>1. LET offset == IF after < ClockChange THEN OffsetBefore ELSE OffsetAfter IN
        today \in Int /\ after + offset < end
    BY LocalDate
  <2>2. today \in Int
    BY <2>1
  <2>3. end \in Int
    BY <2>2, Calendar
  <2> HIDE DEF end, today
  <2> QED
    BY <2>1, <2>2, <2>3, Calendar
<1>2. end + HoursPerDay = (today + 2) * HoursPerDay /\ end \in Int
  BY <1>1, Calendar
<1> HIDE DEF today, end
<1>3. (today + 2) * HoursPerDay <= day * HoursPerDay /\ day * HoursPerDay \in Int
  BY <1>1, Calendar, MultipleOrder DEF today
<1>4. /\ slot_utc(day, hour) \in Int
      /\ day * HoursPerDay + hour < slot_utc(day, hour) + HoursPerDay
      /\ hour >= 0 /\ hour \in Int
  BY SlotBounds DEF Hour
<1> QED
  BY <1>1, <1>2, <1>3, <1>4, Calendar

(* _next_by_stride: it finds a slot, strictly later, on the weekday asked   *)
(* for; the third candidate is always late enough.                          *)
LEMMA NextByStride ==
    ASSUME NEW s \in Schedules, NEW after \in Int, NEW last_run_at \in Int,
           NEW weeks \in Nat \ {0}
    PROVE  LET next == next_by_stride(weeks * DaysPerWeek, s, after, last_run_at) IN
           next \in Int /\ next > after /\ OnSchedule(s, next)
<1> DEFINE stride == weeks * DaysPerWeek
<1> DEFINE today == local_date(after)
<1> DEFINE start == IF last_run_at # NULL /\ stride > DaysPerWeek
                    THEN local_date(last_run_at) ELSE today
<1> DEFINE snapped == snap_to_weekday(start, s.day)
<1> DEFINE jumps == (today - snapped) \div stride
<1> DEFINE anchor == IF today > snapped THEN snapped + jumps * stride ELSE snapped
<1> DEFINE next == FirstAfter(after, {slot_utc(anchor + n * stride, s.hour) : n \in 0..2})
<1>1. next_by_stride(weeks * DaysPerWeek, s, after, last_run_at) = next
  BY DEF next_by_stride
<1>2. today \in Int /\ local_date(last_run_at) \in Int
  BY LocalDate
<1>3. /\ s.day \in 0 .. (DaysPerWeek - 1) /\ s.hour \in Hour
      /\ DaysPerWeek \in Nat \ {0}
  BY ScheduleFields, Calendar
<1>4. stride \in Nat \ {0}
  <2>1. 1 * DaysPerWeek <= weeks * DaysPerWeek
    BY <1>3, MultipleOrder
  <2> QED
    BY <1>3, <2>1
<1>5. start \in Int
  BY <1>2
<1> HIDE DEF start
<1>6. snapped \in Int /\ snapped % DaysPerWeek = s.day
  BY <1>3, <1>5, Snap
<1> HIDE DEF snapped
<1>7. /\ jumps \in Int /\ stride * jumps <= today - snapped
      /\ today - snapped < stride * jumps + stride
  <2> HIDE DEF today, stride
  <2>1. today - snapped \in Int
    BY <1>2, <1>6
  <2> QED
    BY <1>4, <2>1, DivBounds
<1> HIDE DEF jumps, today
<1>8. anchor \in Int /\ today < anchor + stride /\ \E k \in Int : anchor = snapped + DaysPerWeek * k
  <2>1. CASE today > snapped
    <3>1. anchor = snapped + jumps * stride /\ jumps * stride = stride * jumps
      BY <1>4, <1>7, <2>1
    <3>2. jumps * stride = DaysPerWeek * (jumps * weeks) /\ jumps * weeks \in Int
      BY <1>3, <1>7
    <3>3. stride * jumps \in Int
      BY <1>4, <1>7
    <3> HIDE DEF stride
    <3> QED
      BY <1>2, <1>4, <1>6, <1>7, <3>1, <3>2, <3>3
  <2>2. CASE ~ (today > snapped)
    <3>1. anchor = snapped /\ snapped = snapped + DaysPerWeek * 0
      BY <1>3, <1>6, <2>2
    <3> QED
      BY <1>2, <1>4, <1>6, <2>2, <3>1 DEF today
  <2> QED
    BY <2>1, <2>2
<1> HIDE DEF anchor
<1>9. ASSUME NEW n \in 0 .. 2
      PROVE  /\ anchor + n * stride \in Int
             /\ slot_utc(anchor + n * stride, s.hour) \in Int
             /\ (anchor + n * stride) % DaysPerWeek = s.day
  <2>1. PICK k \in Int : anchor = snapped + DaysPerWeek * k
    BY <1>8
  <2>2. n * stride = DaysPerWeek * (n * weeks) /\ n * stride \in Int /\ n * weeks \in Int
    BY <1>3, <1>4
  <2>3. anchor + n * stride = snapped + DaysPerWeek * (k + n * weeks)
    <3> DEFINE m == n * weeks
    <3> HIDE DEF stride
    <3>1. m \in Int /\ n * stride = DaysPerWeek * m
      BY <2>2
    <3> HIDE DEF m
    <3>2. anchor + n * stride = snapped + DaysPerWeek * (k + m)
      BY <1>3, <1>6, <2>1, <3>1
    <3> QED
      BY <3>2 DEF m
  <2>4. anchor + n * stride \in Int
    BY <1>8, <2>2
  <2>5. (snapped + DaysPerWeek * (k + n * weeks)) % DaysPerWeek = snapped % DaysPerWeek
    <3>1. k + n * weeks \in Int
      BY <2>2
    <3> QED
      BY <1>3, <1>6, <3>1, WeeksLater
  <2>6. slot_utc(anchor + n * stride, s.hour) \in Int
    BY <1>3, <2>4, SlotBounds
  <2> QED
    BY <1>6, <2>3, <2>4, <2>5, <2>6
<1>10. slot_utc(anchor + 2 * stride, s.hour) > after
  <2>1. anchor + 2 * stride >= today + 2 /\ anchor + 2 * stride \in Int
    <3> HIDE DEF stride
    <3> QED
      BY <1>2, <1>4, <1>8 DEF today
  <2> QED
    BY <1>3, <2>1, SlotsGoOn DEF today
<1> DEFINE at(n) == slot_utc(anchor + n * stride, s.hour)
<1>11. {at(n) : n \in 0 .. 2} = {at(0), at(1), at(2)}
  <2>1. 0 .. 2 = {0, 1, 2}
    OBVIOUS
  <2> HIDE DEF at
  <2> QED
    BY <2>1
<1>12. next = FirstAfter(after, {at(0), at(1), at(2)})
  BY <1>11
<1>13. at(0) \in Int /\ at(1) \in Int /\ at(2) \in Int /\ at(2) > after
  BY <1>9, <1>10
<1> HIDE DEF at, next
<1>14. next \in {at(0), at(1), at(2)} /\ next > after
  BY <1>12, <1>13, FirstOfThree
<1>15. PICK n \in 0 .. 2 : next = at(n)
  BY <1>14
<1>16. OnSchedule(s, next)
  BY <1>9, <1>15 DEF OnSchedule, at
<1> QED
  BY <1>1, <1>13, <1>14, <1>16

(* Where no midnight is repeated, the slots of tomorrow are later.          *)
LEMMA TomorrowIsLater ==
    ASSUME NEW after \in Int, NEW day \in Int, NEW hour \in Hour, day >= local_date(after) + 1
    PROVE  slot_utc(day, hour) > after
<1> DEFINE today == local_date(after)
<1> DEFINE start == day * HoursPerDay
<1> DEFINE offset == IF after < ClockChange THEN OffsetBefore ELSE OffsetAfter
<1>1. today \in Int /\ after + offset < (today + 1) * HoursPerDay
  BY LocalDate
<1>2. (today + 1) * HoursPerDay <= start /\ start \in Int /\ (today + 1) * HoursPerDay \in Int
  <2> HIDE DEF today
  <2> QED
    BY <1>1, Calendar, MultipleOrder DEF today
<1>3. hour \in Nat
  BY Calendar DEF Hour
<1>4. slot_utc(day, hour) =
          IF start + hour - OffsetBefore >= ClockChange /\ start + hour - OffsetAfter >= ClockChange
          THEN start + hour - OffsetAfter ELSE start + hour - OffsetBefore
  BY <1>2, <1>3, Calendar DEF slot_utc
<1> HIDE DEF today
<1>5. after + offset < start
  <2> HIDE DEF start
  <2> QED
    BY <1>1, <1>2, Calendar
<1>6. ~ (ClockChange + OffsetAfter < start /\ start < ClockChange + OffsetBefore)
  <2> SUFFICES ASSUME ClockChange + OffsetAfter < start, start < ClockChange + OffsetBefore
               PROVE  FALSE
    OBVIOUS
  <2>1. day > 0
    <3>1. CASE day <= 0
      <4>1. day * HoursPerDay <= 0 * HoursPerDay
        BY <3>1, Calendar, MultipleOrder
      <4> QED
        BY <1>2, <4>1, Calendar
    <3> QED
      BY <3>1
  <2>2. HoursPerDay * 1 <= HoursPerDay * day
    BY <2>1, Calendar
  <2>3. 1 * day <= HoursPerDay * day
    BY <2>1, Calendar, MultipleOrder
  <2>4. HoursPerDay * day = start
    BY Calendar
  <2>5. day \in 0 .. (ClockChange + HoursPerDay)
    <3> HIDE DEF start
    <3> QED
      BY <1>2, <2>1, <2>3, <2>4, Calendar
  <2> QED
    BY <2>5, MidnightAssumption
<1> HIDE DEF start
<1>7. CASE after < ClockChange
  BY <1>2, <1>3, <1>4, <1>5, <1>7, Calendar
<1>8. CASE ~ (after < ClockChange)
  BY <1>2, <1>3, <1>4, <1>5, <1>6, <1>8, Calendar
<1> QED
  BY <1>7, <1>8

(* _next_monthly: this month's first such weekday or the next month's is    *)
(* later, so the "unreachable" line is not reached.                         *)
LEMMA NextMonthly ==
    ASSUME NEW s \in Schedules, NEW after \in Int
    PROVE  LET next == next_monthly(s, after) IN
           next \in Int /\ next > after /\ OnSchedule(s, next)
<1> DEFINE today == local_date(after)
<1> DEFINE month == today \div DaysPerMonth
<1> DEFINE first(n) == snap_to_weekday((month + n) * DaysPerMonth, s.day)
<1> DEFINE at(n) == slot_utc(first(n), s.hour)
<1> DEFINE next == FirstAfter(after, {at(n) : n \in 0 .. 1})
<1>1. next_monthly(s, after) = next
  BY DEF next_monthly, first_of_month
<1>2. today \in Int
  BY LocalDate
<1>3. /\ s.day \in 0 .. (DaysPerWeek - 1) /\ s.hour \in Hour /\ DaysPerMonth \in Nat \ {0}
  BY ScheduleFields, Calendar
<1>4. month \in Int /\ today < DaysPerMonth * month + DaysPerMonth
  BY <1>2, <1>3, DivBounds
<1> HIDE DEF month
<1>5. ASSUME NEW n \in 0 .. 1
      PROVE  first(n) \in Int /\ first(n) % DaysPerWeek = s.day /\ at(n) \in Int
  <2>1. (month + n) * DaysPerMonth \in Int
    BY <1>3, <1>4
  <2>2. first(n) \in Int /\ first(n) % DaysPerWeek = s.day
    BY <1>3, <2>1, Snap
  <2> QED
    BY <1>3, <2>2, SlotBounds
<1>6. at(1) > after
  <2>1. (month + 1) * DaysPerMonth = DaysPerMonth * month + DaysPerMonth
        /\ (month + 1) * DaysPerMonth \in Int
    BY <1>3, <1>4
  <2>2. first(1) >= (month + 1) * DaysPerMonth
    BY <1>3, <2>1, Snap
  <2>3. first(1) >= today + 1 /\ first(1) \in Int
    <3> HIDE DEF first, today
    <3>1. first(1) \in Int
      BY <1>5
    <3> QED
      BY <1>2, <1>3, <1>4, <2>1, <2>2, <3>1
  <2> QED
    BY <1>3, <2>3, TomorrowIsLater
<1> HIDE DEF first
<1>7. {at(n) : n \in 0 .. 1} = {at(0), at(1), at(1)}
  <2>1. 0 .. 1 = {0, 1}
    OBVIOUS
  <2> HIDE DEF at
  <2> QED
    BY <2>1
<1>8. next = FirstAfter(after, {at(0), at(1), at(1)})
  BY <1>7
<1>9. at(0) \in Int /\ at(1) \in Int
  BY <1>5
<1> HIDE DEF at, next
<1>10. next \in {at(0), at(1), at(1)} /\ next > after
  BY <1>6, <1>8, <1>9, FirstOfThree
<1>11. PICK n \in 0 .. 1 : next = at(n)
  BY <1>10
<1>12. OnSchedule(s, next)
  BY <1>5, <1>11 DEF OnSchedule, at
<1> QED
  BY <1>1, <1>9, <1>10, <1>12

(* compute_next_run: "strictly after, never equal", and on the weekday and  *)
(* hour of the schedule, for every cadence, instant and anchor.             *)
THEOREM NextRunIsLaterAndOnSchedule ==
    \A s \in Schedules, after, last_run_at \in Int :
        LET next == compute_next_run(s, after, last_run_at) IN
        next \in Int /\ next > after /\ OnSchedule(s, next)
<1> SUFFICES ASSUME NEW s \in Schedules, NEW after \in Int, NEW last_run_at \in Int
             PROVE  LET next == compute_next_run(s, after, last_run_at) IN
                    next \in Int /\ next > after /\ OnSchedule(s, next)
  OBVIOUS
<1>1. CASE s.cadence = "monthly"
  BY <1>1, NextMonthly DEF compute_next_run
<1>2. CASE s.cadence = "weekly"
  <2>1. 1 * DaysPerWeek = DaysPerWeek /\ 1 \in Nat \ {0}
    BY Calendar
  <2>2. compute_next_run(s, after, last_run_at) = next_by_stride(1 * DaysPerWeek, s, after, last_run_at)
    BY <1>2, <2>1 DEF compute_next_run
  <2> QED
    BY <2>1, <2>2, NextByStride
<1>3. CASE s.cadence = "biweekly"
  <2>1. compute_next_run(s, after, last_run_at) = next_by_stride(2 * DaysPerWeek, s, after, last_run_at)
    BY <1>3 DEF compute_next_run
  <2> QED
    BY <2>1, NextByStride
<1> QED
  BY <1>1, <1>2, <1>3, ScheduleFields DEF Cadences

-----------------------------------------------------------------------------
(* Types.                                                                   *)

(* Instants are numbers, and NULL is none of them.                          *)
LEMMA InstantsAreNumbers ==
    /\ Instants \subseteq Nat /\ NULL \in Int /\ NULL \notin Nat
    /\ 0 \in Instants /\ MaxTime \in Nat /\ MaxSaves \in Nat /\ MaxDeaths \in Nat
    /\ Hours \subseteq Hour /\ Days \subseteq 0 .. (DaysPerWeek - 1) /\ Choices \subseteq Cadences
BY SchedulerAssumption, Calendar DEF Instants, NULL, Hour

(* A slot computed in the modelled time is a number.                        *)
LEMMA NextRunIsASlot ==
    ASSUME NEW s \in Schedules, NEW after \in Instants, NEW last_run_at \in Instants \union {NULL}
    PROVE  /\ compute_next_run(s, after, last_run_at) \in Nat
           /\ compute_next_run(s, after, last_run_at) > after
           /\ OnSchedule(s, compute_next_run(s, after, last_run_at))
<1>1. after \in Nat /\ after \in Int /\ last_run_at \in Int
  BY InstantsAreNumbers
<1>2. LET next == compute_next_run(s, after, last_run_at) IN
      next \in Int /\ next > after /\ OnSchedule(s, next)
  BY <1>1, NextRunIsLaterAndOnSchedule
<1> QED
  BY <1>1, <1>2

(* What an owner may pick is a schedule.                                    *)
LEMMA ChoicesAreSchedules == [cadence : Choices, day : Days, hour : Hours] \subseteq Schedules
BY InstantsAreNumbers DEF Schedules, Hour

(* The defaults are a row, a tick that read nothing and a save not begun.   *)
LEMMA DefaultsAreTyped ==
    Defaults \in AutomationSetting /\ Asleep \in Ticks /\ NoSave \in Saves
    /\ Asleep.stage = "asleep" /\ NoSave.stage = "none"
<1>1. Defaults.schedule \in Schedules
  BY Calendar DEF Defaults, Schedules, Cadences
<1>2. Defaults \in AutomationSetting
  BY <1>1, InstantsAreNumbers DEF Defaults, AutomationSetting, Slots
<1>3. Asleep \in Ticks
  BY <1>2, InstantsAreNumbers DEF Asleep, Ticks, Stages
<1>4. NoSave \in Saves
  BY <1>1, InstantsAreNumbers DEF NoSave, Saves
<1> QED
  BY <1>2, <1>3, <1>4 DEF Asleep, NoSave

(* A tick that read nothing, at any stage.                                  *)
LEMMA Forgotten ==
    ASSUME NEW stage \in Stages
    PROVE  /\ [Asleep EXCEPT !.stage = stage] \in Ticks
           /\ [Asleep EXCEPT !.stage = stage].stage = stage
BY DefaultsAreTyped DEF Ticks

(* The row is typed: what the actions need to know of its fields.           *)
LEMMA RowFields ==
    ASSUME NEW row \in AutomationSetting
    PROVE  /\ row.mode \in {"off", "scheduled_draft"} /\ row.schedule \in Schedules
           /\ row.paused \in BOOLEAN /\ row.next_run_at \in Slots
           /\ row.last_run_at \in Instants \union {NULL}
BY Zenon DEF AutomationSetting

(* What a save stores.                                                      *)
LEMMA StoredEffect ==
    ASSUME settings \in AutomationSetting, NEW s \in Saves, NEW next \in Slots
    PROVE  /\ Stored(s, next) \in AutomationSetting
           /\ Stored(s, next).mode = IF s.enabled THEN "scheduled_draft" ELSE "off"
           /\ Stored(s, next).schedule = s.schedule /\ Stored(s, next).next_run_at = next
<1> DEFINE mode == IF s.enabled THEN "scheduled_draft" ELSE "off"
<1> DEFINE paused == ~s.enabled /\ s.paused
<1> DEFINE new == [settings EXCEPT !.mode = mode, !.schedule = s.schedule, !.paused = paused,
                                   !.next_run_at = next]
<1>1. Stored(s, next) = new
  BY Zenon DEF Stored
<1>2. mode \in {"off", "scheduled_draft"} /\ s.schedule \in Schedules
  BY DEF Saves
<1>3. paused \in BOOLEAN
  OBVIOUS
<1>4. new.mode = mode /\ new.schedule = s.schedule /\ new.next_run_at = next
  <2> HIDE DEF mode, paused
  <2> QED
    BY DEF AutomationSetting
<1>5. new \in AutomationSetting
  <2> HIDE DEF mode, paused
  <2> QED
    BY <1>2, <1>3, Zenon DEF AutomationSetting
<1> HIDE DEF new
<1> QED
  BY <1>1, <1>4, <1>5

(* What a claim stores.                                                     *)
LEMMA AdvanceEffect ==
    ASSUME TypeOK, NEW w \in Workers, Advance(w)
    PROVE  /\ settings' \in AutomationSetting
           /\ settings'.mode = settings.mode /\ settings'.schedule = settings.schedule
           /\ settings'.next_run_at = Following(w) /\ Following(w) \in Nat
           /\ OnSchedule(worker[w].row.schedule, Following(w))
           /\ claimed' \subseteq claimed \union {worker[w].row.next_run_at}
           /\ worker[w].now >= worker[w].row.next_run_at \/ claimed' = claimed
           /\ previous' = worker[w].row.next_run_at
<1> DEFINE row == worker[w].row
<1> DEFINE now == worker[w].now
<1> DEFINE new == [settings EXCEPT !.next_run_at = Following(w), !.last_run_at = now]
<1>1. worker[w] \in Ticks /\ settings \in AutomationSetting
  BY DEF TypeOK
<1>2. row \in AutomationSetting /\ now \in Instants
  BY <1>1, Zenon DEF Ticks
<1>3. Following(w) = compute_next_run(row.schedule, now, row.last_run_at)
  BY DEF Following
<1>4. Following(w) \in Nat /\ OnSchedule(row.schedule, Following(w))
  <2> HIDE DEF row, now
  <2> QED
    BY <1>2, <1>3, RowFields, NextRunIsASlot
<1>5. settings' = new
  BY DEF Advance
<1> HIDE DEF now
<1>6. new.mode = settings.mode /\ new.schedule = settings.schedule
      /\ new.next_run_at = Following(w)
  BY <1>1 DEF AutomationSetting
<1>7. new \in AutomationSetting
  BY <1>1, <1>2, <1>4, Zenon DEF AutomationSetting, Slots
<1> HIDE DEF new
<1> QED
  BY <1>4, <1>5, <1>6, <1>7 DEF Advance

\* What a worker that read the row still relies on.
Reading == {"due", "allowed"}

TickInv == \A w \in Workers : worker[w].stage \in Reading => worker[w].row.next_run_at # NULL

(* The row is on at first, and nobody has read or saved anything.           *)
LEMMA TypesInit == Init => TypeOK /\ TickInv
<1> SUFFICES ASSUME Init PROVE TypeOK /\ TickInv
  OBVIOUS
<1>1. PICK schedule \in [cadence : Choices, day : Days, hour : Hours] :
        settings = [mode |-> "scheduled_draft", schedule |-> schedule, paused |-> FALSE,
                    next_run_at |-> compute_next_run(schedule, 0, NULL), last_run_at |-> NULL]
  BY DEF Init, SwitchedOn
<1>2. schedule \in Schedules
  BY ChoicesAreSchedules
<1>3. compute_next_run(schedule, 0, NULL) \in Nat
  BY <1>2, InstantsAreNumbers, NextRunIsASlot
<1>4. settings \in AutomationSetting /\ settings.mode = "scheduled_draft"
  BY <1>1, <1>2, <1>3, InstantsAreNumbers, Zenon DEF AutomationSetting, Slots
<1>5. \A w \in Workers : worker[w].stage = "asleep"
  BY DefaultsAreTyped DEF Init
<1>6. TickInv
  BY <1>5 DEF TickInv, Reading
<1>7. worker \in [Workers -> Ticks] /\ save \in [Owners -> Saves]
  BY DefaultsAreTyped DEF Init
<1>8. clock \in Instants /\ claimed \subseteq Nat /\ previous \in Slots
      /\ saves \in 0 .. MaxSaves /\ deaths \in 0 .. MaxDeaths
  BY InstantsAreNumbers DEF Init, Slots
<1> QED
  BY <1>4, <1>6, <1>7, <1>8 DEF TypeOK

(* An owner's steps keep the types, and switching off clears the slot.      *)
LEMMA OwnerTypes ==
    ASSUME TypeOK, NEW o \in Owners, LoadSettings(o) \/ Upsert(o)
    PROVE  TypeOK' /\ UNCHANGED worker
<1>1. CASE LoadSettings(o)
  <2>1. PICK enabled \in BOOLEAN, schedule \in [cadence : Choices, day : Days, hour : Hours] :
          save' = [save EXCEPT ![o] =
             [stage |-> "loaded", now |-> clock, enabled |-> enabled, schedule |-> schedule,
              paused |-> settings.paused, last_run_at |-> settings.last_run_at]]
    BY <1>1 DEF LoadSettings
  <2> DEFINE new == [stage |-> "loaded", now |-> clock, enabled |-> enabled, schedule |-> schedule,
                     paused |-> settings.paused, last_run_at |-> settings.last_run_at]
  <2>2. schedule \in Schedules /\ settings.paused \in BOOLEAN
        /\ settings.last_run_at \in Instants \union {NULL} /\ clock \in Instants
    BY ChoicesAreSchedules, RowFields DEF TypeOK
  <2>3. new \in Saves
    BY <2>2, Zenon DEF Saves
  <2> HIDE DEF new
  <2>4. save' \in [Owners -> Saves]
    BY <2>1, <2>3 DEF TypeOK, new
  <2>5. saves' \in 0 .. MaxSaves
    BY <1>1, InstantsAreNumbers DEF LoadSettings, TypeOK
  <2> QED
    BY <1>1, <2>4, <2>5 DEF LoadSettings, TypeOK
<1>2. CASE Upsert(o)
  <2> DEFINE s == save[o]
  <2> DEFINE next == IF s.enabled THEN compute_next_run(s.schedule, s.now, s.last_run_at) ELSE NULL
  <2>1. /\ settings' = Stored(s, next) /\ claimed' = claimed \ {next} /\ previous' = NULL
        /\ save' = [save EXCEPT ![o] = NoSave] /\ UNCHANGED <<clock, worker, saves, deaths>>
    BY <1>2, Zenon DEF Upsert
  <2>2. s \in Saves
    BY DEF TypeOK
  <2>3. s.schedule \in Schedules /\ s.now \in Instants /\ s.last_run_at \in Instants \union {NULL}
    BY <2>2, Zenon DEF Saves
  <2>4. next \in Slots /\ (~ s.enabled => next = NULL)
    <3>1. compute_next_run(s.schedule, s.now, s.last_run_at) \in Nat
      <4> HIDE DEF s
      <4> QED
        BY <2>3, NextRunIsASlot
    <3> QED
      BY <3>1 DEF Slots
  <2> HIDE DEF next
  <2>5. /\ settings' \in AutomationSetting
        /\ settings'.mode = "off" => settings'.next_run_at = NULL
    <3> HIDE DEF s
    <3> QED
      BY <2>1, <2>2, <2>4, StoredEffect DEF TypeOK
  <2>6. save' \in [Owners -> Saves]
    BY <2>1, DefaultsAreTyped DEF TypeOK
  <2>7. claimed' \subseteq Nat /\ previous' \in Slots
    BY <2>1 DEF TypeOK, Slots
  <2> QED
    BY <2>1, <2>5, <2>6, <2>7 DEF TypeOK
<1> QED
  BY <1>1, <1>2

(* A worker's steps keep the types, and it keeps only a slot it read.       *)
LEMMA WorkerTypes ==
    ASSUME TypeOK, TickInv, NEW w \in Workers, WorkerStep(w) \/ Die(w)
    PROVE  /\ TypeOK'
           /\ worker' \in [Workers -> Ticks]
           /\ \A v \in Workers : v # w => worker'[v] = worker[v]
           /\ \/ worker'[w].stage \notin Reading
              \/ worker'[w].row = settings /\ settings.next_run_at # NULL
              \/ worker[w].stage \in Reading /\ worker'[w].row = worker[w].row
<1>0. worker \in [Workers -> Ticks] /\ worker[w] \in Ticks
  BY DEF TypeOK
<1>1. ASSUME NEW stage \in Stages \ Reading,
             worker' = [worker EXCEPT ![w] = [Asleep EXCEPT !.stage = stage]]
      PROVE  /\ worker' \in [Workers -> Ticks] /\ worker'[w].stage \notin Reading
             /\ \A v \in Workers : v # w => worker'[v] = worker[v]
  <2> DEFINE new == [Asleep EXCEPT !.stage = stage]
  <2>1. new \in Ticks /\ new.stage = stage
    BY Forgotten
  <2> HIDE DEF new
  <2>2. worker'[w] = new /\ worker' \in [Workers -> Ticks]
    BY <1>0, <1>1, <2>1 DEF new
  <2> QED
    BY <1>0, <1>1, <2>1, <2>2
<1>2. ASSUME Sleep(w)
      PROVE  /\ worker' \in [Workers -> Ticks] /\ worker'[w].stage \notin Reading
             /\ \A v \in Workers : v # w => worker'[v] = worker[v]
  <2>1. worker'[w] = Asleep /\ worker' \in [Workers -> Ticks]
    BY <1>0, <1>2, DefaultsAreTyped DEF Sleep
  <2> QED
    BY <1>0, <1>2, <2>1, DefaultsAreTyped DEF Sleep, Reading
<1>3. CASE ReadDue(w)
  <2>1. PICK now \in Instants :
          worker' = [worker EXCEPT ![w] = [stage |-> "due", now |-> now, row |-> settings]]
    BY <1>3 DEF ReadDue
  <2> DEFINE new == [stage |-> "due", now |-> now, row |-> settings]
  <2>2. new \in Ticks
    BY DEF Ticks, Stages, TypeOK
  <2>3. settings.next_run_at # NULL /\ UNCHANGED <<clock, settings, save, claimed, previous, saves, deaths>>
    BY <1>3 DEF ReadDue, IsDue
  <2>4. new.row = settings
    OBVIOUS
  <2> HIDE DEF new
  <2>5. worker'[w] = new /\ worker' \in [Workers -> Ticks]
        /\ \A v \in Workers : v # w => worker'[v] = worker[v]
    BY <1>0, <2>1, <2>2 DEF new
  <2> QED
    BY <2>3, <2>4, <2>5 DEF TypeOK
<1>4. CASE CheckCeiling(w)
  <2>1. worker[w].stage = "due" /\ UNCHANGED <<clock, settings, save, claimed, previous, saves, deaths>>
    BY <1>4 DEF CheckCeiling
  <2>2. CASE To(w, "pausing")
    BY <1>1, <2>1, <2>2 DEF To, TypeOK, Stages, Reading
  <2>3. CASE worker' = [worker EXCEPT ![w].stage = "allowed"]
    <3> DEFINE new == [worker[w] EXCEPT !.stage = "allowed"]
    <3>1. new \in Ticks /\ new.row = worker[w].row
      BY <1>0 DEF Ticks, Stages
    <3>2. worker' = [worker EXCEPT ![w] = new]
      BY <2>3
    <3> HIDE DEF new
    <3>3. worker'[w] = new /\ worker' \in [Workers -> Ticks]
          /\ \A v \in Workers : v # w => worker'[v] = worker[v]
      BY <1>0, <3>1, <3>2
    <3> QED
      BY <2>1, <3>1, <3>3 DEF TypeOK, Reading
  <2> QED
    BY <1>4, <2>2, <2>3 DEF CheckCeiling
<1>5. CASE pause_automation(w)
  <2> DEFINE new == [settings EXCEPT !.paused = TRUE]
  <2>1. settings' = new /\ UNCHANGED <<clock, save, claimed, previous, saves, deaths>> /\ Sleep(w)
    BY <1>5 DEF pause_automation
  <2>2. settings \in AutomationSetting
    BY DEF TypeOK
  <2>3. new.mode = settings.mode /\ new.next_run_at = settings.next_run_at
    BY <2>2 DEF AutomationSetting
  <2>4. new \in AutomationSetting
    BY <2>2, Zenon DEF AutomationSetting
  <2> HIDE DEF new
  <2> QED
    BY <1>2, <2>1, <2>3, <2>4 DEF TypeOK
<1>6. CASE Claim(w)
  <2>1. UNCHANGED <<clock, save, saves, deaths>>
    BY <1>6 DEF Claim
  <2>2. CASE settings.next_run_at = worker[w].row.next_run_at
    <3>1. Advance(w) /\ To(w, "starting") /\ worker[w].stage = "allowed"
      BY <1>6, <2>2 DEF Claim
    <3>2. worker[w].row.next_run_at # NULL
      BY <3>1 DEF TickInv, Reading
    <3>3. settings.next_run_at \in Nat /\ settings.mode # "off"
      BY <2>2, <3>2, RowFields DEF TypeOK, Slots
    <3>4. /\ settings' \in AutomationSetting /\ settings'.mode = settings.mode
          /\ claimed' \subseteq claimed \union {worker[w].row.next_run_at}
          /\ previous' = worker[w].row.next_run_at
      BY <3>1, AdvanceEffect
    <3>5. claimed' \subseteq Nat /\ previous' \in Slots
      BY <2>2, <3>3, <3>4 DEF TypeOK, Slots
    <3> QED
      BY <1>1, <2>1, <3>1, <3>3, <3>4, <3>5 DEF To, TypeOK, Stages, Reading
  <2>3. CASE settings.next_run_at # worker[w].row.next_run_at
    <3>1. Sleep(w) /\ UNCHANGED <<settings, claimed, previous>>
      BY <1>6, <2>3 DEF Claim
    <3> QED
      BY <1>2, <2>1, <3>1 DEF TypeOK
  <2> QED
    BY <2>2, <2>3
<1>7. CASE StartRun(w)
  <2>1. Sleep(w) /\ UNCHANGED <<clock, settings, save, claimed, previous, saves, deaths>>
    BY <1>7 DEF StartRun
  <2> QED
    BY <1>2, <2>1 DEF TypeOK
<1>8. CASE Die(w)
  <2>1. /\ Sleep(w) /\ deaths < MaxDeaths /\ deaths' = deaths + 1
        /\ UNCHANGED <<clock, settings, save, claimed, previous, saves>>
    BY <1>8 DEF Die
  <2>2. deaths' \in 0 .. MaxDeaths
    BY <2>1, InstantsAreNumbers DEF TypeOK
  <2> QED
    BY <1>2, <2>1, <2>2 DEF TypeOK
<1> QED
  BY <1>3, <1>4, <1>5, <1>6, <1>7, <1>8 DEF WorkerStep

(* Time passes: nothing else.                                               *)
LEMMA PassTypes ==
    ASSUME TypeOK, Pass
    PROVE  TypeOK' /\ UNCHANGED <<settings, worker, save>>
<1>1. /\ clock < MaxTime /\ clock' = clock + 1
      /\ UNCHANGED <<settings, worker, save, claimed, previous, saves, deaths>>
  BY DEF Pass
<1>2. clock' \in Instants
  BY <1>1, InstantsAreNumbers DEF TypeOK, Instants
<1> QED
  BY <1>1, <1>2 DEF TypeOK

(* Every step keeps the types, and a worker's slot.                         *)
LEMMA TypesStep == TypeOK /\ TickInv /\ [Next]_vars => TypeOK' /\ TickInv'
<1> SUFFICES ASSUME TypeOK, TickInv, [Next]_vars PROVE TypeOK' /\ TickInv'
  OBVIOUS
<1>1. ASSUME NEW o \in Owners, LoadSettings(o) \/ Upsert(o) PROVE TypeOK' /\ TickInv'
  <2>1. TypeOK' /\ UNCHANGED worker
    BY <1>1, OwnerTypes
  <2> QED
    BY <2>1 DEF TickInv
<1>2. ASSUME NEW w \in Workers, WorkerStep(w) \/ Die(w) PROVE TypeOK' /\ TickInv'
  <2>1. /\ TypeOK'
        /\ \A v \in Workers : v # w => worker'[v] = worker[v]
        /\ \/ worker'[w].stage \notin Reading
           \/ worker'[w].row = settings /\ settings.next_run_at # NULL
           \/ worker[w].stage \in Reading /\ worker'[w].row = worker[w].row
    BY <1>2, WorkerTypes
  <2>2. ASSUME NEW v \in Workers, worker'[v].stage \in Reading
        PROVE  worker'[v].row.next_run_at # NULL
    BY <2>1, <2>2 DEF TickInv
  <2> QED
    BY <2>1, <2>2 DEF TickInv
<1>3. CASE Pass
  BY <1>3, PassTypes DEF TickInv
<1>4. CASE UNCHANGED vars
  BY <1>4 DEF vars, TypeOK, TickInv
<1> QED
  BY <1>1, <1>2, <1>3, <1>4 DEF Next

(* The row, the ticks and the saves keep their types, and a row that is off *)
(* holds no slot, whatever saves, claims and deaths interleave.             *)
THEOREM SchedulerTypeCorrect == Spec => []TypeOK
<1>1. Spec => [](TypeOK /\ TickInv)
  BY TypesInit, TypesStep, PTL DEF Spec
<1> QED
  BY <1>1, PTL

(* Only a claim moves a worker on to its run, and only while the row still  *)
(* holds the slot it read.                                                  *)
LEMMA ClaimIsAStep ==
    ASSUME TypeOK, TickInv, Next, NEW w \in Workers, Claims(w)
    PROVE  /\ worker[w].row.next_run_at # NULL
           /\ settings.next_run_at = worker[w].row.next_run_at
<1>1. worker[w].stage = "allowed" /\ worker'[w].stage = "starting" /\ worker[w] \in Ticks
  BY DEF Claims, TypeOK
<1>2. worker[w].row.next_run_at # NULL
  BY <1>1 DEF TickInv, Reading
<1>3. Claim(w)
  <2>1. ASSUME NEW o \in Owners, LoadSettings(o) \/ Upsert(o) PROVE FALSE
    BY <1>1, <2>1, OwnerTypes
  <2>2. ASSUME NEW v \in Workers, v # w, WorkerStep(v) \/ Die(v) PROVE FALSE
    BY <1>1, <2>2, WorkerTypes
  <2>3. ASSUME Pass PROVE FALSE
    BY <1>1, <2>3, PassTypes
  <2>4. ASSUME Die(w) PROVE FALSE
    <3>1. worker'[w] = Asleep
      BY <2>4 DEF Die, Sleep, TypeOK
    <3> QED
      BY <1>1, <3>1, DefaultsAreTyped
  <2>5. WorkerStep(w)
    BY <2>1, <2>2, <2>3, <2>4 DEF Next
  <2> QED
    BY <1>1, <2>5 DEF WorkerStep, ReadDue, CheckCeiling, pause_automation, StartRun
<1>4. settings.next_run_at = worker[w].row.next_run_at
  <2>1. ASSUME Sleep(w) PROVE FALSE
    <3>1. worker'[w] = Asleep
      BY <2>1 DEF Sleep, TypeOK
    <3> QED
      BY <1>1, <3>1, DefaultsAreTyped
  <2> QED
    BY <1>3, <2>1 DEF Claim
<1> QED
  BY <1>2, <1>4

(* save_automation: "an owner who turns automation off has asked for        *)
(* nothing to happen".  A claim compares with the slot it read, a slot is   *)
(* never NULL, and a row that is off holds NULL.                            *)
THEOREM NothingIsClaimedOnceOff == Spec => OffStopsClaims
<1>1. Spec => [](TypeOK /\ TickInv)
  BY TypesInit, TypesStep, PTL DEF Spec
<1>2. ASSUME TypeOK, TickInv, Next
      PROVE  \A w \in Workers : Claims(w) => settings.mode = "scheduled_draft"
  <2> SUFFICES ASSUME NEW w \in Workers, Claims(w) PROVE settings.mode = "scheduled_draft"
    OBVIOUS
  <2>1. settings.next_run_at # NULL
    BY <1>2, ClaimIsAStep
  <2> QED
    BY <1>2, <2>1, RowFields DEF TypeOK
<1>3. TypeOK /\ TickInv /\ [Next]_vars =>
          [\A w \in Workers : Claims(w) => settings.mode = "scheduled_draft"]_vars
  BY <1>2
<1> QED
  BY <1>1, <1>3, PTL DEF Spec, OffStopsClaims

-----------------------------------------------------------------------------
(* The slot is on the schedule.                                             *)

\* No two weekdays or hours an owner may pick name one instant.
SlotsAreDistinct ==
    \A d, e \in Int, h, k \in Hours :
        slot_utc(d, h) = slot_utc(e, k) => d % DaysPerWeek = e % DaysPerWeek /\ h = k

\* The zone skips no hour inside the modelled time, or there is one hour to pick.
NoSkippedHour == OffsetAfter <= OffsetBefore \/ \A h, k \in Hours : h = k

\* A local hour as an instant, fold=0.
Resolved(local) ==
    IF local - OffsetBefore >= ClockChange /\ local - OffsetAfter >= ClockChange
    THEN local - OffsetAfter ELSE local - OffsetBefore

(* A slot, from its local hour.                                             *)
LEMMA SlotOf ==
    ASSUME NEW day \in Int, NEW hour \in Hour
    PROVE  LET local == HoursPerDay * day + hour IN
           /\ local \in Int
           /\ slot_utc(day, hour) = Resolved(local)
<1>1. /\ day * HoursPerDay = HoursPerDay * day /\ HoursPerDay * day \in Int /\ hour \in Int
  BY Calendar DEF Hour
<1> QED
  BY <1>1, Calendar DEF slot_utc, Resolved

(* Local hours that name one instant are less than a day apart, and the     *)
(* same one where the zone skips no hour.                                   *)
LEMMA ResolvedTogether ==
    ASSUME NEW x \in Int, NEW y \in Int, Resolved(x) = Resolved(y)
    PROVE  /\ x - y < HoursPerDay /\ y - x < HoursPerDay
           /\ OffsetAfter <= OffsetBefore => x = y
<1> DEFINE Late(local) == local - OffsetBefore >= ClockChange /\ local - OffsetAfter >= ClockChange
<1>1. CASE Late(x) /\ Late(y)
  BY <1>1, Calendar DEF Resolved
<1>2. CASE Late(x) /\ ~ Late(y)
  BY <1>2, Calendar DEF Resolved
<1>3. CASE ~ Late(x) /\ Late(y)
  BY <1>3, Calendar DEF Resolved
<1>4. CASE ~ Late(x) /\ ~ Late(y)
  BY <1>4, Calendar DEF Resolved
<1> QED
  BY <1>1, <1>2, <1>3, <1>4

(* Where no hour is skipped, a slot has one day and one hour.               *)
LEMMA SlotsDiffer == NoSkippedHour => SlotsAreDistinct
<1> SUFFICES ASSUME NoSkippedHour, NEW d \in Int, NEW e \in Int, NEW h \in Hours, NEW k \in Hours,
                    slot_utc(d, h) = slot_utc(e, k)
             PROVE  d = e /\ h = k
  BY DEF SlotsAreDistinct
<1> DEFINE x == HoursPerDay * d + h
<1> DEFINE y == HoursPerDay * e + k
<1>1. h \in Hour /\ k \in Hour
  BY InstantsAreNumbers
<1>2. /\ x \in Int /\ y \in Int
      /\ Resolved(x) = Resolved(y)
  BY <1>1, SlotOf
<1>7. /\ x - y < HoursPerDay /\ y - x < HoursPerDay
      /\ OffsetAfter <= OffsetBefore => x = y
  BY <1>2, ResolvedTogether
<1>3. x % HoursPerDay = h /\ x \div HoursPerDay = d
  BY <1>1, Calendar, Remainder DEF Hour
<1>4. y % HoursPerDay = k /\ y \div HoursPerDay = e
  BY <1>1, Calendar, Remainder DEF Hour
<1>5. CASE OffsetAfter <= OffsetBefore
  <2>1. x = y
    BY <1>7, <1>5
  <2> QED
    BY <1>3, <1>4, <2>1
<1>6. CASE h = k
  <2>1. x - y < HoursPerDay /\ y - x < HoursPerDay
    BY <1>7
  <2>2. /\ d * HoursPerDay \in Int /\ e * HoursPerDay \in Int /\ h \in Int /\ k \in Int
        /\ x = d * HoursPerDay + h /\ y = e * HoursPerDay + k
        /\ (d + 1) * HoursPerDay = d * HoursPerDay + HoursPerDay
        /\ (e + 1) * HoursPerDay = e * HoursPerDay + HoursPerDay
    BY <1>1, Calendar DEF Hour
  <2>3. d < e => (d + 1) * HoursPerDay <= e * HoursPerDay
    BY Calendar, MultipleOrder
  <2>4. e < d => (e + 1) * HoursPerDay <= d * HoursPerDay
    BY Calendar, MultipleOrder
  <2> DEFINE p == d * HoursPerDay
  <2> DEFINE q == e * HoursPerDay
  <2>5. p \in Int /\ q \in Int /\ x = p + h /\ y = q + k
        /\ (d < e => p + HoursPerDay <= q) /\ (e < d => q + HoursPerDay <= p)
    BY <2>2, <2>3, <2>4
  <2> HIDE DEF x, y, p, q
  <2>6. ~ (d < e) /\ ~ (e < d)
    BY <1>6, <2>1, <2>2, <2>5, Calendar
  <2> QED
    BY <1>6, <2>6
<1> QED
  BY <1>5, <1>6 DEF NoSkippedHour

\* The row's slot and every slot a worker holds were computed from the schedule beside it.
SlotsInv ==
    /\ settings.next_run_at # NULL =>
          OnSchedule(settings.schedule, settings.next_run_at) /\ settings.schedule.hour \in Hours
    /\ \A w \in Workers : worker[w].stage \in Reading =>
          /\ OnSchedule(worker[w].row.schedule, worker[w].row.next_run_at)
          /\ worker[w].row.schedule.hour \in Hours
    /\ \A o \in Owners : save[o].stage = "loaded" => save[o].schedule.hour \in Hours

(* The first slot was computed from the schedule just saved.                *)
LEMMA SlotsInit == Init => SlotsInv
<1> SUFFICES ASSUME Init PROVE SlotsInv
  OBVIOUS
<1>1. PICK schedule \in [cadence : Choices, day : Days, hour : Hours] :
        settings = [mode |-> "scheduled_draft", schedule |-> schedule, paused |-> FALSE,
                    next_run_at |-> compute_next_run(schedule, 0, NULL), last_run_at |-> NULL]
  BY DEF Init, SwitchedOn
<1>2. schedule \in Schedules /\ schedule.hour \in Hours
  BY ChoicesAreSchedules
<1>3. OnSchedule(schedule, compute_next_run(schedule, 0, NULL))
  BY <1>2, InstantsAreNumbers, NextRunIsASlot
<1>4. \A w \in Workers : worker[w].stage = "asleep"
  BY DefaultsAreTyped DEF Init
<1>5. \A o \in Owners : save[o].stage = "none"
  BY DefaultsAreTyped DEF Init
<1> QED
  BY <1>1, <1>2, <1>3, <1>4, <1>5 DEF SlotsInv, Reading

(* Two schedules that share a slot agree on the weekday and the hour.       *)
LEMMA SameSlot ==
    ASSUME SlotsAreDistinct, NEW s \in Schedules, NEW t \in Schedules, NEW slot, NEW next,
           OnSchedule(s, slot), OnSchedule(t, slot), s.hour \in Hours, t.hour \in Hours,
           OnSchedule(s, next)
    PROVE  OnSchedule(t, next)
<1>1. PICK d \in Int : d % DaysPerWeek = s.day /\ slot = slot_utc(d, s.hour)
  BY DEF OnSchedule
<1>2. PICK e \in Int : e % DaysPerWeek = t.day /\ slot = slot_utc(e, t.hour)
  BY DEF OnSchedule
<1>3. slot_utc(d, s.hour) = slot_utc(e, t.hour)
  BY <1>1, <1>2
<1>4. d % DaysPerWeek = e % DaysPerWeek /\ s.hour = t.hour
  <2>1. \A a, b \in Int, h, k \in Hours :
            slot_utc(a, h) = slot_utc(b, k) => a % DaysPerWeek = b % DaysPerWeek /\ h = k
    BY DEF SlotsAreDistinct
  <2>2. \A h, k \in Hours :
            slot_utc(d, h) = slot_utc(e, k) => d % DaysPerWeek = e % DaysPerWeek /\ h = k
    BY <2>1
  <2> QED
    BY <1>3, <2>2
<1>5. s.day = t.day /\ s.hour = t.hour
  BY <1>1, <1>2, <1>4
<1> QED
  BY <1>5 DEF OnSchedule

(* A save stores the slot of the schedule it stores.                        *)
LEMMA OwnerSlots ==
    ASSUME TypeOK, SlotsInv, NEW o \in Owners, LoadSettings(o) \/ Upsert(o)
    PROVE  SlotsInv'
<1>0. UNCHANGED worker
  BY OwnerTypes
<1>1. CASE LoadSettings(o)
  <2>1. PICK enabled \in BOOLEAN, schedule \in [cadence : Choices, day : Days, hour : Hours] :
          save' = [save EXCEPT ![o] =
             [stage |-> "loaded", now |-> clock, enabled |-> enabled, schedule |-> schedule,
              paused |-> settings.paused, last_run_at |-> settings.last_run_at]]
    BY <1>1 DEF LoadSettings
  <2>2. save'[o].schedule = schedule /\ \A p \in Owners : p # o => save'[p] = save[p]
    BY <2>1 DEF TypeOK
  <2>3. \A p \in Owners : save'[p].stage = "loaded" => save'[p].schedule.hour \in Hours
    BY <2>2 DEF SlotsInv
  <2> QED
    BY <1>0, <1>1, <2>3 DEF SlotsInv, LoadSettings
<1>2. CASE Upsert(o)
  <2> DEFINE s == save[o]
  <2> DEFINE next == IF s.enabled THEN compute_next_run(s.schedule, s.now, s.last_run_at) ELSE NULL
  <2>1. settings' = Stored(s, next) /\ save' = [save EXCEPT ![o] = NoSave] /\ s.stage = "loaded"
    BY <1>2, Zenon DEF Upsert
  <2>2. s \in Saves /\ s.schedule.hour \in Hours
    BY <2>1 DEF TypeOK, SlotsInv
  <2>3. s.schedule \in Schedules /\ s.now \in Instants /\ s.last_run_at \in Instants \union {NULL}
    BY <2>2, Zenon DEF Saves
  <2>4. next \in Slots /\ (next # NULL => OnSchedule(s.schedule, next))
    <3>1. /\ compute_next_run(s.schedule, s.now, s.last_run_at) \in Nat
          /\ OnSchedule(s.schedule, compute_next_run(s.schedule, s.now, s.last_run_at))
      <4> HIDE DEF s
      <4> QED
        BY <2>3, NextRunIsASlot
    <3> QED
      BY <3>1 DEF Slots
  <2> HIDE DEF next, s
  <2>5. settings'.schedule = s.schedule /\ settings'.next_run_at = next
    BY <2>1, <2>2, <2>4, StoredEffect DEF TypeOK
  <2>6. \A p \in Owners : p # o => save'[p] = save[p]
    BY <2>1 DEF TypeOK
  <2>7. save'[o].stage = "none"
    BY <2>1, DefaultsAreTyped DEF TypeOK
  <2>8. \A p \in Owners : save'[p].stage = "loaded" => save'[p].schedule.hour \in Hours
    BY <2>6, <2>7 DEF SlotsInv
  <2> QED
    BY <1>0, <2>2, <2>4, <2>5, <2>8 DEF SlotsInv
<1> QED
  BY <1>1, <1>2

(* A claim advances the row along the row's own schedule.                   *)
LEMMA WorkerSlots ==
    ASSUME TypeOK, TickInv, SlotsInv, SlotsAreDistinct, NEW w \in Workers, WorkerStep(w) \/ Die(w)
    PROVE  SlotsInv'
<1>1. /\ \A v \in Workers : v # w => worker'[v] = worker[v]
      /\ \/ worker'[w].stage \notin Reading
         \/ worker'[w].row = settings /\ settings.next_run_at # NULL
         \/ worker[w].stage \in Reading /\ worker'[w].row = worker[w].row
  BY WorkerTypes
<1>2. UNCHANGED save
  BY DEF WorkerStep, ReadDue, CheckCeiling, pause_automation, Claim, StartRun, Die
<1>3. ASSUME NEW v \in Workers, worker'[v].stage \in Reading
      PROVE  /\ OnSchedule(worker'[v].row.schedule, worker'[v].row.next_run_at)
             /\ worker'[v].row.schedule.hour \in Hours
  BY <1>1, <1>3 DEF SlotsInv
<1>4. settings'.next_run_at # NULL =>
          OnSchedule(settings'.schedule, settings'.next_run_at) /\ settings'.schedule.hour \in Hours
  <2>1. CASE UNCHANGED settings
    BY <2>1 DEF SlotsInv
  <2>2. CASE pause_automation(w)
    <3>1. settings' = [settings EXCEPT !.paused = TRUE] /\ settings \in AutomationSetting
      BY <2>2 DEF pause_automation, TypeOK
    <3>2. settings'.schedule = settings.schedule /\ settings'.next_run_at = settings.next_run_at
      BY <3>1 DEF AutomationSetting
    <3> QED
      BY <3>2 DEF SlotsInv
  <2>3. CASE Claim(w) /\ settings.next_run_at = worker[w].row.next_run_at
    <3> DEFINE row == worker[w].row
    <3>1. Advance(w) /\ worker[w].stage = "allowed"
      BY <2>3 DEF Claim
    <3>2. /\ settings'.schedule = settings.schedule
          /\ settings'.next_run_at = Following(w)
          /\ OnSchedule(row.schedule, Following(w))
      BY <3>1, AdvanceEffect
    <3>3. row \in AutomationSetting /\ settings \in AutomationSetting
      BY Zenon DEF TypeOK, Ticks
    <3>4. /\ row.next_run_at # NULL /\ OnSchedule(row.schedule, row.next_run_at)
          /\ row.schedule.hour \in Hours
      BY <3>1 DEF TickInv, SlotsInv, Reading
    <3>5. OnSchedule(settings.schedule, row.next_run_at) /\ settings.schedule.hour \in Hours
      BY <2>3, <3>4 DEF SlotsInv
    <3> HIDE DEF row
    <3>6. OnSchedule(settings.schedule, Following(w))
      BY <3>2, <3>3, <3>4, <3>5, RowFields, SameSlot
    <3> QED
      BY <3>2, <3>5, <3>6
  <2> QED
    BY <2>1, <2>2, <2>3 DEF WorkerStep, ReadDue, CheckCeiling, Claim, StartRun, Die
<1> QED
  BY <1>2, <1>3, <1>4 DEF SlotsInv

(* The slots and schedules go together in every reachable state.            *)
LEMMA SlotsHold == ASSUME NoSkippedHour PROVE Spec => [](TypeOK /\ TickInv /\ SlotsInv)
<1>0. SlotsAreDistinct
  BY SlotsDiffer
<1> DEFINE Inv == TypeOK /\ TickInv /\ SlotsInv
<1>1. Init => Inv
  BY TypesInit, SlotsInit
<1>2. Inv /\ [Next]_vars => Inv'
  <2> SUFFICES ASSUME Inv, [Next]_vars PROVE Inv'
    OBVIOUS
  <2>1. TypeOK' /\ TickInv'
    BY TypesStep
  <2>2. ASSUME NEW o \in Owners, LoadSettings(o) \/ Upsert(o) PROVE SlotsInv'
    BY <2>2, OwnerSlots
  <2>3. ASSUME NEW w \in Workers, WorkerStep(w) \/ Die(w) PROVE SlotsInv'
    BY <1>0, <2>3, WorkerSlots
  <2>4. CASE Pass
    BY <2>1, <2>4, PassTypes DEF SlotsInv
  <2>5. CASE UNCHANGED vars
    BY <2>1, <2>5 DEF vars, SlotsInv
  <2> QED
    BY <2>1, <2>2, <2>3, <2>4, <2>5 DEF Next
<1> QED
  BY <1>1, <1>2, PTL DEF Spec

(* automation_settings_service: next_run_at "is a CACHE of the arithmetic". *)
(* Whatever saves and claims overlap, it is an instant of the row's own     *)
(* weekday and hour, in every zone that skips no hour the owners may pick.  *)
(* (Where one is skipped two hours share an instant, a claim cannot tell    *)
(* the row from the one it read, and the statement is false.)               *)
THEOREM SlotFollowsTheRow == ASSUME NoSkippedHour PROVE Spec => []NextRunIsOnSchedule
<1> DEFINE Inv == TypeOK /\ TickInv /\ SlotsInv
<1>1. Spec => []Inv
  BY SlotsHold
<1>2. Inv => NextRunIsOnSchedule
  <2> SUFFICES ASSUME Inv, settings.next_run_at # NULL
               PROVE  \E day \in (local_date(settings.next_run_at) - 1)..local_date(settings.next_run_at) :
                          /\ day % DaysPerWeek = settings.schedule.day
                          /\ settings.next_run_at = slot_utc(day, settings.schedule.hour)
    BY DEF NextRunIsOnSchedule
  <2>1. PICK day \in Int : /\ day % DaysPerWeek = settings.schedule.day
                           /\ settings.next_run_at = slot_utc(day, settings.schedule.hour)
    BY DEF SlotsInv, OnSchedule
  <2>2. settings.schedule.hour \in Hour
    BY RowFields, ScheduleFields DEF TypeOK
  <2>3. day \in (local_date(settings.next_run_at) - 1)..local_date(settings.next_run_at)
    BY <2>1, <2>2, SlotDay
  <2> QED
    BY <2>1, <2>3
<1> QED
  BY <1>1, <1>2, PTL


-----------------------------------------------------------------------------
(* A reached slot is claimed once.                                          *)

\* Between a clock that is read and the statement that uses it less time passes than between
\* two slots of one schedule: six days of twenty-four hours, for a lag of seconds.
ShortLag == MaxLag <= (DaysPerWeek - 1) * HoursPerDay

(* Two slots of one schedule are further apart than any lag.                *)
LEMMA SlotsApart ==
    ASSUME ShortLag, NEW s \in Schedules, NEW a, NEW b, OnSchedule(s, a), OnSchedule(s, b)
    PROVE  a \in Int /\ b \in Int /\ (a < b => a + MaxLag < b)
<1>1. PICK d \in Int : d % DaysPerWeek = s.day /\ a = slot_utc(d, s.hour)
  BY DEF OnSchedule
<1>2. PICK e \in Int : e % DaysPerWeek = s.day /\ b = slot_utc(e, s.hour)
  BY DEF OnSchedule
<1>3. /\ s.hour \in Hour /\ s.hour \in Nat /\ MaxLag \in Nat
      /\ HoursPerDay \in Nat \ {0} /\ DaysPerWeek \in Nat \ {0}
  BY ScheduleFields, SchedulerAssumption, Calendar DEF Hour
<1> DEFINE p == d * HoursPerDay
<1> DEFINE q == e * HoursPerDay
<1>4. /\ p \in Int /\ q \in Int /\ a \in Int /\ b \in Int
      /\ a <= p + s.hour /\ p + s.hour < a + HoursPerDay
      /\ b <= q + s.hour /\ q + s.hour < b + HoursPerDay
  BY <1>1, <1>2, <1>3, SlotBounds
<1>5. ASSUME a < b PROVE a + MaxLag < b
  <2>1. d < e
    <3>1. e <= d => q <= p
      BY <1>3, MultipleOrder
    <3>2. CASE e = d
      BY <1>1, <1>2, <1>4, <1>5, <3>2
    <3>3. CASE e < d
      <4>1. (e + 1) * HoursPerDay <= d * HoursPerDay
        BY <1>3, <3>3, MultipleOrder
      <4>2. (e + 1) * HoursPerDay = q + HoursPerDay
        BY <1>3
      <4>3. q + HoursPerDay <= p
        BY <4>1, <4>2
      <4> HIDE DEF p, q
      <4> QED
        BY <1>3, <1>4, <1>5, <4>3
    <3> QED
      BY <3>2, <3>3
  <2>2. d + DaysPerWeek <= e
    <3>1. d = DaysPerWeek * (d \div DaysPerWeek) + s.day /\ d \div DaysPerWeek \in Int
      BY <1>1, <1>3, Division
    <3>2. e = DaysPerWeek * (e \div DaysPerWeek) + s.day /\ e \div DaysPerWeek \in Int
      BY <1>2, <1>3, Division
    <3> DEFINE m == d \div DaysPerWeek
    <3> DEFINE n == e \div DaysPerWeek
    <3>3. m \in Int /\ n \in Int /\ s.day \in Int /\ d = m * DaysPerWeek + s.day
          /\ e = n * DaysPerWeek + s.day
      BY <1>3, <3>1, <3>2, ScheduleFields
    <3> HIDE DEF m, n
    <3>4. m < n
      <4>1. n <= m => n * DaysPerWeek <= m * DaysPerWeek
        BY <1>3, <3>3, MultipleOrder
      <4>2. n * DaysPerWeek \in Int /\ m * DaysPerWeek \in Int
        BY <1>3, <3>3
      <4> QED
        BY <2>1, <3>3, <4>1, <4>2
    <3>5. (m + 1) * DaysPerWeek <= n * DaysPerWeek /\ n * DaysPerWeek \in Int
      BY <1>3, <3>3, <3>4, MultipleOrder
    <3>6. (m + 1) * DaysPerWeek = m * DaysPerWeek + DaysPerWeek /\ m * DaysPerWeek \in Int
      BY <1>3, <3>3
    <3> QED
      BY <1>3, <3>3, <3>5, <3>6
  <2>3. (d + DaysPerWeek) * HoursPerDay <= q
    BY <1>3, <2>2, MultipleOrder
  <2>4. /\ (d + DaysPerWeek) * HoursPerDay = p + (DaysPerWeek - 1) * HoursPerDay + HoursPerDay
        /\ (DaysPerWeek - 1) * HoursPerDay \in Int
    BY <1>3
  <2> DEFINE apart == (DaysPerWeek - 1) * HoursPerDay
  <2>5. apart \in Int /\ p + apart + HoursPerDay <= q /\ MaxLag <= apart
    BY <2>3, <2>4 DEF ShortLag
  <2> HIDE DEF p, q, apart
  <2> QED
    BY <1>3, <1>4, <2>5
<1> QED
  BY <1>4, <1>5

\* What is claimed was reached; the row holds a slot nobody claimed, and lags by MaxLag at
\* most behind what was; what a worker or a save holds is at most that old.
ClaimInv ==
    /\ \A c \in claimed : c <= clock
    /\ \A w \in Workers : worker[w].stage \in Reading =>
          worker[w].now <= clock /\ worker[w].row.next_run_at <= worker[w].now + MaxLag
    /\ \A o \in Owners : save[o].stage = "loaded" => clock <= save[o].now + MaxLag
    /\ settings.next_run_at # NULL =>
          /\ settings.next_run_at \notin claimed
          /\ \A c \in claimed : c < settings.next_run_at + MaxLag

(* Nothing is claimed, read or saved at first.                              *)
LEMMA ClaimsInit == Init => ClaimInv
<1> SUFFICES ASSUME Init PROVE ClaimInv
  OBVIOUS
<1>1. \A w \in Workers : worker[w].stage = "asleep"
  BY DefaultsAreTyped DEF Init
<1>2. \A o \in Owners : save[o].stage = "none"
  BY DefaultsAreTyped DEF Init
<1>3. claimed = {}
  BY DEF Init
<1> QED
  BY <1>1, <1>2, <1>3 DEF ClaimInv, Reading

(* An owner stores a slot after an instant that is at most MaxLag ago, and  *)
(* with it the slot is nobody's again.                                      *)
LEMMA OwnerClaims ==
    ASSUME TypeOK, ClaimInv, NEW o \in Owners, LoadSettings(o) \/ Upsert(o)
    PROVE  ClaimInv'
<1>0. UNCHANGED worker /\ MaxLag \in Nat /\ clock \in Nat
  BY OwnerTypes, SchedulerAssumption, InstantsAreNumbers DEF TypeOK
<1>1. CASE LoadSettings(o)
  <2>1. PICK enabled \in BOOLEAN, schedule \in [cadence : Choices, day : Days, hour : Hours] :
          save' = [save EXCEPT ![o] =
             [stage |-> "loaded", now |-> clock, enabled |-> enabled, schedule |-> schedule,
              paused |-> settings.paused, last_run_at |-> settings.last_run_at]]
    BY <1>1 DEF LoadSettings
  <2>2. save'[o].now = clock /\ \A p \in Owners : p # o => save'[p] = save[p]
    BY <2>1 DEF TypeOK
  <2>3. UNCHANGED <<clock, settings, claimed>>
    BY <1>1 DEF LoadSettings
  <2>4. \A p \in Owners : save'[p].stage = "loaded" => clock <= save'[p].now + MaxLag
    BY <1>0, <2>2 DEF ClaimInv
  <2> QED
    BY <1>0, <2>3, <2>4 DEF ClaimInv
<1>2. CASE Upsert(o)
  <2> DEFINE s == save[o]
  <2> DEFINE next == IF s.enabled THEN compute_next_run(s.schedule, s.now, s.last_run_at) ELSE NULL
  <2>1. /\ settings' = Stored(s, next) /\ save' = [save EXCEPT ![o] = NoSave] /\ s.stage = "loaded"
        /\ claimed' = claimed \ {next} /\ UNCHANGED clock
    BY <1>2, Zenon DEF Upsert
  <2>2. s \in Saves
    BY DEF TypeOK
  <2>3. s.schedule \in Schedules /\ s.now \in Instants /\ s.last_run_at \in Instants \union {NULL}
    BY <2>2, Zenon DEF Saves
  <2>4. next \in Slots /\ (next # NULL => next \in Nat /\ next > s.now)
    <3>1. /\ compute_next_run(s.schedule, s.now, s.last_run_at) \in Nat
          /\ compute_next_run(s.schedule, s.now, s.last_run_at) > s.now
      <4> HIDE DEF s
      <4> QED
        BY <2>3, NextRunIsASlot
    <3> QED
      BY <3>1 DEF Slots
  <2>5. clock <= s.now + MaxLag
    BY <2>1 DEF ClaimInv
  <2> HIDE DEF next, s
  <2>6. settings'.next_run_at = next
    BY <2>1, <2>2, <2>4, StoredEffect DEF TypeOK
  <2>7. \A p \in Owners : p # o => save'[p] = save[p]
    BY <2>1 DEF TypeOK
  <2>8. save'[o].stage = "none"
    BY <2>1, DefaultsAreTyped DEF TypeOK
  <2>9. \A p \in Owners : save'[p].stage = "loaded" => clock' <= save'[p].now + MaxLag
    BY <2>1, <2>7, <2>8 DEF ClaimInv
  <2>10. ASSUME next # NULL, NEW c \in claimed' PROVE c < next + MaxLag
    <3>1. c \in Nat /\ c <= clock /\ s.now \in Nat
      BY <2>1, <2>3, <2>10, InstantsAreNumbers DEF TypeOK, ClaimInv
    <3> QED
      BY <1>0, <2>4, <2>5, <2>10, <3>1
  <2>11. \A c \in claimed' : c <= clock'
    BY <2>1 DEF ClaimInv
  <2>12. next \notin claimed'
    BY <2>1
  <2> QED
    BY <1>0, <2>1, <2>6, <2>9, <2>10, <2>11, <2>12 DEF ClaimInv
<1> QED
  BY <1>1, <1>2

(* The slot a claim stores is later than the tick's now.                    *)
LEMMA FollowingIsLater ==
    ASSUME TypeOK, NEW w \in Workers
    PROVE  Following(w) > worker[w].now /\ worker[w].now \in Nat
<1>1. worker[w] \in Ticks
  BY DEF TypeOK
<1>2. worker[w].row \in AutomationSetting /\ worker[w].now \in Instants
  BY <1>1, Zenon DEF Ticks
<1>3. worker[w].row.schedule \in Schedules /\ worker[w].row.last_run_at \in Instants \union {NULL}
  BY <1>2, RowFields
<1>4. compute_next_run(worker[w].row.schedule, worker[w].now, worker[w].row.last_run_at) > worker[w].now
  BY <1>2, <1>3, NextRunIsASlot
<1> QED
  BY <1>2, <1>4, InstantsAreNumbers DEF Following

(* A claim moves the row past every slot claimed before it.                 *)
LEMMA ClaimMovesOn ==
    ASSUME TypeOK, TickInv, SlotsInv, ShortLag, ClaimInv, NEW w \in Workers,
           worker[w].stage = "allowed", settings.next_run_at = worker[w].row.next_run_at, Advance(w)
    PROVE  /\ settings'.next_run_at \notin claimed'
           /\ \A c \in claimed' : c < settings'.next_run_at + MaxLag /\ c <= clock
<1> DEFINE slot == worker[w].row.next_run_at
<1> DEFINE now == worker[w].now
<1> DEFINE next == Following(w)
<1>1. /\ settings'.next_run_at = next /\ next \in Nat
      /\ OnSchedule(worker[w].row.schedule, next)
      /\ claimed' \subseteq claimed \union {slot}
      /\ now >= slot \/ claimed' = claimed
  BY AdvanceEffect
<1>2. /\ slot # NULL /\ OnSchedule(worker[w].row.schedule, slot)
      /\ now <= clock /\ slot <= now + MaxLag
      /\ slot \notin claimed /\ \A c \in claimed : c < slot + MaxLag /\ c <= clock
  BY DEF TickInv, SlotsInv, ClaimInv, Reading
<1>3. worker[w].row.schedule \in Schedules
  <2>1. worker[w].row \in AutomationSetting
    BY Zenon DEF TypeOK, Ticks
  <2> QED
    BY <2>1, RowFields
<1>4. /\ slot \in Int /\ next \in Int
      /\ (slot < next => slot + MaxLag < next) /\ (next < slot => next + MaxLag < slot)
  BY <1>1, <1>2, <1>3, SlotsApart
<1>5. next > now /\ now \in Nat
  BY FollowingIsLater
<1>6. claimed \subseteq Nat /\ clock \in Nat /\ MaxLag \in Nat
  BY SchedulerAssumption, InstantsAreNumbers DEF TypeOK
<1> HIDE DEF slot, now, next
<1>7. CASE next = slot
  <2>1. claimed' = claimed
    BY <1>1, <1>4, <1>5, <1>7
  <2> QED
    BY <1>1, <1>2, <1>7, <2>1
<1>8. CASE slot < next
  <2>1. ASSUME NEW c \in claimed' PROVE c < next /\ c <= clock /\ c \in Int
    <3>1. CASE c \in claimed
      <4>1. c < slot + MaxLag /\ c \in Int /\ c <= clock
        BY <1>2, <1>6, <3>1
      <4> QED
        BY <1>4, <1>6, <1>8, <4>1
    <3>2. CASE c \notin claimed
      <4>1. c = slot /\ now >= slot
        BY <1>1, <2>1, <3>2
      <4> QED
        BY <1>2, <1>4, <1>5, <1>6, <1>8, <4>1
    <3> QED
      BY <3>1, <3>2
  <2>2. \A c \in claimed' : c < next + MaxLag /\ c <= clock
    BY <1>4, <1>6, <2>1
  <2>3. next \notin claimed'
    BY <1>4, <2>1
  <2> QED
    BY <1>1, <2>2, <2>3
<1>9. CASE next < slot
  BY <1>2, <1>4, <1>5, <1>6, <1>9
<1> QED
  BY <1>4, <1>7, <1>8, <1>9

(* A worker's steps.                                                        *)
LEMMA WorkerClaims ==
    ASSUME TypeOK, TickInv, SlotsInv, ShortLag, ClaimInv, NEW w \in Workers, WorkerStep(w) \/ Die(w)
    PROVE  ClaimInv'
<1>0. /\ worker \in [Workers -> Ticks] /\ worker[w] \in Ticks
      /\ \A v \in Workers : v # w => worker'[v] = worker[v]
      /\ UNCHANGED <<clock, save>>
  BY WorkerTypes DEF TypeOK, WorkerStep, ReadDue, CheckCeiling, pause_automation, Claim, StartRun, Die
<1>1. worker'[w].stage \in Reading =>
          worker'[w].now <= clock /\ worker'[w].row.next_run_at <= worker'[w].now + MaxLag
  <2>1. ASSUME Sleep(w) PROVE worker'[w].stage \notin Reading
    BY <1>0, <2>1, DefaultsAreTyped DEF Sleep, Reading
  <2>2. ASSUME NEW stage \in Stages \ Reading, To(w, stage) PROVE worker'[w].stage \notin Reading
    <3>1. worker'[w] = [Asleep EXCEPT !.stage = stage]
      BY <1>0, <2>2 DEF To
    <3> QED
      BY <3>1, Forgotten
  <2>3. CASE ReadDue(w)
    <3>1. PICK now \in Instants :
            /\ now <= clock /\ clock <= now + MaxLag
            /\ worker' = [worker EXCEPT ![w] = [stage |-> "due", now |-> now, row |-> settings]]
      BY <2>3 DEF ReadDue
    <3>2. worker'[w].now = now /\ worker'[w].row = settings
      BY <1>0, <3>1
    <3>3. settings.next_run_at # NULL /\ settings.next_run_at <= clock
      BY <2>3 DEF ReadDue, IsDue
    <3>4. settings.next_run_at \in Nat /\ clock \in Nat /\ now \in Nat /\ MaxLag \in Nat
      BY <3>3, RowFields, SchedulerAssumption, InstantsAreNumbers DEF TypeOK, Slots
    <3> QED
      BY <3>1, <3>2, <3>3, <3>4
  <2>4. CASE CheckCeiling(w)
    <3>1. worker[w].stage \in Reading
      BY <2>4 DEF CheckCeiling, Reading
    <3>2. CASE worker' = [worker EXCEPT ![w].stage = "allowed"]
      <4>1. worker'[w].now = worker[w].now /\ worker'[w].row = worker[w].row
        BY <1>0, <3>2 DEF Ticks
      <4> QED
        BY <3>1, <4>1 DEF ClaimInv
    <3> QED
      BY <2>2, <2>4, <3>2 DEF CheckCeiling, Stages, Reading
  <2>5. CASE Claim(w)
    BY <2>1, <2>2, <2>5 DEF Claim, Stages, Reading
  <2> QED
    BY <2>1, <2>3, <2>4, <2>5 DEF WorkerStep, pause_automation, StartRun, Die
<1>2. /\ \A c \in claimed' : c <= clock
      /\ settings'.next_run_at # NULL =>
            /\ settings'.next_run_at \notin claimed'
            /\ \A c \in claimed' : c < settings'.next_run_at + MaxLag
  <2>1. CASE UNCHANGED <<settings, claimed>>
    BY <2>1 DEF ClaimInv
  <2>2. CASE pause_automation(w)
    <3>1. /\ settings' = [settings EXCEPT !.paused = TRUE] /\ UNCHANGED claimed
          /\ settings \in AutomationSetting
      BY <2>2 DEF pause_automation, TypeOK
    <3>2. settings'.next_run_at = settings.next_run_at
      BY <3>1 DEF AutomationSetting
    <3> QED
      BY <3>1, <3>2 DEF ClaimInv
  <2>3. CASE Claim(w) /\ settings.next_run_at = worker[w].row.next_run_at
    <3>1. Advance(w) /\ worker[w].stage = "allowed"
      BY <2>3 DEF Claim
    <3> QED
      BY <2>3, <3>1, ClaimMovesOn
  <2> QED
    BY <2>1, <2>2, <2>3 DEF WorkerStep, ReadDue, CheckCeiling, Claim, StartRun, Die
<1>3. \A v \in Workers : worker'[v].stage \in Reading =>
          worker'[v].now <= clock /\ worker'[v].row.next_run_at <= worker'[v].now + MaxLag
  BY <1>0, <1>1 DEF ClaimInv
<1> QED
  BY <1>0, <1>2, <1>3 DEF ClaimInv

(* Time passes only while no save outlasts the lag.                         *)
LEMMA PassClaims ==
    ASSUME TypeOK, ClaimInv, Pass
    PROVE  ClaimInv'
<1>1. /\ clock' = clock + 1 /\ UNCHANGED <<settings, worker, save, claimed>>
      /\ \A o \in Owners : save[o].stage = "loaded" => clock < save[o].now + MaxLag
  BY DEF Pass
<1>2. clock \in Nat /\ claimed \subseteq Nat /\ MaxLag \in Nat
  BY SchedulerAssumption, InstantsAreNumbers DEF TypeOK
<1>3. \A c \in claimed : c <= clock + 1
  BY <1>2 DEF ClaimInv
<1>4. ASSUME NEW w \in Workers, worker[w].stage \in Reading PROVE worker[w].now <= clock + 1
  <2>1. worker[w].now \in Nat /\ worker[w].now <= clock
    BY <1>4, FollowingIsLater DEF ClaimInv
  <2> QED
    BY <1>2, <2>1
<1>5. ASSUME NEW o \in Owners, save[o].stage = "loaded" PROVE clock + 1 <= save[o].now + MaxLag
  <2>1. save[o].now \in Nat
    BY InstantsAreNumbers, Zenon DEF TypeOK, Saves
  <2> QED
    BY <1>1, <1>2, <1>5, <2>1
<1> QED
  BY <1>1, <1>3, <1>4, <1>5 DEF ClaimInv

(* scheduler: the conditional UPDATE "makes exactly one of them win".  With *)
(* any number of workers, saves and deaths, no slot whose hour has struck   *)
(* is claimed a second time before an owner stores it again: a claim moves  *)
(* the row past every slot claimed before, and a save that computed an      *)
(* earlier slot is at most a lag behind.                                    *)
THEOREM ReachedSlotsAreClaimedOnce ==
    ASSUME NoSkippedHour, ShortLag PROVE Spec => ReachedSlotIsClaimedOnce
<1> DEFINE Inv == TypeOK /\ TickInv /\ SlotsInv
<1>1. Spec => []Inv
  BY SlotsHold
<1>2. Inv /\ ClaimInv /\ [Next]_vars => ClaimInv'
  <2> SUFFICES ASSUME Inv, ClaimInv, [Next]_vars PROVE ClaimInv'
    OBVIOUS
  <2>1. ASSUME NEW o \in Owners, LoadSettings(o) \/ Upsert(o) PROVE ClaimInv'
    BY <2>1, OwnerClaims
  <2>2. ASSUME NEW w \in Workers, WorkerStep(w) \/ Die(w) PROVE ClaimInv'
    BY <2>2, WorkerClaims
  <2>3. CASE Pass
    BY <2>3, PassClaims
  <2>4. CASE UNCHANGED vars
    BY <2>4 DEF vars, ClaimInv
  <2> QED
    BY <2>1, <2>2, <2>3, <2>4 DEF Next
<1>3. Inv /\ ClaimInv /\ [Next]_vars =>
          [\A w \in Workers : Claims(w) => worker[w].row.next_run_at \notin claimed]_vars
  <2> SUFFICES ASSUME Inv, ClaimInv, Next, NEW w \in Workers, Claims(w)
               PROVE  worker[w].row.next_run_at \notin claimed
    OBVIOUS
  <2>1. worker[w].row.next_run_at # NULL /\ settings.next_run_at = worker[w].row.next_run_at
    BY ClaimIsAStep
  <2> QED
    BY <2>1 DEF ClaimInv
<1>4. Spec => []ClaimInv
  BY <1>1, <1>2, ClaimsInit, PTL DEF Spec
<1> QED
  BY <1>1, <1>3, <1>4, PTL DEF Spec, ReachedSlotIsClaimedOnce

=============================================================================
