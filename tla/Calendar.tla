------------------------------ MODULE Calendar ------------------------------
(***************************************************************************)
(* The dates of one recurring rule, as RecurringService.advanceDate and    *)
(* Go's time.AddDate compute them: what module Recurring, where a period   *)
(* is a number of days, leaves out.  A run is one step here; runs that     *)
(* overlap are the subject of Recurring.                                   *)
(***************************************************************************)
EXTENDS Integers

CONSTANTS
  Starts,      \* the start dates a rule may have
  Frequencies, \* those in use, of "daily", "weekly" and "monthly"
  Counts,      \* the interval_counts a request may carry
  Ends,        \* the end dates a rule may have, and Null
  Null,        \* no end date
  MaxRuns,     \* bound: runs after the owner last touched the rule
  MaxTouches   \* bound: how often the owner touches the rule

-----------------------------------------------------------------------------
(* time.Time *)

Leap(y) == (y % 4 = 0 /\ y % 100 # 0) \/ y % 400 = 0

DaysIn(y, m) ==
  CASE m = 2                -> IF Leap(y) THEN 29 ELSE 28
    [] m \in {4, 6, 9, 11}  -> 30
    [] OTHER                -> 31

(* Every date is one of the calendar.                                      *)
Dates == {t \in [y : Nat, m : 1..12, d : 1..31] : t.d <= DaysIn(t.y, t.m)}

Month(t) == 12 * t.y + t.m - 1

InMonth(month, d) == [y |-> month \div 12, m |-> (month % 12) + 1, d |-> d]

(* Days beyond the end of the month go into the next one.                  *)
Normalise(t) ==
  LET Carry[u \in [y : Nat, m : 1..12, d : Nat]] ==
        IF u.d <= DaysIn(u.y, u.m)
        THEN u
        ELSE Carry[InMonth(Month(u) + 1, u.d - DaysIn(u.y, u.m))]
  IN  Carry[t]

(* Mutant: a date after the month's last day becomes its last day.         *)
AddClamped(t, months, days) ==
  LET u == InMonth(Month(t) + months, t.d + days)
  IN  IF days = 0 /\ u.d > DaysIn(u.y, u.m)
      THEN [u EXCEPT !.d = DaysIn(u.y, u.m)]
      ELSE Normalise(u)

(* Mutant: no normalisation.                                               *)
AddRaw(t, months, days) == InMonth(Month(t) + months, t.d + days)

AddDate(t, months, days) == Normalise(InMonth(Month(t) + months, t.d + days))

(* The order of the strings "2006-01-02", of years of four digits.         *)
Before(t, u) ==
  \/ t.y < u.y
  \/ t.y = u.y /\ t.m < u.m
  \/ t.y = u.y /\ t.m = u.m /\ t.d < u.d

-----------------------------------------------------------------------------
(* The columns are of type DATE, the count is one of INT, and the request's*)
(* frequency is validated.                                                 *)
ASSUME DateAssumption ==
  Starts \subseteq Dates /\ Ends \subseteq Dates \cup {Null} /\ Null \notin Dates
ASSUME FrequencyAssumption == Frequencies \subseteq {"daily", "weekly", "monthly"}
ASSUME BoundAssumption == Counts \subseteq Int /\ MaxRuns \in Nat /\ MaxTouches \in Nat

VARIABLES
  next,       \* recurring_rules.next_run_at
  frequency,  \* recurring_rules.frequency
  count,      \* recurring_rules.interval_count
  end,        \* recurring_rules.end_date
  active,     \* recurring_rules.active
  anchor,     \* history: next when the owner last touched the rule
  ran,        \* history: the runs since
  touches     \* history: how often the owner touched it

vars == <<next, frequency, count, end, active, anchor, ran, touches>>

Interval(n) == IF n <= 0 THEN 1 ELSE n

(* RecurringService.Create, then RecurringRepository.Create.               *)
Init ==
  /\ next \in Starts
  /\ frequency \in Frequencies
  /\ \E n \in Counts : count = Interval(n)
  /\ end \in Ends
  /\ active = TRUE
  /\ anchor = next
  /\ ran = 0
  /\ touches = 0

Touch ==
  /\ touches < MaxTouches
  /\ touches' = touches + 1
  /\ anchor' = next
  /\ ran' = 0
  /\ UNCHANGED next

(* Update leaves next_run_at and active as they are.                       *)
Update ==
  /\ Touch
  /\ frequency' \in Frequencies
  /\ \E n \in Counts : count' = Interval(n)
  /\ end' \in Ends
  /\ UNCHANGED active

SetActive ==
  /\ Touch
  /\ active' \in BOOLEAN
  /\ UNCHANGED <<frequency, count, end>>

(* Mutant: a month is 31 days.                                             *)
AdvanceByDays(t) ==
  CASE frequency = "daily"   -> AddDate(t, 0, count)
    [] frequency = "weekly"  -> AddDate(t, 0, 7 * count)
    [] frequency = "monthly" -> AddDate(t, 0, 31 * count)

Advance(t) ==
  CASE frequency = "daily"   -> AddDate(t, 0, count)
    [] frequency = "weekly"  -> AddDate(t, 0, 7 * count)
    [] frequency = "monthly" -> AddDate(t, count, 0)

(* Mutant: the end date itself is no longer run.                           *)
OverOnEnd(t) == end # Null /\ ~Before(t, end)

Over(t) == end # Null /\ Before(end, t)

(* RunDue for the rule's next date, materialized, with AdvanceRun.         *)
Run ==
  /\ active
  /\ ran < MaxRuns
  /\ next' = Advance(next)
  /\ active' = ~Over(next')
  /\ ran' = ran + 1
  /\ UNCHANGED <<frequency, count, end, anchor, touches>>

Next == Run \/ Update \/ SetActive

Spec == Init /\ [][Next]_vars

-----------------------------------------------------------------------------
(* Reference: the number of a date, counted from 1 January of the year 1.  *)
DayNumber(t) ==
  365 * (t.y - 1) + (t.y - 1) \div 4 - (t.y - 1) \div 100 + (t.y - 1) \div 400
  + (367 * t.m - 362) \div 12
  - (IF t.m <= 2 THEN 0 ELSE IF Leap(t.y) THEN 1 ELSE 2)
  + t.d

TypeOK ==
  /\ next \in Dates /\ anchor \in Dates
  /\ frequency \in {"daily", "weekly", "monthly"}
  /\ count \in Nat \ {0}
  /\ end \in Dates \cup {Null}
  /\ active \in BOOLEAN
  /\ ran \in 0..MaxRuns
  /\ touches \in 0..MaxTouches

(* How many months a monthly rule has passed over since it was touched.    *)
MonthsLost == Month(next) - Month(anchor) - count * ran

(* However long advanceDate goes on, with leap years and turns of the year *)
(* on the way, a daily or a weekly rule is exactly on its days, and a      *)
(* monthly one, which AddDate may carry over the end of a short month, has *)
(* passed over at most one month in its life.                              *)
OnSchedule ==
  CASE frequency = "daily"   -> DayNumber(next) = DayNumber(anchor) + count * ran
    [] frequency = "weekly"  -> DayNumber(next) = DayNumber(anchor) + 7 * count * ran
    [] frequency = "monthly" -> MonthsLost \in {0, 1}

(* AddDate in advanceDate: a monthly rule keeps its day of the month until *)
(* it loses a month, which only one after the 28th can; from then on it    *)
(* runs on one of the first three days of the month, for ever.             *)
DriftsOnce ==
  frequency = "monthly" =>
    \/ MonthsLost = 0 /\ next.d = anchor.d
    \/ MonthsLost = 1 /\ anchor.d > 28 /\ next.d <= 3

(* A rule its owner leaves alone runs on its end date, if that is one of   *)
(* its days, and never after it: the comparison of strings in advanceDate  *)
(* is that of dates.  What the owner changes, of the end date or of active,*)
(* shows one run later.                                                    *)
RunsToItsEnd ==
  ran > 0 /\ end # Null => (active <=> DayNumber(next) <= DayNumber(end))
=============================================================================
