--------------------------- MODULE CalendarProofs ---------------------------
(***************************************************************************)
(* Theorems about Calendar, for any sets of dates, counts and any bounds.  *)
(* DayNumber, which AddDate knows nothing of, orders and counts the dates; *)
(* that a normalisation ends, and where, follows from it.                  *)
(***************************************************************************)
EXTENDS Calendar, Totals

(* What AddDate normalises: a month, and a day that may be beyond its end. *)
Loose == [y : Nat, m : 1..12, d : Nat]

(* One step of it.                                                         *)
Carried(u) == InMonth(Month(u) + 1, u.d - DaysIn(u.y, u.m))

(* The parts of a day's number.                                            *)
YearDays(y) == 365 * (y - 1) + (y - 1) \div 4 - (y - 1) \div 100 + (y - 1) \div 400

MonthDays(y, m) ==
  (367 * m - 362) \div 12 - (IF m <= 2 THEN 0 ELSE IF Leap(y) THEN 1 ELSE 2)

-----------------------------------------------------------------------------
(* The calendar *)

LEMMA DaysInMonth == ASSUME NEW y, NEW m PROVE DaysIn(y, m) \in 28..31
BY DEF DaysIn

LEMMA InMonthParts ==
  ASSUME NEW y \in Nat, NEW m \in 1..12, NEW d
  PROVE  InMonth(12 * y + m - 1, d) = [y |-> y, m |-> m, d |-> d]
BY DEF InMonth

LEMMA LooseParts ==
  ASSUME NEW t \in Loose
  PROVE  t.y \in Nat /\ t.m \in 1..12 /\ t.d \in Nat /\ t = [y |-> t.y, m |-> t.m, d |-> t.d]
BY DEF Loose

LEMMA DateIsLoose ==
  ASSUME NEW t \in Dates
  PROVE  t \in Loose /\ t.d \in 1..31 /\ t.d <= DaysIn(t.y, t.m)
BY DEF Dates, Loose

LEMMA LooseIsDate ==
  ASSUME NEW t \in Loose, 1 <= t.d, t.d <= DaysIn(t.y, t.m)
  PROVE  t \in Dates
<1>1. t.d \in 1..31
  BY DaysInMonth, LooseParts
<1>2. QED
  BY <1>1, LooseParts DEF Dates

LEMMA DayNumberParts ==
  ASSUME NEW t \in Loose
  PROVE  DayNumber(t) = YearDays(t.y) + MonthDays(t.y, t.m) + t.d
<1>1. Leap(t.y) \in BOOLEAN
  BY DEF Leap
<1>2. QED
  BY LooseParts DEF DayNumber, YearDays, MonthDays

LEMMA YearsAndMonths ==
  ASSUME NEW y \in Nat, NEW m \in 1..12
  PROVE  YearDays(y) \in Int /\ MonthDays(y, m) \in Int
BY DEF YearDays, MonthDays

LEMMA DayNumberInt == ASSUME NEW t \in Loose PROVE DayNumber(t) \in Int
BY DayNumberParts, YearsAndMonths, LooseParts

(* A month begins when the one before it has ended.                        *)
LEMMA NextMonth ==
  ASSUME NEW y \in Nat, NEW m \in 1..11
  PROVE  MonthDays(y, m + 1) = MonthDays(y, m) + DaysIn(y, m)
<1>1. Leap(y) \in BOOLEAN
  BY DEF Leap
<1>2. m \in {1, 2, 3, 4, 5, 6, 7, 8, 9, 10, 11}
  OBVIOUS
<1>3. CASE m \in {1, 2}
  BY <1>3, <1>1 DEF MonthDays, DaysIn
<1>4. CASE m \notin {1, 2}
  BY <1>4, <1>1, <1>2 DEF MonthDays, DaysIn
<1>5. QED
  BY <1>3, <1>4

LEMMA NextYear ==
  ASSUME NEW y \in Nat
  PROVE  YearDays(y + 1) + MonthDays(y + 1, 1)
           = YearDays(y) + MonthDays(y, 12) + DaysIn(y, 12)
<1>1. y \div 4 - y \div 100 + y \div 400
        = (y - 1) \div 4 - (y - 1) \div 100 + (y - 1) \div 400 + (IF Leap(y) THEN 1 ELSE 0)
  BY DEF Leap
<1>2. (y + 1) - 1 = y
  OBVIOUS
<1>3. YearDays(y + 1) = YearDays(y) + (IF Leap(y) THEN 366 ELSE 365)
  BY <1>1, <1>2 DEF YearDays
<1>4. MonthDays(y + 1, 1) = 0
  BY DEF MonthDays
<1>5. MonthDays(y, 12) = IF Leap(y) THEN 335 ELSE 334
  BY DEF MonthDays
<1>6. DaysIn(y, 12) = 31
  BY DEF DaysIn
<1>7. YearDays(y) \in Int
  BY YearsAndMonths
<1>8. QED
  BY <1>3, <1>4, <1>5, <1>6, <1>7

-----------------------------------------------------------------------------
(* DayNumber counts the dates in their order *)

LEMMA MonthsInOrder ==
  ASSUME NEW y \in Nat, NEW m \in 1..12, NEW n \in 1..12, m < n
  PROVE  MonthDays(y, m) + DaysIn(y, m) <= MonthDays(y, n)
<1>1. Leap(y) \in BOOLEAN
  BY DEF Leap
<1>2. m \in 1..11 /\ m + 1 <= n /\ m + 1 \in 1..12
  OBVIOUS
<1>3. MonthDays(y, m + 1) <= MonthDays(y, n)
  BY <1>1, <1>2 DEF MonthDays
<1>4. QED
  BY <1>2, <1>3, NextMonth

LEMMA MonthInYear ==
  ASSUME NEW y \in Nat, NEW m \in 1..12
  PROVE  /\ 0 <= MonthDays(y, m)
         /\ MonthDays(y, m) + DaysIn(y, m) <= YearDays(y + 1) - YearDays(y)
<1>1. Leap(y) \in BOOLEAN
  BY DEF Leap
<1>2. 0 <= MonthDays(y, m)
  BY <1>1 DEF MonthDays
<1>3. MonthDays(y + 1, 1) = 0
  BY DEF MonthDays
<1>4. /\ DaysIn(y, 12) \in Int /\ MonthDays(y, 12) \in Int
      /\ YearDays(y) \in Int /\ YearDays(y + 1) \in Int
  BY DaysInMonth, YearsAndMonths
<1>5. MonthDays(y, 12) + DaysIn(y, 12) <= YearDays(y + 1) - YearDays(y)
  BY <1>3, <1>4, NextYear
<1>6. CASE m = 12
  BY <1>2, <1>5, <1>6
<1>7. CASE m < 12
  <2>1. MonthDays(y, m) + DaysIn(y, m) <= MonthDays(y, 12)
    BY <1>7, MonthsInOrder
  <2>2. DaysIn(y, 12) \in 28..31 /\ DaysIn(y, m) \in 28..31
    BY DaysInMonth
  <2>3. MonthDays(y, m) \in Int
    BY YearsAndMonths
  <2>4. QED
    BY <1>2, <1>4, <1>5, <2>1, <2>2, <2>3
<1>8. QED
  BY <1>6, <1>7

LEMMA YearsInOrder ==
  ASSUME NEW y \in Nat, NEW z \in Nat, y < z
  PROVE  YearDays(y + 1) <= YearDays(z)
BY DEF YearDays

LEMMA BeforeIsLess ==
  ASSUME NEW t \in Dates, NEW u \in Dates, Before(t, u)
  PROVE  DayNumber(t) < DayNumber(u)
<1> DEFINE Start(s) == YearDays(s.y) + MonthDays(s.y, s.m)
<1>1. \A s \in Dates : /\ s.y \in Nat /\ s.m \in 1..12 /\ s.d \in 1..31
                       /\ s.d <= DaysIn(s.y, s.m) /\ DaysIn(s.y, s.m) \in 28..31
  BY DateIsLoose, LooseParts, DaysInMonth
<1>2. \A s \in Dates : /\ DayNumber(s) = Start(s) + s.d
                       /\ YearDays(s.y) \in Int /\ MonthDays(s.y, s.m) \in Int
  BY <1>1, DateIsLoose, DayNumberParts, YearsAndMonths
<1>3. CASE t.y < u.y
  <2>1. MonthDays(t.y, t.m) + DaysIn(t.y, t.m) <= YearDays(t.y + 1) - YearDays(t.y)
    BY <1>1, MonthInYear
  <2>2. YearDays(t.y + 1) <= YearDays(u.y) /\ 0 <= MonthDays(u.y, u.m)
    BY <1>1, <1>3, YearsInOrder, MonthInYear
  <2>3. YearDays(t.y + 1) \in Int
    BY <1>1 DEF YearDays
  <2>4. QED
    BY <1>1, <1>2, <2>1, <2>2, <2>3
<1>4. CASE t.y = u.y /\ t.m < u.m
  <2>1. MonthDays(t.y, t.m) + DaysIn(t.y, t.m) <= MonthDays(u.y, u.m)
    BY <1>1, <1>4, MonthsInOrder
  <2>2. YearDays(t.y) = YearDays(u.y)
    BY <1>4
  <2>3. QED
    BY <1>1, <1>2, <2>1, <2>2
<1>5. CASE t.y = u.y /\ t.m = u.m /\ t.d < u.d
  BY <1>1, <1>2, <1>5
<1>6. QED
  BY <1>3, <1>4, <1>5 DEF Before

LEMMA Ordered ==
  ASSUME NEW t \in Dates, NEW u \in Dates
  PROVE  Before(t, u) \/ t = u \/ Before(u, t)
<1>1. t \in Loose /\ u \in Loose
  BY DateIsLoose
<1>2. /\ t.y \in Nat /\ t.m \in 1..12 /\ t.d \in Nat /\ t = [y |-> t.y, m |-> t.m, d |-> t.d]
      /\ u.y \in Nat /\ u.m \in 1..12 /\ u.d \in Nat /\ u = [y |-> u.y, m |-> u.m, d |-> u.d]
  BY <1>1, LooseParts
<1>3. t.y = u.y /\ t.m = u.m /\ t.d = u.d => t = u
  BY <1>2
<1>4. QED
  BY <1>2, <1>3 DEF Before

(* The comparison of the strings is that of the days.                      *)
LEMMA BeforeIsEarlier ==
  ASSUME NEW t \in Dates, NEW u \in Dates
  PROVE  Before(t, u) <=> DayNumber(t) < DayNumber(u)
<1>1. DayNumber(t) \in Int /\ DayNumber(u) \in Int
  BY DateIsLoose, DayNumberInt
<1>2. Before(u, t) => DayNumber(u) < DayNumber(t)
  BY BeforeIsLess
<1>3. QED
  BY <1>1, <1>2, BeforeIsLess, Ordered

(* Every date has a number of its own.                                     *)
LEMMA NumbersAreUnique ==
  ASSUME NEW t \in Dates, NEW u \in Dates, DayNumber(t) = DayNumber(u)
  PROVE  t = u
<1>1. DayNumber(t) \in Int /\ DayNumber(u) \in Int
  BY DateIsLoose, DayNumberInt
<1>2. ~Before(t, u) /\ ~Before(u, t)
  BY <1>1, BeforeIsEarlier
<1>3. QED
  BY <1>2, Ordered

-----------------------------------------------------------------------------
(* AddDate *)

(* A day carried into the next month is the same day.                      *)
LEMMA CarriedSame ==
  ASSUME NEW u \in Loose, DaysIn(u.y, u.m) < u.d
  PROVE  /\ Carried(u) \in Loose
         /\ 1 <= Carried(u).d /\ Carried(u).d < u.d
         /\ DayNumber(Carried(u)) = DayNumber(u)
         /\ Month(Carried(u)) = Month(u) + 1
<1> DEFINE e == u.d - DaysIn(u.y, u.m)
<1>1. u.y \in Nat /\ u.m \in 1..12 /\ u.d \in Nat /\ DaysIn(u.y, u.m) \in 28..31
  BY LooseParts, DaysInMonth
<1>2. e \in Nat /\ 1 <= e /\ e < u.d
  BY <1>1
<1>3. DayNumber(u) = YearDays(u.y) + MonthDays(u.y, u.m) + u.d
  BY DayNumberParts
<1>4. YearDays(u.y) \in Int /\ MonthDays(u.y, u.m) \in Int
  BY <1>1, YearsAndMonths
<1>5. CASE u.m < 12
  <2>1. u.m + 1 \in 1..12 /\ u.m \in 1..11
    BY <1>1, <1>5
  <2>2. Month(u) + 1 = 12 * u.y + (u.m + 1) - 1
    BY <1>1 DEF Month
  <2>3. Carried(u) = [y |-> u.y, m |-> u.m + 1, d |-> e]
    BY <1>1, <2>1, <2>2, InMonthParts DEF Carried
  <2>4. Carried(u) \in Loose
    BY <1>1, <1>2, <2>1, <2>3 DEF Loose
  <2>5. DayNumber(Carried(u)) = YearDays(u.y) + MonthDays(u.y, u.m + 1) + e
    BY <2>3, <2>4, DayNumberParts
  <2>6. MonthDays(u.y, u.m + 1) = MonthDays(u.y, u.m) + DaysIn(u.y, u.m)
    BY <1>1, <2>1, NextMonth
  <2>7. DayNumber(Carried(u)) = DayNumber(u)
    BY <1>1, <1>3, <1>4, <2>5, <2>6
  <2>8. Month(Carried(u)) = Month(u) + 1
    BY <1>1, <2>3 DEF Month
  <2>9. QED
    BY <1>2, <2>3, <2>4, <2>7, <2>8
<1>6. CASE u.m = 12
  <2>1. u.y + 1 \in Nat /\ 1 \in 1..12
    BY <1>1
  <2>2. Month(u) + 1 = 12 * (u.y + 1) + 1 - 1
    BY <1>1, <1>6 DEF Month
  <2>3. Carried(u) = [y |-> u.y + 1, m |-> 1, d |-> e]
    BY <2>1, <2>2, InMonthParts DEF Carried
  <2>4. Carried(u) \in Loose
    BY <1>2, <2>1, <2>3 DEF Loose
  <2>5. DayNumber(Carried(u)) = YearDays(u.y + 1) + MonthDays(u.y + 1, 1) + e
    BY <2>3, <2>4, DayNumberParts
  <2>6. YearDays(u.y + 1) + MonthDays(u.y + 1, 1)
          = YearDays(u.y) + MonthDays(u.y, 12) + DaysIn(u.y, 12)
    BY <1>1, NextYear
  <2>7. DayNumber(Carried(u)) = DayNumber(u)
    BY <1>1, <1>3, <1>4, <1>6, <2>5, <2>6
  <2>8. Month(Carried(u)) = Month(u) + 1
    BY <1>1, <1>6, <2>3 DEF Month
  <2>9. QED
    BY <1>2, <2>3, <2>4, <2>7, <2>8
<1>7. QED
  BY <1>1, <1>5, <1>6

(* The recursion of Normalise, and a function that solves it.              *)
Carries(f) ==
  f = [u \in Loose |-> IF u.d <= DaysIn(u.y, u.m) THEN u ELSE f[Carried(u)]]

LEMMA CarryExists == \E f : Carries(f)
<1> DEFINE Date(u) == CHOOSE v \in Dates : DayNumber(v) = DayNumber(u)
           f == [u \in Loose |-> IF u.d = 0 THEN u ELSE Date(u)]
<1>1. ASSUME NEW u \in Loose
      PROVE  f[u] = IF u.d <= DaysIn(u.y, u.m) THEN u ELSE f[Carried(u)]
  <2>1. u.d \in Nat /\ DaysIn(u.y, u.m) \in 28..31
    BY LooseParts, DaysInMonth
  <2>2. CASE u.d = 0
    <3>1. f[u] = u
      BY <2>2
    <3>2. u.d <= DaysIn(u.y, u.m)
      BY <2>1, <2>2
    <3>3. QED
      BY <3>1, <3>2
  <2>3. CASE 1 <= u.d /\ u.d <= DaysIn(u.y, u.m)
    <3>1. u \in Dates
      BY <2>3, LooseIsDate
    <3>2. Date(u) \in Dates /\ DayNumber(Date(u)) = DayNumber(u)
      BY <3>1
    <3>3. Date(u) = u
      BY <3>1, <3>2, NumbersAreUnique
    <3>4. f[u] = Date(u)
      BY <2>3
    <3>5. QED
      BY <2>3, <3>3, <3>4
  <2>4. CASE DaysIn(u.y, u.m) < u.d
    <3>1. Carried(u) \in Loose /\ Carried(u).d # 0 /\ DayNumber(Carried(u)) = DayNumber(u)
      BY <2>4, CarriedSame, LooseParts
    <3>2. f[Carried(u)] = Date(Carried(u)) /\ f[u] = Date(u)
      BY <2>1, <2>4, <3>1
    <3>3. Date(Carried(u)) = Date(u)
      BY <3>1
    <3>4. ~(u.d <= DaysIn(u.y, u.m))
      BY <2>1, <2>4
    <3>5. f[u] = f[Carried(u)]
      BY <3>2, <3>3
    <3>6. QED
      BY <3>4, <3>5
  <2>5. QED
    BY <2>1, <2>2, <2>3, <2>4
<1>2. f = [u \in Loose |-> f[u]]
  OBVIOUS
<1> HIDE DEF f
<1>3. f = [u \in Loose |-> IF u.d <= DaysIn(u.y, u.m) THEN u ELSE f[Carried(u)]]
  BY <1>1, <1>2
<1>4. QED
  BY <1>3 DEF Carries

LEMMA NormaliseSteps ==
  ASSUME NEW t \in Loose
  PROVE  /\ t.d <= DaysIn(t.y, t.m) => Normalise(t) = t
         /\ DaysIn(t.y, t.m) < t.d => Normalise(t) = Normalise(Carried(t))
<1> DEFINE f == CHOOSE g : Carries(g)
<1>1. \A u : Normalise(u) = f[u]
  BY DEF Normalise, Carries, Loose, Carried
<1>2. Carries(f)
  BY CarryExists
<1>3. DaysIn(t.y, t.m) \in 28..31 /\ t.d \in Nat
  BY LooseParts, DaysInMonth
<1> HIDE DEF f
<1>4. f[t] = IF t.d <= DaysIn(t.y, t.m) THEN t ELSE f[Carried(t)]
  BY <1>2 DEF Carries
<1>5. QED
  BY <1>1, <1>3, <1>4

(* However many days are too many, normalising ends on the day they mean.  *)
LEMMA NormaliseKeepsDay ==
  ASSUME NEW t \in Loose, 1 <= t.d
  PROVE  Normalise(t) \in Dates /\ DayNumber(Normalise(t)) = DayNumber(t)
<1> DEFINE Good(u) == Normalise(u) \in Dates /\ DayNumber(Normalise(u)) = DayNumber(u)
           Bad == {n \in Nat : \E u \in Loose : u.d = n /\ 1 <= u.d /\ ~Good(u)}
<1>1. SUFFICES ASSUME ~Good(t) PROVE FALSE
  OBVIOUS
<1>2. t.d \in Bad
  <2>1. t.d \in Nat
    BY LooseParts
  <2> HIDE DEF Good
  <2>2. QED
    BY <1>1, <2>1
<1>3. PICK n \in Bad : \A k \in Bad : n <= k
  <2>1. Bad \subseteq Nat /\ Bad # {}
    BY <1>2
  <2> HIDE DEF Bad
  <2>2. QED
    BY <2>1, LeastNat
<1>4. PICK u \in Loose : u.d = n /\ 1 <= u.d /\ ~Good(u)
  <2> HIDE DEF Good
  <2>1. QED
    BY <1>3
<1>5. u.d \in Nat /\ DaysIn(u.y, u.m) \in 28..31
  BY LooseParts, DaysInMonth
<1>6. CASE u.d <= DaysIn(u.y, u.m)
  BY <1>4, <1>6, LooseIsDate, NormaliseSteps
<1>7. CASE DaysIn(u.y, u.m) < u.d
  <2>1. /\ Carried(u) \in Loose /\ 1 <= Carried(u).d /\ Carried(u).d < u.d
        /\ DayNumber(Carried(u)) = DayNumber(u)
    BY <1>7, CarriedSame
  <2>2. Normalise(u) = Normalise(Carried(u))
    BY <1>7, NormaliseSteps
  <2>3. ~Good(Carried(u))
    BY <1>4, <2>1, <2>2
  <2>4. Carried(u).d \in Nat
    BY <2>1, LooseParts
  <2>5. Carried(u).d \in Bad
    <3> HIDE DEF Good
    <3>1. QED
      BY <2>1, <2>3, <2>4
  <2>6. n <= Carried(u).d
    BY <1>3, <2>5
  <2>7. QED
    BY <1>4, <1>5, <2>1, <2>4, <2>6
<1>8. QED
  BY <1>5, <1>6, <1>7

(* A day that some month has is carried over the end of one at most.       *)
LEMMA NormaliseMonth ==
  ASSUME NEW t \in Loose, t.d \in 1..31
  PROVE  \/ Month(Normalise(t)) = Month(t) /\ Normalise(t).d = t.d
         \/ Month(Normalise(t)) = Month(t) + 1 /\ t.d > 28 /\ Normalise(t).d <= 3
<1>1. t.d \in Nat /\ DaysIn(t.y, t.m) \in 28..31
  BY LooseParts, DaysInMonth
<1>2. CASE t.d <= DaysIn(t.y, t.m)
  BY <1>2, NormaliseSteps
<1>3. CASE DaysIn(t.y, t.m) < t.d
  <2>1. Carried(t) \in Loose /\ Month(Carried(t)) = Month(t) + 1
    BY <1>3, CarriedSame
  <2>2. Carried(t).d = t.d - DaysIn(t.y, t.m)
    BY DEF Carried, InMonth
  <2>3. Carried(t).d <= 3 /\ t.d > 28
    BY <1>1, <1>3, <2>2
  <2>4. DaysIn(Carried(t).y, Carried(t).m) \in 28..31 /\ Carried(t).d \in Nat
    BY <2>1, LooseParts, DaysInMonth
  <2>5. Carried(t).d <= DaysIn(Carried(t).y, Carried(t).m)
    BY <2>3, <2>4
  <2>6. Normalise(t) = Carried(t)
    BY <1>3, <2>1, <2>5, NormaliseSteps
  <2>7. QED
    BY <2>1, <2>3, <2>6
<1>4. QED
  BY <1>1, <1>2, <1>3

LEMMA AddDays ==
  ASSUME NEW t \in Dates, NEW n \in Nat
  PROVE  /\ AddDate(t, 0, n) \in Dates
         /\ DayNumber(AddDate(t, 0, n)) = DayNumber(t) + n
<1> DEFINE u == InMonth(Month(t) + 0, t.d + n)
<1>1. t \in Loose /\ t.y \in Nat /\ t.m \in 1..12 /\ t.d \in 1..31
  BY DateIsLoose, LooseParts
<1>2. Month(t) + 0 = 12 * t.y + t.m - 1
  BY <1>1 DEF Month
<1>3. u = [y |-> t.y, m |-> t.m, d |-> t.d + n]
  BY <1>1, <1>2, InMonthParts
<1>4. u \in Loose /\ 1 <= u.d
  BY <1>1, <1>3 DEF Loose
<1>5. DayNumber(u) = DayNumber(t) + n
  <2>1. DayNumber(u) = YearDays(t.y) + MonthDays(t.y, t.m) + (t.d + n)
    BY <1>3, <1>4, DayNumberParts
  <2>2. DayNumber(t) = YearDays(t.y) + MonthDays(t.y, t.m) + t.d
    BY <1>1, DayNumberParts
  <2>3. YearDays(t.y) \in Int /\ MonthDays(t.y, t.m) \in Int
    BY <1>1, YearsAndMonths
  <2>4. QED
    BY <1>1, <2>1, <2>2, <2>3
<1>6. AddDate(t, 0, n) = Normalise(u)
  BY DEF AddDate
<1> HIDE DEF u
<1>7. QED
  BY <1>4, <1>5, <1>6, NormaliseKeepsDay

LEMMA AddMonths ==
  ASSUME NEW t \in Dates, NEW n \in Nat
  PROVE  LET v == AddDate(t, n, 0)
         IN  /\ v \in Dates
             /\ \/ Month(v) = Month(t) + n /\ v.d = t.d
                \/ Month(v) = Month(t) + n + 1 /\ t.d > 28 /\ v.d <= 3
<1> DEFINE u == InMonth(Month(t) + n, t.d + 0)
<1>1. t.y \in Nat /\ t.m \in 1..12 /\ t.d \in 1..31
  BY DateIsLoose, LooseParts
<1>2. Month(t) + n \in Nat
  BY <1>1 DEF Month
<1>3. u = [y |-> (Month(t) + n) \div 12, m |-> ((Month(t) + n) % 12) + 1, d |-> t.d]
  BY <1>1 DEF InMonth
<1>4. u \in Loose /\ u.d = t.d
  BY <1>1, <1>2, <1>3 DEF Loose
<1>5. Month(u) = Month(t) + n
  BY <1>2, <1>3 DEF Month
<1>6. AddDate(t, n, 0) = Normalise(u)
  BY DEF AddDate
<1> HIDE DEF u
<1>7. Normalise(u) \in Dates
  BY <1>1, <1>4, NormaliseKeepsDay
<1>8. QED
  BY <1>1, <1>4, <1>5, <1>6, <1>7, NormaliseMonth

-----------------------------------------------------------------------------
(* The rule: the four invariants are inductive together *)

CalendarInv == TypeOK /\ OnSchedule /\ DriftsOnce /\ RunsToItsEnd

LEMMA IntervalType == ASSUME NEW n \in Int PROVE Interval(n) \in Nat \ {0}
BY DEF Interval

LEMMA OneMore ==
  ASSUME NEW n \in Nat, NEW r \in Nat
  PROVE  n * (r + 1) = n * r + n /\ n * r \in Nat
OBVIOUS

(* A rule that has just been touched is where it was touched.              *)
LEMMA Fresh ==
  ASSUME TypeOK, anchor = next, ran = 0
  PROVE  OnSchedule /\ DriftsOnce /\ RunsToItsEnd
<1>1. next \in Loose /\ anchor \in Loose
  BY DateIsLoose DEF TypeOK
<1>2. Month(next) \in Int /\ DayNumber(next) \in Int
  BY <1>1, DayNumberInt, LooseParts DEF Month
<1>3. count \in Nat /\ count * ran = 0 /\ 7 * count * ran = 0
  BY DEF TypeOK
<1>4. MonthsLost = 0
  BY <1>2, <1>3 DEF MonthsLost
<1>5. DriftsOnce
  BY <1>4 DEF DriftsOnce
<1>6. OnSchedule
  <2>1. /\ DayNumber(anchor) + count * ran = DayNumber(next)
        /\ DayNumber(anchor) + 7 * count * ran = DayNumber(next)
    BY <1>2, <1>3
  <2>2. MonthsLost \in {0, 1}
    BY <1>4
  <2>3. QED
    BY <2>1, <2>2 DEF OnSchedule, TypeOK
<1>7. RunsToItsEnd
  BY DEF RunsToItsEnd
<1>8. QED
  BY <1>5, <1>6, <1>7

LEMMA CalendarInit == ASSUME Init PROVE CalendarInv
<1>1. /\ next \in Dates /\ end \in Dates \cup {Null}
      /\ frequency \in {"daily", "weekly", "monthly"}
  BY DateAssumption, FrequencyAssumption DEF Init
<1>2. count \in Nat \ {0}
  BY BoundAssumption, IntervalType DEF Init
<1>3. TypeOK
  BY <1>1, <1>2, BoundAssumption DEF Init, TypeOK
<1>4. QED
  BY <1>3, Fresh DEF Init, CalendarInv

(* What the owner changes starts a new stretch of runs.                    *)
LEMMA FreshNext ==
  ASSUME TypeOK', anchor' = next', ran' = 0
  PROVE  (OnSchedule /\ DriftsOnce /\ RunsToItsEnd)'
<1>1. next' \in Loose /\ anchor' \in Loose
  BY DateIsLoose DEF TypeOK
<1>2. Month(next') \in Int /\ DayNumber(next') \in Int
  BY <1>1, DayNumberInt, LooseParts DEF Month
<1>3. count' \in Nat /\ count' * ran' = 0 /\ 7 * count' * ran' = 0
  <2>1. count' \in Nat
    BY DEF TypeOK
  <2>2. \A n \in Nat : n * 0 = 0 /\ 7 * n * 0 = 0
    OBVIOUS
  <2>3. QED
    BY <2>1, <2>2
<1>4. MonthsLost' = 0
  BY <1>2, <1>3 DEF MonthsLost
<1>5. DriftsOnce'
  BY <1>4 DEF DriftsOnce
<1>6. OnSchedule'
  <2>1. /\ DayNumber(anchor') + count' * ran' = DayNumber(next')
        /\ DayNumber(anchor') + 7 * count' * ran' = DayNumber(next')
    BY <1>2, <1>3
  <2>2. MonthsLost' \in {0, 1}
    BY <1>4
  <2>3. QED
    BY <2>1, <2>2 DEF OnSchedule, TypeOK
<1>7. RunsToItsEnd'
  BY DEF RunsToItsEnd
<1>8. QED
  BY <1>5, <1>6, <1>7

LEMMA TouchKeeps ==
  ASSUME CalendarInv, Update \/ SetActive
  PROVE  CalendarInv'
<1>1. Touch /\ TypeOK
  BY DEF Update, SetActive, CalendarInv
<1>2. next' = next /\ anchor' = next /\ ran' = 0 /\ touches' \in 0..MaxTouches
  BY <1>1, BoundAssumption DEF Touch, TypeOK
<1>3. /\ frequency' \in {"daily", "weekly", "monthly"}
      /\ end' \in Dates \cup {Null} /\ active' \in BOOLEAN
  BY <1>1, DateAssumption, FrequencyAssumption DEF Update, SetActive, TypeOK
<1>4. count' \in Nat \ {0}
  <2>1. CASE Update
    BY <2>1, BoundAssumption, IntervalType DEF Update
  <2>2. CASE SetActive
    BY <1>1, <2>2 DEF SetActive, TypeOK
  <2>3. QED
    BY <2>1, <2>2
<1>5. TypeOK'
  BY <1>1, <1>2, <1>3, <1>4, BoundAssumption DEF TypeOK
<1>6. QED
  BY <1>2, <1>5, FreshNext DEF CalendarInv

LEMMA RunKeeps ==
  ASSUME CalendarInv, Run
  PROVE  CalendarInv'
<1>1. TypeOK /\ OnSchedule /\ DriftsOnce
  BY DEF CalendarInv
<1>2. /\ next \in Dates /\ anchor \in Dates /\ count \in Nat /\ ran \in Nat
      /\ ran' = ran + 1 /\ ran' \in 0..MaxRuns
      /\ UNCHANGED <<frequency, count, end, anchor, touches>>
  BY <1>1, BoundAssumption DEF TypeOK, Run
<1>3. /\ DayNumber(next) \in Int /\ DayNumber(anchor) \in Int
      /\ Month(next) \in Int /\ Month(anchor) \in Int
  BY <1>2, DateIsLoose, DayNumberInt, LooseParts DEF Month
<1>4. count * ran' = count * ran + count /\ count * ran \in Nat
  BY <1>2, OneMore
<1>5. /\ frequency = "daily" => next' = AddDate(next, 0, count)
      /\ frequency = "weekly" => next' = AddDate(next, 0, 7 * count)
      /\ frequency = "monthly" => next' = AddDate(next, count, 0)
  BY DEF Run, Advance
<1>6. frequency = "daily" => next' \in Dates /\ DayNumber(next') = DayNumber(next) + count
  BY <1>2, <1>5, AddDays
<1>7. frequency = "weekly" => next' \in Dates /\ DayNumber(next') = DayNumber(next) + 7 * count
  <2>1. 7 * count \in Nat
    BY <1>2
  <2>2. QED
    BY <1>2, <1>5, <2>1, AddDays
<1>8. frequency = "monthly" =>
        /\ next' \in Dates
        /\ \/ Month(next') = Month(next) + count /\ next'.d = next.d
           \/ Month(next') = Month(next) + count + 1 /\ next.d > 28 /\ next'.d <= 3
  BY <1>2, <1>5, AddMonths
<1>9. TypeOK'
  <2>1. next' \in Dates
    BY <1>1, <1>6, <1>7, <1>8 DEF TypeOK
  <2>2. active' \in BOOLEAN
    BY DEF Run, Over, Before
  <2>3. QED
    BY <1>1, <1>2, <2>1, <2>2 DEF TypeOK
<1>10. DriftsOnce'
  <2>1. SUFFICES ASSUME frequency = "monthly" PROVE DriftsOnce'
    BY <1>2 DEF DriftsOnce
  <2>2. MonthsLost' = Month(next') - Month(anchor) - (count * ran + count)
    BY <1>2, <1>4 DEF MonthsLost
  <2>3. MonthsLost = Month(next) - Month(anchor) - count * ran
    BY DEF MonthsLost
  <2>4. next.d \in Nat /\ anchor.d \in Nat /\ next'.d \in Nat
    BY <1>2, <1>8, <2>1, DateIsLoose, LooseParts
  <2>5. CASE MonthsLost = 0 /\ next.d = anchor.d
    <3>1. \/ MonthsLost' = 0 /\ next'.d = anchor.d
          \/ MonthsLost' = 1 /\ anchor.d > 28 /\ next'.d <= 3
      BY <1>2, <1>3, <1>4, <1>8, <2>1, <2>2, <2>3, <2>4, <2>5
    <3>2. QED
      BY <1>2, <3>1 DEF DriftsOnce
  <2>6. CASE MonthsLost = 1 /\ anchor.d > 28 /\ next.d <= 3
    <3>1. MonthsLost' = 1 /\ next'.d <= 3
      BY <1>2, <1>3, <1>4, <1>8, <2>1, <2>2, <2>3, <2>4, <2>6
    <3>2. QED
      BY <1>2, <2>6, <3>1 DEF DriftsOnce
  <2>7. QED
    BY <1>1, <2>1, <2>5, <2>6 DEF DriftsOnce
<1>11. OnSchedule'
  <2>1. CASE frequency = "daily"
    <3>1. DayNumber(next) = DayNumber(anchor) + count * ran
      BY <1>1, <2>1 DEF OnSchedule
    <3>2. DayNumber(next') = DayNumber(anchor) + count * ran'
      BY <1>2, <1>3, <1>4, <1>6, <2>1, <3>1
    <3>3. QED
      BY <1>2, <2>1, <3>2 DEF OnSchedule
  <2>2. CASE frequency = "weekly"
    <3>1. DayNumber(next) = DayNumber(anchor) + 7 * count * ran
      BY <1>1, <2>2 DEF OnSchedule
    <3>2. 7 * count * ran = 7 * (count * ran) /\ 7 * count * ran' = 7 * (count * ran')
      BY <1>2
    <3>3. DayNumber(next') = DayNumber(anchor) + 7 * count * ran'
      BY <1>2, <1>3, <1>4, <1>7, <2>2, <3>1, <3>2
    <3>4. QED
      BY <1>2, <2>2, <3>3 DEF OnSchedule
  <2>3. CASE frequency = "monthly"
    <3>1. MonthsLost' \in {0, 1}
      BY <1>2, <1>10, <2>3 DEF DriftsOnce
    <3>2. QED
      BY <1>2, <2>3, <3>1 DEF OnSchedule
  <2>4. QED
    BY <1>1, <2>1, <2>2, <2>3 DEF TypeOK
<1>12. RunsToItsEnd'
  <2>1. SUFFICES ASSUME end # Null
                 PROVE  active' <=> DayNumber(next') <= DayNumber(end)
    BY <1>2 DEF RunsToItsEnd
  <2>2. end \in Dates /\ next' \in Dates
    BY <1>1, <1>9, <2>1 DEF TypeOK
  <2>3. active' <=> ~Before(end, next')
    BY <1>2, <2>1 DEF Run, Over
  <2>4. DayNumber(end) \in Int /\ DayNumber(next') \in Int
    BY <2>2, DateIsLoose, DayNumberInt
  <2>5. QED
    BY <2>2, <2>3, <2>4, BeforeIsEarlier
<1>13. QED
  BY <1>9, <1>10, <1>11, <1>12 DEF CalendarInv

LEMMA CalendarHolds == Spec => []CalendarInv
<1>1. Init => CalendarInv
  BY CalendarInit
<1>2. CalendarInv /\ [Next]_vars => CalendarInv'
  <2>1. ASSUME CalendarInv, UNCHANGED vars
        PROVE  CalendarInv'
    BY <2>1 DEF vars, CalendarInv, TypeOK, OnSchedule, DriftsOnce, RunsToItsEnd, MonthsLost
  <2>2. QED
    BY <2>1, RunKeeps, TouchKeeps DEF Next
<1>3. QED
  BY <1>1, <1>2, PTL DEF Spec

-----------------------------------------------------------------------------

(* The type invariant.  That next_run_at is always a date of the calendar  *)
(* is the part with content: AddDate's normalisation ends on one.          *)
THEOREM CalendarTyped == Spec => []TypeOK
<1>1. CalendarInv => TypeOK
  BY DEF CalendarInv
<1>2. QED
  BY <1>1, CalendarHolds, PTL

(* Whatever its start, count and number of runs, a daily or weekly rule is *)
(* exactly on its days, and a monthly one has passed over at most one      *)
(* month since its owner last touched it.                                  *)
THEOREM KeepsItsDays == Spec => []OnSchedule
<1>1. CalendarInv => OnSchedule
  BY DEF CalendarInv
<1>2. QED
  BY <1>1, CalendarHolds, PTL

(* A monthly rule keeps its day of the month, or, if that is after the     *)
(* 28th, loses one month and then stays on one of the first three days.    *)
THEOREM DriftIsOnce == Spec => []DriftsOnce
<1>1. CalendarInv => DriftsOnce
  BY DEF CalendarInv
<1>2. QED
  BY <1>1, CalendarHolds, PTL

(* A rule left alone is active after a run just when its next date is not  *)
(* after its end date: the order of the strings is that of the days.       *)
THEOREM EndIsLastRun == Spec => []RunsToItsEnd
<1>1. CalendarInv => RunsToItsEnd
  BY DEF CalendarInv
<1>2. QED
  BY <1>1, CalendarHolds, PTL

=============================================================================
