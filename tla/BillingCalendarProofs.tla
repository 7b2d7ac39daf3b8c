------------------------ MODULE BillingCalendarProofs ------------------------
(***************************************************************************)
(* The renewal dates of a bundle are right for any day of purchase, for    *)
(* any number of renewals, and through leap years.  The argument is a      *)
(* split on whether the bundle has rolled over: before, it has the day of  *)
(* its purchase; after, one of the first three days of a month, which no   *)
(* month is too short for, so nothing changes again.  The length of a      *)
(* cycle in days is the difference of two closed forms, which grow from    *)
(* month to month by the length of the month.                              *)
(***************************************************************************)
EXTENDS BillingCalendar, TLAPS

(* Every month has 28 days and no month has more than 31. *)
LEMMA DaysInBounds ==
    ASSUME NEW m \in Nat
    PROVE  DaysIn(m) \in 28..31
<1>1. CASE m % 12 = 1
  BY <1>1 DEF DaysIn
<1>2. CASE m % 12 \in {3, 5, 8, 10}
  BY <1>2 DEF DaysIn
<1>3. CASE m % 12 # 1 /\ m % 12 \notin {3, 5, 8, 10}
  BY <1>3 DEF DaysIn
<1>4. QED
  BY <1>1, <1>2, <1>3

(* A cycle has a number of months. *)
LEMMA CycleMonthsInNat ==
    ASSUME NEW c \in DOMAIN CycleMonths
    PROVE  CycleMonths[c] \in Nat
BY DEF CycleMonths

(***************************************************************************)
(* addMonths either keeps the day, or moves to the first three days of the *)
(* month after the target, 28 to 30 days back (subscription-bundle.ts:29). *)
(***************************************************************************)
LEMMA AddMonthsRolls ==
    ASSUME NEW d, ValidDate(d), NEW n \in Nat
    PROVE  /\ ValidDate(AddMonths(d, n))
           /\ \/ AddMonths(d, n) = [month |-> d.month + n, day |-> d.day]
              \/ /\ AddMonths(d, n).month = d.month + n + 1
                 /\ AddMonths(d, n).day \in 1..3
                 /\ d.day - AddMonths(d, n).day \in 28..30
           /\ d.day <= 28 => AddMonths(d, n) = [month |-> d.month + n, day |-> d.day]
<1> DEFINE target == d.month + n
<1>1. d.month \in Nat /\ d.day \in 1..31 /\ target \in Nat /\ target + 1 \in Nat
  BY DEF ValidDate, Date
<1>2. DaysIn(target) \in 28..31 /\ DaysIn(target + 1) \in 28..31
  BY <1>1, DaysInBounds
<1> HIDE DEF target
<1>3. CASE d.day <= DaysIn(target)
  <2>1. AddMonths(d, n) = [month |-> target, day |-> d.day]
    BY <1>3 DEF AddMonths, target
  <2>2. QED
    BY <1>1, <1>3, <2>1 DEF ValidDate, Date, target
<1>4. CASE ~(d.day <= DaysIn(target))
  <2>1. AddMonths(d, n) = [month |-> target + 1, day |-> d.day - DaysIn(target)]
    BY <1>4 DEF AddMonths, target
  <2>2. d.day - DaysIn(target) \in 1..3 /\ d.day > 28
    BY <1>1, <1>2, <1>4
  <2>3. ValidDate(AddMonths(d, n))
    BY <1>1, <1>2, <2>1, <2>2 DEF ValidDate, Date
  <2>4. /\ AddMonths(d, n).month = target + 1
        /\ AddMonths(d, n).day \in 1..3
        /\ d.day - AddMonths(d, n).day \in 28..30
    BY <1>1, <1>2, <1>4, <2>1, <2>2
  <2>5. QED
    BY <2>2, <2>3, <2>4, <1>1 DEF target
<1>5. QED
  BY <1>3, <1>4

-----------------------------------------------------------------------------
(* The inductive invariant. *)
DatesRight == TypeOK /\ RollsOverOnce

(* The first cycle rolls over or not. *)
LEMMA RightAtPurchase == Init => DatesRight
<1> SUFFICES ASSUME Init PROVE DatesRight
  OBVIOUS
<1>1. cycle \in DOMAIN CycleMonths /\ CycleMonths[cycle] \in Nat
  BY CycleMonthsInNat DEF Init
<1>2. bought.month \in Nat /\ bought.day \in 1..31 /\ ValidDate(bought)
  BY CalendarConstants DEF Init, ValidDate, Date
<1>3. DueMonth = bought.month + CycleMonths[cycle]
  BY <1>1 DEF Init, DueMonth
<1>4. TypeOK
  BY <1>1, <1>2, AddMonthsRolls DEF Init, TypeOK
<1>5. RollsOverOnce
  <2>1. renewalDate = AddMonths(bought, CycleMonths[cycle])
    BY DEF Init
  <2>2. QED
    BY <1>1, <1>2, <1>3, <2>1, AddMonthsRolls DEF RollsOverOnce
<1>6. QED
  BY <1>4, <1>5 DEF DatesRight

(* A renewal moves on by a cycle, and rolls over only if none did before. *)
LEMMA RenewalsStayRight ==
    ASSUME DatesRight, [Next]_vars
    PROVE  DatesRight'
<1>1. CASE UNCHANGED vars
  BY <1>1 DEF vars, DatesRight, TypeOK, RollsOverOnce, DueMonth
<1>2. CASE Renew
  <2> DEFINE n == CycleMonths[cycle]
  <2>1. n \in Nat /\ renewals \in Nat /\ ValidDate(renewalDate) /\ ValidDate(bought)
    BY CycleMonthsInNat DEF DatesRight, TypeOK
  <2>2. /\ startDate' = renewalDate
        /\ renewalDate' = AddMonths(renewalDate, n)
        /\ renewals' = renewals + 1 /\ cycle' = cycle /\ bought' = bought
    BY <1>2 DEF Renew
  <2>3. DueMonth' = DueMonth + n /\ DueMonth \in Nat
    <3>1. bought.month \in Nat
      BY <2>1 DEF ValidDate, Date
    <3> HIDE DEF n
    <3>2. DueMonth = bought.month + (renewals + 1) * n
      BY DEF DueMonth, n
    <3>3. DueMonth' = bought.month + (renewals + 2) * n
      BY <2>1, <2>2 DEF DueMonth, n
    <3>4. (renewals + 2) * n = (renewals + 1) * n + n /\ (renewals + 1) * n \in Nat
      BY <2>1
    <3>5. QED
      BY <2>1, <3>1, <3>2, <3>3, <3>4
  <2>4. TypeOK'
    BY <2>1, <2>2, AddMonthsRolls DEF DatesRight, TypeOK
  <2>5. renewalDate.month \in Nat /\ renewalDate.day \in 1..31 /\ bought.day \in 1..31
    BY <2>1 DEF ValidDate, Date
  <2> HIDE DEF n
  <2>6. /\ \/ renewalDate'.month = renewalDate.month + n /\ renewalDate'.day = renewalDate.day
           \/ /\ renewalDate'.month = renewalDate.month + n + 1
              /\ renewalDate'.day \in 1..3
              /\ renewalDate.day - renewalDate'.day \in 28..30
        /\ renewalDate.day <= 28 =>
               renewalDate'.month = renewalDate.month + n /\ renewalDate'.day = renewalDate.day
    BY <2>1, <2>2, AddMonthsRolls
  <2>7. CASE renewalDate.month = DueMonth /\ renewalDate.day = bought.day
    <3>1. CASE renewalDate'.month = renewalDate.month + n /\ renewalDate'.day = renewalDate.day
      BY <2>2, <2>3, <2>4, <2>7, <3>1 DEF DatesRight, RollsOverOnce
    <3>2. CASE /\ renewalDate'.month = renewalDate.month + n + 1
               /\ renewalDate'.day \in 1..3
               /\ renewalDate.day - renewalDate'.day \in 28..30
      <4>1. renewalDate'.month = DueMonth' + 1
        BY <2>1, <2>3, <2>5, <2>7, <3>2
      <4>2. bought'.day - renewalDate'.day \in 28..30
        BY <2>2, <2>7, <3>2
      <4>3. QED
        BY <2>4, <3>2, <4>1, <4>2 DEF DatesRight, RollsOverOnce
    <3>3. QED
      BY <2>6, <3>1, <3>2
  <2>8. CASE /\ renewalDate.month = DueMonth + 1
             /\ renewalDate.day \in 1..3
             /\ bought.day - renewalDate.day \in 28..30
    <3>1. renewalDate'.month = renewalDate.month + n /\ renewalDate'.day = renewalDate.day
      BY <2>8, <2>6
    <3>2. renewalDate'.month = DueMonth' + 1
      BY <2>1, <2>3, <2>5, <2>8, <3>1
    <3>3. QED
      BY <2>2, <2>4, <2>8, <3>1, <3>2 DEF DatesRight, RollsOverOnce
  <2>9. QED
    BY <2>7, <2>8 DEF DatesRight, RollsOverOnce
<1>3. QED
  BY <1>1, <1>2 DEF Next

(* The inductive invariant holds in every state. *)
LEMMA DatesStayRight == Spec => []DatesRight
<1>1. DatesRight /\ [Next]_vars => DatesRight'
  BY RenewalsStayRight
<1>2. QED
  BY <1>1, RightAtPurchase, PTL DEF Spec

(* All dates are dates of the calendar. *)
THEOREM TypeCorrect == Spec => []TypeOK
<1>1. DatesRight => TypeOK
  BY DEF DatesRight
<1>2. QED
  BY <1>1, DatesStayRight, PTL

(***************************************************************************)
(* However often a bundle is renewed, it rolls over at most once, to one   *)
(* of the first three days of a month (subscription-bundle.ts:29-33).      *)
(***************************************************************************)
THEOREM OneRollover == Spec => []RollsOverOnce
<1>1. DatesRight => RollsOverOnce
  BY DEF DatesRight
<1>2. QED
  BY <1>1, DatesStayRight, PTL

(***************************************************************************)
(* A renewal falls on the anniversary of the purchase or at most three     *)
(* days after it (subscription-bundle.ts:94-114).                          *)
(***************************************************************************)
THEOREM RenewalsAreNeverEarly == Spec => []NeverEarly
<1>1. DatesRight => NeverEarly
  <2> SUFFICES ASSUME DatesRight PROVE NeverEarly
    OBVIOUS
  <2>1. DueMonth \in Nat
    <3>1. bought.month \in Nat /\ renewals \in Nat /\ CycleMonths[cycle] \in Nat
      BY CycleMonthsInNat DEF DatesRight, TypeOK, ValidDate, Date
    <3>2. QED
      BY <3>1 DEF DueMonth
  <2>2. DaysIn(DueMonth) \in 28..31
    BY <2>1, DaysInBounds
  <2>3. /\ renewalDate.month \in Nat /\ renewalDate.day \in 1..31 /\ bought.day \in 1..31
        /\ renewalDate.day <= DaysIn(renewalDate.month)
    BY DEF DatesRight, TypeOK, ValidDate, Date
  <2>4. /\ Anniversary.month = DueMonth
        /\ bought.day <= DaysIn(DueMonth) => Anniversary.day = bought.day
        /\ bought.day > DaysIn(DueMonth) => Anniversary.day = DaysIn(DueMonth)
    BY <2>2, <2>3 DEF Anniversary
  <2>5. CASE renewalDate.month = DueMonth /\ renewalDate.day = bought.day
    BY <2>1, <2>2, <2>3, <2>4, <2>5 DEF NeverEarly, DaysAfter
  <2>6. CASE /\ renewalDate.month = DueMonth + 1
             /\ renewalDate.day \in 1..3
             /\ bought.day - renewalDate.day \in 28..30
    BY <2>1, <2>2, <2>3, <2>4, <2>6 DEF NeverEarly, DaysAfter
  <2>7. QED
    BY <2>5, <2>6 DEF DatesRight, RollsOverOnce
<1>2. QED
  BY <1>1, DatesStayRight, PTL

-----------------------------------------------------------------------------
(* The length of a cycle in days. *)

(***************************************************************************)
(* From one year to the next it is 365 days, or 366 after a leap year.     *)
(***************************************************************************)
LEMMA YearsFollow ==
    ASSUME NEW y \in Nat
    PROVE  /\ DaysBeforeYear(y) \in Int
           /\ DaysBeforeYear(y + 1) = DaysBeforeYear(y) + (IF IsLeapYear(y) THEN 366 ELSE 365)
<1>1. (y + 4) \div 4 - (y + 3) \div 4 = IF y % 4 = 0 THEN 1 ELSE 0
  OBVIOUS
<1>2. (y + 100) \div 100 - (y + 99) \div 100 = IF y % 100 = 0 THEN 1 ELSE 0
  OBVIOUS
<1>3. (y + 400) \div 400 - (y + 399) \div 400 = IF y % 400 = 0 THEN 1 ELSE 0
  OBVIOUS
<1>4. (y % 400 = 0 => y % 100 = 0) /\ (y % 100 = 0 => y % 4 = 0)
  OBVIOUS
<1>5. QED
  BY <1>1, <1>2, <1>3, <1>4 DEF DaysBeforeYear, IsLeapYear

(***************************************************************************)
(* DaysBefore counts right: each month begins when the one before it has   *)
(* had all its days.                                                       *)
(***************************************************************************)
LEMMA MonthsFollow ==
    ASSUME NEW n \in Nat
    PROVE  DaysBefore(n) \in Int /\ DaysBefore(n + 1) = DaysBefore(n) + DaysIn(n)
<1> DEFINE y == n \div 12
           m == n % 12
<1>1. y \in Nat /\ m \in 0..11 /\ n = 12 * y + m
  OBVIOUS
<1>2. /\ m # 11 => (n + 1) \div 12 = y /\ (n + 1) % 12 = m + 1
      /\ m = 11 => (n + 1) \div 12 = y + 1 /\ (n + 1) % 12 = 0
  BY <1>1
<1>3. /\ DaysBeforeYear(y) \in Int
      /\ DaysBeforeYear(y + 1) = DaysBeforeYear(y) + (IF IsLeapYear(y) THEN 366 ELSE 365)
  BY <1>1, YearsFollow
<1>4. DaysBefore(n) = DaysBeforeYear(y) + DaysBeforeMonthOfYear[m + 1]
                          + (IF m > 1 /\ IsLeapYear(y) THEN 1 ELSE 0)
  BY DEF DaysBefore
<1>5. DaysIn(n) = CASE m = 1                -> IF IsLeapYear(y) THEN 29 ELSE 28
                    [] m \in {3, 5, 8, 10}  -> 30
                    [] OTHER                -> 31
  BY DEF DaysIn
<1>6. DaysBefore(n) \in Int
  BY <1>1, <1>3, <1>4 DEF DaysBeforeMonthOfYear
<1>7. CASE m # 11
  <2>1. DaysBefore(n + 1) = DaysBeforeYear(y) + DaysBeforeMonthOfYear[m + 2]
                                + (IF m + 1 > 1 /\ IsLeapYear(y) THEN 1 ELSE 0)
    BY <1>1, <1>2, <1>7 DEF DaysBefore
  <2> HIDE DEF y, m
  <2>2. QED
    BY <1>1, <1>3, <1>4, <1>5, <1>6, <1>7, <2>1 DEF DaysBeforeMonthOfYear
<1>8. CASE m = 11
  <2>1. DaysBefore(n + 1) = DaysBeforeYear(y + 1) + DaysBeforeMonthOfYear[1]
    BY <1>1, <1>2, <1>3, <1>8 DEF DaysBefore, DaysBeforeMonthOfYear
  <2> HIDE DEF y, m
  <2>2. QED
    BY <1>1, <1>3, <1>4, <1>5, <1>6, <1>8, <2>1 DEF DaysBeforeMonthOfYear
<1>9. QED
  BY <1>6, <1>7, <1>8

(***************************************************************************)
(* Twelve months have 365 or 366 days, whichever month they begin with.    *)
(***************************************************************************)
LEMMA TwelveMonths ==
    ASSUME NEW n \in Nat
    PROVE  DaysBefore(n + 12) - DaysBefore(n) \in {365, 366}
<1> DEFINE y == n \div 12
           m == n % 12
<1>1. y \in Nat /\ m \in 0..11
  OBVIOUS
<1>2. (n + 12) \div 12 = y + 1 /\ (n + 12) % 12 = m
  OBVIOUS
<1>3. /\ DaysBeforeYear(y) \in Int
      /\ DaysBeforeYear(y + 1) = DaysBeforeYear(y) + (IF IsLeapYear(y) THEN 366 ELSE 365)
  BY <1>1, YearsFollow
<1>4. IsLeapYear(y) => ~IsLeapYear(y + 1)
  BY <1>1 DEF IsLeapYear
<1>5. /\ DaysBefore(n) = DaysBeforeYear(y) + DaysBeforeMonthOfYear[m + 1]
                             + (IF m > 1 /\ IsLeapYear(y) THEN 1 ELSE 0)
      /\ DaysBefore(n + 12) = DaysBeforeYear(y + 1) + DaysBeforeMonthOfYear[m + 1]
                             + (IF m > 1 /\ IsLeapYear(y + 1) THEN 1 ELSE 0)
  BY <1>2 DEF DaysBefore
<1>6. DaysBeforeMonthOfYear[m + 1] \in Int
  BY <1>1 DEF DaysBeforeMonthOfYear
<1> HIDE DEF y, m
<1>7. QED
  BY <1>1, <1>3, <1>4, <1>5, <1>6

(***************************************************************************)
(* A rollover loses no day and adds none: the date that addMonths comes to *)
(* is as many days into the target month as the date it started from, also *)
(* when that is beyond its end (subscription-bundle.ts:29-33).             *)
(***************************************************************************)
LEMMA RolloverKeepsDays ==
    ASSUME NEW d, ValidDate(d), NEW n \in Nat
    PROVE  DaysBetween(d, AddMonths(d, n)) = DaysBefore(d.month + n) - DaysBefore(d.month)
<1> DEFINE target == d.month + n
<1>1. d.month \in Nat /\ d.day \in Nat /\ target \in Nat /\ DaysIn(target) \in Nat
  BY DaysInBounds DEF ValidDate, Date
<1>2. /\ DaysBefore(d.month) \in Int /\ DaysBefore(target) \in Int
      /\ DaysBefore(target + 1) = DaysBefore(target) + DaysIn(target)
  BY <1>1, MonthsFollow
<1> HIDE DEF target
<1>3. CASE d.day <= DaysIn(target)
  <2>1. AddMonths(d, n) = [month |-> target, day |-> d.day]
    BY <1>3 DEF AddMonths, target
  <2>2. QED
    BY <1>1, <1>2, <2>1 DEF DaysBetween, target
<1>4. CASE ~(d.day <= DaysIn(target))
  <2>1. AddMonths(d, n) = [month |-> target + 1, day |-> d.day - DaysIn(target)]
    BY <1>4 DEF AddMonths, target
  <2>2. QED
    BY <1>1, <1>2, <2>1 DEF DaysBetween, target
<1>5. QED
  BY <1>3, <1>4

\* The dates of a cycle are those of one call of addMonths.
CycleRuns ==
    /\ cycle \in DOMAIN CycleMonths
    /\ ValidDate(startDate)
    /\ renewalDate = AddMonths(startDate, CycleMonths[cycle])

(***************************************************************************)
(* A monthly cycle has the days of the month it begins in and a yearly one *)
(* 365 or 366, in any year, after any number of renewals and also when the *)
(* cycle rolls over (billing-cycle.ts:8-11).                               *)
(***************************************************************************)
THEOREM CyclesLastAsLong == Spec => []CycleLengths
<1>1. Init => CycleRuns
  BY CalendarConstants DEF Init, CycleRuns, ValidDate, Date
<1>2. DatesRight /\ CycleRuns /\ [Next]_vars => CycleRuns'
  BY CycleMonthsInNat, AddMonthsRolls
     DEF DatesRight, TypeOK, CycleRuns, Next, Renew, vars
<1>3. CycleRuns => CycleLengths
  <2> SUFFICES ASSUME CycleRuns PROVE CycleLengths
    OBVIOUS
  <2>1. startDate.month \in Nat
    BY DEF CycleRuns, ValidDate, Date
  <2>2. CycleMonths[cycle] \in Nat
    BY CycleMonthsInNat DEF CycleRuns
  <2>3. DaysBetween(startDate, renewalDate)
            = DaysBefore(startDate.month + CycleMonths[cycle]) - DaysBefore(startDate.month)
    BY <2>2, RolloverKeepsDays DEF CycleRuns
  <2>4. CASE cycle = "MONTHLY"
    BY <2>1, <2>3, <2>4, MonthsFollow, DaysInBounds DEF CycleLengths, CycleMonths
  <2>5. CASE cycle = "YEARLY"
    BY <2>1, <2>3, <2>5, TwelveMonths DEF CycleLengths, CycleMonths
  <2>6. QED
    BY <2>4, <2>5 DEF CycleRuns, CycleMonths
<1>4. QED
  BY <1>1, <1>2, <1>3, DatesStayRight, PTL DEF Spec
=============================================================================
