---------------------------- MODULE BillingCalendar ----------------------------
(***************************************************************************)
(* The dates of a bundle.  Subscriptions gives every cycle a fixed length; *)
(* here a cycle is a number of calendar months, added to the UTC date the  *)
(* last cycle ended on.  A day the target month does not have rolls over   *)
(* into the month after it, and the next cycle is counted from there: what *)
(* many renewals in a row make of the day of purchase is not obvious.      *)
(*                                                                         *)
(* Months are numbered through the years: month n is the (n % 12)-th, from *)
(* 0, of the year n \div 12.  The time of day never changes and is left    *)
(* out.                                                                    *)
(***************************************************************************)
EXTENDS Integers

CONSTANTS
    FirstMonth, LastMonth,  \* the months in which a bundle may be bought
    MaxRenewals             \* bound on the renewals of a bundle

ASSUME CalendarConstants ==
    /\ FirstMonth \in Nat
    /\ LastMonth \in Nat
    /\ MaxRenewals \in Nat

VARIABLES
    cycle,          \* MONTHLY or YEARLY
    startDate,      \* the cycle that runs
    renewalDate,    \* its end, which is endDate too
    bought,         \* history: the startDate of the first cycle
    renewals        \* history: how many cycles have been added to the first

vars == <<cycle, startDate, renewalDate, bought, renewals>>

IsLeapYear(y) == (y % 4 = 0 /\ y % 100 # 0) \/ y % 400 = 0

DaysIn(month) ==
    CASE month % 12 = 1                -> IF IsLeapYear(month \div 12) THEN 29 ELSE 28
      [] month % 12 \in {3, 5, 8, 10}  -> 30
      [] OTHER                         -> 31

Date == [month : Nat, day : 1..31]

ValidDate(d) == d \in Date /\ d.day <= DaysIn(d.month)

\* Plausible bug: a year is a month short.
CycleMonthsOfYear == [MONTHLY |-> 1, YEARLY |-> 11]

\* BILLING_CYCLE_MONTHS.
CycleMonths == [MONTHLY |-> 1, YEARLY |-> 12]

\* Plausible bug: as if every month had every day.
AddMonthsOnly(date, months) == [date EXCEPT !.month = @ + months]

\* Plausible bug: the day is cut to the last of the month, for good.
AddMonthsAndCut(date, months) ==
    LET target == date.month + months
    IN  [month |-> target, day |-> IF date.day > DaysIn(target) THEN DaysIn(target) ELSE date.day]

\* setUTCMonth: the days beyond the end of the month are counted on from it.
AddMonths(date, months) ==
    LET target == date.month + months
    IN  IF date.day <= DaysIn(target)
        THEN [month |-> target, day |-> date.day]
        ELSE [month |-> target + 1, day |-> date.day - DaysIn(target)]

\* SubscriptionBundle.create.
Init ==
    /\ cycle \in DOMAIN CycleMonths
    /\ bought \in {d \in [month : FirstMonth..LastMonth, day : 1..31] : d.day <= DaysIn(d.month)}
    /\ startDate = bought
    /\ renewalDate = AddMonths(bought, CycleMonths[cycle])
    /\ renewals = 0

\* Plausible bug: the next cycle starts the day after the last one.
RenewNextDay ==
    /\ renewals < MaxRenewals
    /\ LET next == IF renewalDate.day < DaysIn(renewalDate.month)
                   THEN [renewalDate EXCEPT !.day = @ + 1]
                   ELSE [month |-> renewalDate.month + 1, day |-> 1]
       IN  /\ startDate' = next
           /\ renewalDate' = AddMonths(next, CycleMonths[cycle])
    /\ renewals' = renewals + 1
    /\ UNCHANGED <<cycle, bought>>

\* SubscriptionBundle.renew: the new cycle starts where the last one ended.
Renew ==
    /\ renewals < MaxRenewals
    /\ startDate' = renewalDate
    /\ renewalDate' = AddMonths(renewalDate, CycleMonths[cycle])
    /\ renewals' = renewals + 1
    /\ UNCHANGED <<cycle, bought>>

Next == Renew

Spec == Init /\ [][Next]_vars

-----------------------------------------------------------------------------
TypeOK ==
    /\ cycle \in DOMAIN CycleMonths
    /\ ValidDate(bought)
    /\ ValidDate(startDate)
    /\ ValidDate(renewalDate)
    /\ renewals \in Nat

\* The month in which the cycle should end, by the cycles there were.
DueMonth == bought.month + (renewals + 1) * CycleMonths[cycle]

(***************************************************************************)
(* A bundle rolls over at most once in its life, for it is then on one of  *)
(* the first three days of a month, which every month has.  So it is never *)
(* more than a month off, however often it is renewed, and until it rolls  *)
(* over it keeps the day of its purchase (subscription-bundle.ts:29-33).   *)
(***************************************************************************)
RollsOverOnce ==
    \/ renewalDate.month = DueMonth /\ renewalDate.day = bought.day
    \/ /\ renewalDate.month = DueMonth + 1
       /\ renewalDate.day \in 1..3
       /\ bought.day - renewalDate.day \in 28..30

\* The date a customer would expect: the same day, or else the last of the month.
Anniversary ==
    [month |-> DueMonth,
     day   |-> IF bought.day <= DaysIn(DueMonth) THEN bought.day ELSE DaysIn(DueMonth)]

\* How many days e is after d, if it is in the same month or in the next.
DaysAfter(e, d) ==
    IF e.month = d.month THEN e.day - d.day ELSE DaysIn(d.month) - d.day + e.day

(***************************************************************************)
(* No renewal is early: it comes on the day a customer expects or up to    *)
(* three days later, and is never charged before the time paid for is over *)
(* (subscription-bundle.ts:94-114).                                        *)
(***************************************************************************)
NeverEarly ==
    /\ renewalDate.month \in {DueMonth, DueMonth + 1}
    /\ DaysAfter(renewalDate, Anniversary) \in 0..3

\* The days of the years before y: every fourth is a leap year, except for three
\* turns of the century out of four.
DaysBeforeYear(y) ==
    365 * y + (y + 3) \div 4 - (y + 99) \div 100 + (y + 399) \div 400

\* The days of a common year before each of its months.
DaysBeforeMonthOfYear == <<0, 31, 59, 90, 120, 151, 181, 212, 243, 273, 304, 334>>

\* The days of all the months before this one.
DaysBefore(month) ==
    LET year == month \div 12
    IN  DaysBeforeYear(year) + DaysBeforeMonthOfYear[(month % 12) + 1]
            + (IF month % 12 > 1 /\ IsLeapYear(year) THEN 1 ELSE 0)

\* How many days e is after d.
DaysBetween(d, e) == DaysBefore(e.month) + e.day - DaysBefore(d.month) - d.day

(***************************************************************************)
(* A monthly cycle lasts as many days as the month it begins in has, and a *)
(* yearly one 365 or 366, also when it rolls over (billing-cycle.ts:8-11). *)
(***************************************************************************)
CycleLengths ==
    LET days == DaysBetween(startDate, renewalDate)
    IN  /\ cycle = "MONTHLY" => days = DaysIn(startDate.month)
        /\ cycle = "YEARLY" => days \in {365, 366}
=============================================================================
