------------------------------ MODULE Calendar ------------------------------
(***************************************************************************)
(* The dates of the salaries: calculateNextPaymentDate, which the          *)
(* processor and the routes recurring-payments, payment-config and invites *)
(* each have a copy of.  A date is a number of days; the months begin at   *)
(* the dates MonthStart gives, as the Date objects of JavaScript know      *)
(* them.                                                                   *)
(***************************************************************************)
EXTENDS Naturals

CONSTANTS
  Week,        \* days of a week
  LastDate,    \* bound: the last date of the calendar
  LastMonth,   \* bound: the month it falls in
  MonthStart   \* the date of the first day of each month

Dates  == 0 .. LastDate
Months == 0 .. LastMonth
Length(m) == MonthStart[m + 1] - MonthStart[m]

(* The days of one month no other month has are fewer than any month's.    *)
ASSUME CalendarAssumption ==
  /\ Week \in Nat \ {0}
  /\ LastDate \in Nat /\ LastMonth \in Nat
  /\ MonthStart \in [0 .. (LastMonth + 1) -> Nat]
  /\ MonthStart[0] = 0 /\ LastDate < MonthStart[LastMonth + 1]
  /\ \A m, n \in 0 .. (LastMonth + 1) : m < n => MonthStart[m] < MonthStart[n]
  /\ \A d \in Dates : \E m \in Months :
                      MonthStart[m] <= d /\ d < MonthStart[m + 1]
  /\ \A m, n \in Months : Length(m) <= Length(n) + Length(n)

(* getMonth, counted through the years, and getDate, counted from 0.       *)
MonthOf ==
  [d \in Dates |->
    CHOOSE m \in Months : MonthStart[m] <= d /\ d < MonthStart[m + 1]]
DayOf(d) == d - MonthStart[MonthOf[d]]

(* "other" is any text the routes store without looking at it.             *)
Frequencies == {"WEEKLY", "BIWEEKLY", "MONTHLY", "other"}

(* setMonth keeps the day of the month and runs over the end of a month    *)
(* that lacks it; the switch has no default.                               *)
NextDate(d, frequency) ==
  CASE frequency = "WEEKLY"   -> d + Week
    [] frequency = "BIWEEKLY" -> d + 2 * Week
    [] frequency = "MONTHLY"  -> MonthStart[MonthOf[d] + 1] + DayOf(d)
    [] OTHER                  -> d

(* A day of the month that every month has.                                *)
FitsEveryMonth(d) == \A m \in Months : DayOf(d) < Length(m)
=============================================================================
