--------------------------- MODULE InterestCalendar ---------------------------
(***************************************************************************)
(* utils.next_monthly_date() over a calendar given by the lengths of its   *)
(* months.  A date is the number of days since the calendar began; the     *)
(* months of all its years are numbered through.                           *)
(***************************************************************************)
EXTENDS Integers, Sequences

CONSTANT MonthLength     \* a sequence: the number of days in each month

ASSUME CalendarAssumption == MonthLength \in Seq(Nat \ {0}) /\ MonthLength # <<>>

Months == 1 .. Len(MonthLength)

MonthStart[m \in Months] == IF m = 1 THEN 0 ELSE MonthStart[m - 1] + MonthLength[m - 1]

MonthOf(date) == CHOOSE m \in Months : /\ MonthStart[m] <= date
                                       /\ m + 1 \in Months => date < MonthStart[m + 1]

DayOf(date) == date - MonthStart[MonthOf(date)] + 1

\* the given day of a month, or the last day of a month too short for it
InMonth(m, day) == MonthStart[m] + (IF day <= MonthLength[m] THEN day ELSE MonthLength[m]) - 1

NextMonthlyDate(after, day) ==
    LET m == MonthOf(after)
    IN  IF InMonth(m, day) <= after THEN InMonth(m + 1, day) ELSE InMonth(m, day)
=============================================================================
