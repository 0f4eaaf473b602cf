------------------------------ MODULE BankClock ------------------------------
(***************************************************************************)
(* The clock every service of the bank is built with (services/security.py *)
(* and utils.ManualClock), and the night window it decides.  Time is       *)
(* counted in slots: a day has DayLength of them, the first NightEnd being *)
(* the window [NIGHT_START, NIGHT_END).  The code reads the clock anew at  *)
(* every check, so time may pass between any two steps of an operation.    *)
(***************************************************************************)
EXTENDS Integers

CONSTANTS DayLength,   \* slots in a day
          NightEnd,    \* the night window is [0, NightEnd) of every day
          MaxTime      \* bound: the clock of a finite instance stops here

ASSUME ClockAssumption == /\ DayLength \in Nat \ {0, 1}
                          /\ NightEnd \in 1 .. DayLength - 1
                          /\ MaxTime \in Nat

VARIABLE now           \* the slot the clock shows

IsNight(m) == m % DayLength < NightEnd

NightEndsAt(m) == m - (m % DayLength) + NightEnd

Tick == /\ now < MaxTime
        /\ now' = now + 1
=============================================================================
