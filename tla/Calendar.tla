------------------------------ MODULE Calendar ------------------------------
(***************************************************************************)
(* The bot's three calendars.  Months and challenge weeks begin at         *)
(* midnight WIB (Asia/Jakarta), which is Offset ahead of UTC; the weekly   *)
(* report uses weeks that begin at midnight UTC; and a trade is stored     *)
(* with its UTC date alone, which is read back as midnight UTC of that     *)
(* day.  A period therefore compares an instant of one zone with the       *)
(* midnights of another.                                                   *)
(*                                                                         *)
(* An instant is a number of units since midnight UTC of day 0, a Monday,  *)
(* and a day is a number.  The lengths are parameters, so that small ones  *)
(* can be explored; the months are given by their first days, since they   *)
(* are not equally long.                                                   *)
(***************************************************************************)
EXTENDS Integers

CONSTANTS
  DayLen,     \* units in a day
  Offset,     \* by how many units WIB is ahead of UTC
  WeekLen,    \* days in a week
  FirstDays   \* the days on which a month begins

ASSUME CalendarAssumption ==
  /\ DayLen \in Nat \ {0}
  /\ Offset \in 0..DayLen - 1
  /\ WeekLen \in Nat \ {0}
  /\ FirstDays \subseteq Nat /\ 0 \in FirstDays

UTCDay(i) == i \div DayLen
WIBDay(i) == (i + Offset) \div DayLen
WIBHour(i) == (i + Offset) % DayLen

(* The instants at which a day begins.                                     *)
MidnightUTC(d) == d * DayLen
MidnightWIB(d) == d * DayLen - Offset

Monday(d) == d - (d % WeekLen)
IsSunday(d) == d % WeekLen = WeekLen - 1

(* The first day of the month of d, and that of the month after month m.   *)
FirstOfMonth(d) ==
  CHOOSE m \in FirstDays : m <= d /\ \A k \in FirstDays : k <= d => k <= m

IsLast(m) == \A k \in FirstDays : k <= m

NextMonth(m) ==
  CHOOSE k \in FirstDays : k > m /\ \A j \in FirstDays : j > m => k <= j

-----------------------------------------------------------------------------
(* The filters: is a trade stored with the date d in the period?           *)

(* The month m and all later ones.                                         *)
SinceMonth(d, m) == MidnightUTC(d) >= MidnightWIB(m)

InMonth(d, m) ==
  SinceMonth(d, m) /\ (IsLast(m) \/ MidnightUTC(d) < MidnightWIB(NextMonth(m)))

(* Faulty variant: the offset of the zone has the wrong sign.              *)
InChallengeBehind(d, monday) ==
  /\ MidnightUTC(d) >= MidnightUTC(monday) + Offset
  /\ MidnightUTC(d) <= MidnightUTC(monday + WeekLen) + Offset - 1

(* From Monday, 0:00, to the last second of Sunday, WIB.                   *)
InChallenge(d, monday) ==
  /\ MidnightUTC(d) >= MidnightWIB(monday)
  /\ MidnightUTC(d) <= MidnightWIB(monday + WeekLen) - 1

InReport(d, monday) ==
  /\ MidnightUTC(d) >= MidnightUTC(monday)
  /\ MidnightUTC(d) < MidnightUTC(monday + WeekLen)
=============================================================================
