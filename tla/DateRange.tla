------------------------------ MODULE DateRange ------------------------------
(***************************************************************************)
(* The ends of the ranges that lists and reports are asked for             *)
(* (date-range.util.ts) and the UTC calendar (report-date.util.ts).        *)
(*                                                                         *)
(* An instant is a number, a day is DayLength of them.  An end of a range  *)
(* is a string that passed IsDateString: a calendar date or a month,       *)
(* standing for the first instant of the day or the month; or a date with  *)
(* a time, an instant, after a T or after a blank.  The code looks for the *)
(* T alone.  Zone is how far the clock of whoever reads a string without a *)
(* zone - Postgres in a query, the process in the audit list - is ahead of *)
(* UTC.                                                                    *)
(***************************************************************************)
EXTENDS Integers

CONSTANTS
    DayLength,  \* the instants of a day
    Zone,       \* offset of local time
    NoEnd       \* an end that is not given

ASSUME DateRangeAssumption ==
    /\ DayLength \in Nat \ {0}
    /\ Zone \in Int

Ends == {end \in [kind: {"date", "month", "instant", "blank"}, at: Nat] :
            end.kind \in {"date", "month"} => end.at % DayLength = 0}

DateOf(day) == [kind |-> "date", at |-> day * DayLength]
MonthOf(day) == [kind |-> "month", at |-> day * DayLength]
InstantOf(t) == [kind |-> "instant", at |-> t]
BlankAt(t) == [kind |-> "blank", at |-> t]

(* toDateKey(): the UTC day of an instant *)
DateKey(t) == t \div DayLength

(* The instant such a string denotes. *)
Parsed(end) == IF end.kind \in {"date", "month"} THEN end.at - Zone ELSE end.at

(* toInclusiveEndOfDay(): a time appended to what has no T, which leaves   *)
(* nothing that denotes an instant if there is a time already.             *)
MutantEndOfDay(end) == Parsed(end)
EndOfDay(end) == IF end.kind = "instant" THEN end.at ELSE Parsed(end) + DayLength - 1

(* Postgres takes no month for a timestamp, nor a date with two times.     *)
Readable(from, to) ==
    /\ from # NoEnd => from.kind # "month"
    /\ to # NoEnd => to.kind \in {"date", "instant"}

(* The filter startTime >= from AND startTime <= toInclusiveEndOfDay(to),  *)
(* either end optional.                                                    *)
InRange(t, from, to) ==
    /\ from # NoEnd => t >= Parsed(from)
    /\ to # NoEnd => t <= EndOfDay(to)
=============================================================================
