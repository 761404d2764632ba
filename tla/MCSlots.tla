-------------------------------- MODULE MCSlots --------------------------------
(* Instances of Slots for TLC: days of three minutes. *)
EXTENDS Slots, Sequences, TLC

CONSTANTS m1, m2, d1, e1, e2

\* Rows are told apart by what they hold only, and so are the editors.
Symmetry == Permutations(WeeklyIds) \cup Permutations(OverrideIds) \cup Permutations(Editors)

Shown(date, minutes) == [k \in 1 .. Len(minutes) |-> [date |-> date, minute |-> minutes[k]]]

\* From the times the clock shows, in order, to instants counted from 0.
Clock(times) == [t \in 0 .. (Len(times) - 1) |-> times[t + 1]]

Plain == <<0, 1, 2>>

\* PlainTime has no change of the clock.  SummerTime is one minute ahead of it,
\* skips minute 1 of date 1 and shows minute 0 of date 2 twice.
PlainTime == Clock(Shown(0, <<2>>) \o Shown(1, Plain) \o Shown(2, Plain) \o Shown(3, Plain))
SummerTime == Clock(Shown(1, <<0, 2>>) \o Shown(2, <<0, 0, 1, 2>>)
                      \o Shown(3, Plain) \o Shown(4, <<0>>))

Clocks == [zone \in {"plain", "summer"} |-> IF zone = "plain" THEN PlainTime ELSE SummerTime]

Defaults == [businessTimezone |-> "plain", cancellationNoticeHours |-> 1]

Bodies == {[businessTimezone |-> "summer", cancellationNoticeHours |-> NotGiven],
           [businessTimezone |-> NotGiven, cancellationNoticeHours |-> 0]}

Hours(weekday, from, to) == [weekday |-> weekday, startMinute |-> from, endMinute |-> to]
Special(date, from, to) ==
    [date |-> date, isUnavailable |-> FALSE, startMinute |-> from, endMinute |-> to]
DayOff(date) == [date |-> date, isUnavailable |-> TRUE, startMinute |-> Null, endMinute |-> Null]

\* A whole day, which the patches cut at 1 into the two halves of a split shift,
\* hours of a second date, a day off, and ranges to be refused.
WeekHours == {Hours(1, 0, 3), Hours(1, 1, 1)}
SpecialHours == {Special(1, 2, 1), Special(2, 0, 3), DayOff(1)}

NewStart(m) == [weekday |-> Null, startMinute |-> m, endMinute |-> Null]
NewEnd(m) == [weekday |-> Null, startMinute |-> Null, endMinute |-> m]
WeekPatches == {NewStart(1), NewEnd(1)}

NoChange == [date |-> Null, isUnavailable |-> Null, startMinute |-> Null, endMinute |-> Null]
\* Back to work until 2, refused for a day off, which has no start.
BackToWork == [NoChange EXCEPT !.isUnavailable = FALSE, !.endMinute = 2]
SpecialPatches == {BackToWork}

ASSUME ClocksAssumption == CalendarClocks
================================================================================
