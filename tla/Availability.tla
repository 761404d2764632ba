----------------------------- MODULE Availability -----------------------------
(***************************************************************************)
(* The working hours of one coach (src/availability): her rows in the      *)
(* WeeklyAvailability and AvailabilityOverride tables, the requests that   *)
(* create, update and remove them, and the ranges that follow for a date.  *)
(*                                                                         *)
(* An update reads the row, checks what it would become and writes it in a *)
(* second query: two updates of one row can overlap.  assertOwnership lets *)
(* the coach and admins through; a refused request changes nothing.        *)
(***************************************************************************)
EXTENDS Integers

CONSTANTS
    WeeklyIds, OverrideIds,      \* ids the two tables draw from; never reused
    Editors,                     \* updates that may be in flight at a time
    WeeklyDtos, OverrideDtos,    \* bodies of create requests
    WeeklyPatches,               \* bodies of update requests, Null where a
    OverridePatches,             \*   field is not given
    MinutesPerDay,               \* 24 * 60
    Null

Minutes == 0 .. MinutesPerDay

WeeklyRows == [weekday : 1 .. 7, startMinute : Minutes, endMinute : Minutes]

OverrideRows ==
    [date : Int, isUnavailable : BOOLEAN,
     startMinute : Minutes \cup {Null}, endMinute : Minutes \cup {Null}]

\* The DTO classes validate the bodies of requests; minutes that are given with a
\* day off are dropped unread, and left out.
ASSUME BodiesAssumption ==
    /\ MinutesPerDay \in Nat /\ Null \notin Int \cup BOOLEAN
    /\ WeeklyDtos \subseteq WeeklyRows
    /\ OverrideDtos \subseteq OverrideRows
    /\ WeeklyPatches \subseteq [weekday : 1 .. 7 \cup {Null}, startMinute : Minutes \cup {Null},
                               endMinute : Minutes \cup {Null}]
    /\ OverridePatches \subseteq [date : Int \cup {Null}, isUnavailable : BOOLEAN \cup {Null},
                                 startMinute : Minutes \cup {Null}, endMinute : Minutes \cup {Null}]

VARIABLES
    weekly,       \* the WeeklyAvailability table
    overrides,    \* the AvailabilityOverride table
    edit          \* per editor: the row it read and the patch it applies

availabilityVars == <<weekly, overrides, edit>>

-------------------------------------------------------------------------------

NoRow == [state |-> "none"]
Removed == [state |-> "removed"]
NoEdit == [table |-> "none"]

Stored(row) == row \notin {NoRow, Removed}

AvailabilityInit ==
    /\ weekly = [i \in WeeklyIds |-> NoRow]
    /\ overrides = [i \in OverrideIds |-> NoRow]
    /\ edit = [e \in Editors |-> NoEdit]

-------------------------------------------------------------------------------
(* Rows and patches *)

ValidWeekly(row) == row.startMinute < row.endMinute

ValidOverride(row) ==
    row.isUnavailable \/ /\ row.startMinute # Null /\ row.endMinute # Null
                         /\ row.startMinute < row.endMinute

\* given ?? existing
Default(given, existing) == IF given = Null THEN existing ELSE given

MergeWeekly(row, patch) ==
    [weekday     |-> Default(patch.weekday, row.weekday),
     startMinute |-> Default(patch.startMinute, row.startMinute),
     endMinute   |-> Default(patch.endMinute, row.endMinute)]

\* A day off has no minutes, whatever was given.
MergeOverride(row, patch) ==
    LET off == Default(patch.isUnavailable, row.isUnavailable)
    IN [date          |-> Default(patch.date, row.date),
        isUnavailable |-> off,
        startMinute   |-> IF off THEN Null ELSE Default(patch.startMinute, row.startMinute),
        endMinute     |-> IF off THEN Null ELSE Default(patch.endMinute, row.endMinute)]

Merge(table, row, patch) ==
    IF table = "weekly" THEN MergeWeekly(row, patch) ELSE MergeOverride(row, patch)

\* Mutant: only the given fields are written, over the row as it is by then.
WrittenFieldsOnly(current, e) == Merge(e.table, current, e.patch)

\* An update writes every field, as it was when the request read the row.
Written(current, e) == Merge(e.table, e.existing, e.patch)

-------------------------------------------------------------------------------
(* The requests *)

CreateWeekly(i) ==
    /\ weekly[i] = NoRow
    /\ \E dto \in WeeklyDtos :
         ValidWeekly(dto) /\ weekly' = [weekly EXCEPT ![i] = dto]
    /\ UNCHANGED <<overrides, edit>>

CreateOverride(i) ==
    /\ overrides[i] = NoRow
    /\ \E dto \in OverrideDtos :
         /\ ValidOverride(dto)
         /\ overrides' = [overrides EXCEPT ![i] =
              [dto EXCEPT !.startMinute = IF dto.isUnavailable THEN Null ELSE @,
                          !.endMinute = IF dto.isUnavailable THEN Null ELSE @]]
    /\ UNCHANGED <<weekly, edit>>

\* The first half of an update: read, merge and check.
StartUpdate(e) ==
    /\ edit[e] = NoEdit
    /\ \/ \E i \in WeeklyIds, p \in WeeklyPatches :
            /\ Stored(weekly[i])
            /\ ValidWeekly(MergeWeekly(weekly[i], p))
            /\ edit' = [edit EXCEPT ![e] =
                 [table |-> "weekly", id |-> i, existing |-> weekly[i], patch |-> p]]
       \/ \E i \in OverrideIds, p \in OverridePatches :
            /\ Stored(overrides[i])
            /\ ValidOverride(MergeOverride(overrides[i], p))
            /\ edit' = [edit EXCEPT ![e] =
                 [table |-> "override", id |-> i, existing |-> overrides[i], patch |-> p]]
    /\ UNCHANGED <<weekly, overrides>>

\* The second half: the write, which fails when the row is gone by now.
FinishUpdate(e) ==
    LET i == edit[e].id
    IN /\ \/ /\ edit[e].table = "weekly"
             /\ weekly' = IF Stored(weekly[i])
                          THEN [weekly EXCEPT ![i] = Written(@, edit[e])] ELSE weekly
             /\ UNCHANGED overrides
          \/ /\ edit[e].table = "override"
             /\ overrides' = IF Stored(overrides[i])
                             THEN [overrides EXCEPT ![i] = Written(@, edit[e])] ELSE overrides
             /\ UNCHANGED weekly
       /\ edit' = [edit EXCEPT ![e] = NoEdit]

RemoveWeekly(i) ==
    /\ Stored(weekly[i])
    /\ weekly' = [weekly EXCEPT ![i] = Removed]
    /\ UNCHANGED <<overrides, edit>>

RemoveOverride(i) ==
    /\ Stored(overrides[i])
    /\ overrides' = [overrides EXCEPT ![i] = Removed]
    /\ UNCHANGED <<weekly, edit>>

AvailabilityNext ==
    \/ \E i \in WeeklyIds : CreateWeekly(i) \/ RemoveWeekly(i)
    \/ \E i \in OverrideIds : CreateOverride(i) \/ RemoveOverride(i)
    \/ \E e \in Editors : StartUpdate(e) \/ FinishUpdate(e)

-------------------------------------------------------------------------------
(* The ranges of a date *)

RangeOf(row) == [startMinute |-> row.startMinute, endMinute |-> row.endMinute]

\* isoWeekdayOf: 1 to 7; date 1 is a Monday.
Weekday(date) == ((date - 1) % 7) + 1

OverridesOn(date) ==
    {overrides[i] : i \in {j \in OverrideIds : Stored(overrides[j]) /\ overrides[j].date = date}}

WeeklyOn(weekday) ==
    {RangeOf(weekly[i]) : i \in {j \in WeeklyIds : Stored(weekly[j]) /\ weekly[j].weekday = weekday}}

\* getEffectiveRangesForDate: overrides replace the weekly hours of their date,
\* and one day-off override wins over all others.
EffectiveRangesForDate(date) ==
    IF OverridesOn(date) = {} THEN WeeklyOn(Weekday(date))
    ELSE {RangeOf(o) : o \in {p \in OverridesOn(date) : \A q \in OverridesOn(date) : ~ q.isUnavailable}}

\* Mutant: the overrides of a date are added to its weekly hours.
EffectiveRangesForDateRangeAdded(from, to) ==
    [date \in from .. to |->
        WeeklyOn(Weekday(date)) \cup {RangeOf(o) : o \in {p \in OverridesOn(date) : ~ p.isUnavailable}}]

\* getEffectiveRangesForDateRange: the same for many dates, from two queries
\* whose rows are grouped by date and by weekday.
EffectiveRangesForDateRange(from, to) ==
    LET overridesByDate == [date \in from .. to |-> OverridesOn(date)]
        weeklyByWeekday == [weekday \in 1 .. 7 |-> WeeklyOn(weekday)]
    IN [date \in from .. to |->
          CASE overridesByDate[date] = {} -> weeklyByWeekday[Weekday(date)]
            [] \E o \in overridesByDate[date] : o.isUnavailable -> {}
            [] OTHER -> {RangeOf(o) : o \in overridesByDate[date]}]

\* isWithinEffectiveRange
IsWithinEffectiveRange(date, candidate) ==
    \E range \in EffectiveRangesForDate(date) :
        range.startMinute <= candidate.startMinute /\ range.endMinute >= candidate.endMinute

\* Every stored row has a start before its end, or is a day off without minutes,
\* although updates check a row that others may be changing (assertValidRange).
RangesStayValid ==
    /\ \A i \in WeeklyIds : Stored(weekly[i]) => ValidWeekly(weekly[i])
    /\ \A i \in OverrideIds : Stored(overrides[i]) =>
         /\ ValidOverride(overrides[i])
         /\ overrides[i].isUnavailable <=> overrides[i].startMinute = Null

-------------------------------------------------------------------------------
(* Why the property holds *)

CheckedWeekly(row) == row \in WeeklyRows /\ ValidWeekly(row)

CheckedOverride(row) ==
    /\ row \in OverrideRows /\ ValidOverride(row)
    /\ row.isUnavailable <=> row.startMinute = Null

RowsInv ==
    /\ weekly \in [WeeklyIds -> WeeklyRows \cup {NoRow, Removed}]
    /\ overrides \in [OverrideIds -> OverrideRows \cup {NoRow, Removed}]

\* What an update under way is going to write has been checked.
EditInv ==
    /\ edit = [e \in Editors |-> edit[e]]
    /\ \A e \in Editors :
         \/ edit[e] = NoEdit
         \/ /\ edit[e].table = "weekly" /\ edit[e].id \in WeeklyIds
            /\ CheckedWeekly(MergeWeekly(edit[e].existing, edit[e].patch))
         \/ /\ edit[e].table = "override" /\ edit[e].id \in OverrideIds
            /\ CheckedOverride(MergeOverride(edit[e].existing, edit[e].patch))

HoursInv == RowsInv /\ EditInv /\ RangesStayValid

===============================================================================
