------------------------------ MODULE SlotsProofs ------------------------------
(***************************************************************************)
(* Proofs about the hours and the settings of a coach (Availability,       *)
(* Settings) under all that Slots does, for any rows, bodies and number of *)
(* requests that overlap.                                                  *)
(***************************************************************************)
EXTENDS Slots, WellFoundedInduction, TLAPS

-------------------------------------------------------------------------------
(* Rows *)

\* No row that is checked is one of the two markers of an empty place.
LEMMA RowsAreStored ==
  /\ \A row \in WeeklyRows : Stored(row)
  /\ \A row \in OverrideRows : Stored(row)
<1>1. DOMAIN NoRow = {"state"} /\ DOMAIN Removed = {"state"}
  BY DEF NoRow, Removed
<1>2. \A row \in WeeklyRows : "weekday" \in DOMAIN row
  BY DEF WeeklyRows
<1>3. \A row \in OverrideRows : "date" \in DOMAIN row
  BY DEF OverrideRows
<1>4. QED
  BY <1>1, <1>2, <1>3 DEF Stored

\* given ?? existing is of the type the two have.
LEMMA DefaultType ==
  ASSUME NEW S, NEW given \in S \cup {Null}, NEW existing \in S
  PROVE  Default(given, existing) \in S
BY DEF Default

\* A row merged with a patch is a row.
LEMMA MergeWeeklyType ==
  ASSUME NEW row \in WeeklyRows, NEW patch \in WeeklyPatches
  PROVE  MergeWeekly(row, patch) \in WeeklyRows
<1>1. /\ row.weekday \in 1 .. 7 /\ row.startMinute \in Minutes /\ row.endMinute \in Minutes
      /\ patch.weekday \in 1 .. 7 \cup {Null} /\ patch.startMinute \in Minutes \cup {Null}
      /\ patch.endMinute \in Minutes \cup {Null}
  BY BodiesAssumption DEF WeeklyRows
<1>2. /\ Default(patch.weekday, row.weekday) \in 1 .. 7
      /\ Default(patch.startMinute, row.startMinute) \in Minutes
      /\ Default(patch.endMinute, row.endMinute) \in Minutes
  BY <1>1, DefaultType
<1>3. QED
  BY <1>2 DEF MergeWeekly, WeeklyRows

\* An override merged with a patch is an override; when it passes the check it has
\* minutes exactly when it is no day off.
LEMMA MergeOverrideType ==
  ASSUME NEW row \in OverrideRows, NEW patch \in OverridePatches,
         ValidOverride(MergeOverride(row, patch))
  PROVE  CheckedOverride(MergeOverride(row, patch))
<1> DEFINE off == Default(patch.isUnavailable, row.isUnavailable)
           merged == MergeOverride(row, patch)
<1>1. /\ row.date \in Int /\ row.isUnavailable \in BOOLEAN
      /\ row.startMinute \in Minutes \cup {Null} /\ row.endMinute \in Minutes \cup {Null}
  BY DEF OverrideRows
<1>2. /\ patch.date \in Int \cup {Null} /\ patch.isUnavailable \in BOOLEAN \cup {Null}
      /\ patch.startMinute \in Minutes \cup {Null} /\ patch.endMinute \in Minutes \cup {Null}
  BY BodiesAssumption
<1>3. off \in BOOLEAN
  BY <1>1, <1>2, DefaultType
<1>4. /\ Default(patch.date, row.date) \in Int
      /\ Default(patch.startMinute, row.startMinute) \in Minutes \cup {Null}
      /\ Default(patch.endMinute, row.endMinute) \in Minutes \cup {Null}
  BY <1>1, <1>2 DEF Default
<1>5. /\ merged.isUnavailable = off
      /\ off => merged.startMinute = Null
  BY DEF MergeOverride
<1>6. merged \in OverrideRows
  BY <1>3, <1>4 DEF MergeOverride, OverrideRows
<1>7. ~ off => merged.startMinute # Null
  BY <1>5 DEF ValidOverride
<1>8. QED
  BY <1>3, <1>5, <1>6, <1>7 DEF CheckedOverride

-------------------------------------------------------------------------------
(* The hours *)

\* A new value for one weekly row keeps the invariant of the tables when it has
\* been checked or marks an empty place.
LEMMA WeeklyWritten ==
  ASSUME HoursInv, NEW i \in WeeklyIds, NEW row, CheckedWeekly(row) \/ row = Removed,
         weekly' = [weekly EXCEPT ![i] = row], UNCHANGED overrides
  PROVE  RowsInv' /\ RangesStayValid'
<1>1. weekly' \in [WeeklyIds -> WeeklyRows \cup {NoRow, Removed}]
  BY DEF HoursInv, RowsInv, CheckedWeekly
<1>2. weekly'[i] = row /\ \A j \in WeeklyIds \ {i} : weekly'[j] = weekly[j]
  BY DEF HoursInv, RowsInv
<1>3. \A j \in WeeklyIds : Stored(weekly'[j]) => ValidWeekly(weekly'[j])
  BY <1>2 DEF HoursInv, RangesStayValid, CheckedWeekly, Stored
<1>4. QED
  BY <1>1, <1>3 DEF HoursInv, RowsInv, RangesStayValid

\* The same for one override.
LEMMA OverrideWritten ==
  ASSUME HoursInv, NEW i \in OverrideIds, NEW row, CheckedOverride(row) \/ row = Removed,
         overrides' = [overrides EXCEPT ![i] = row], UNCHANGED weekly
  PROVE  RowsInv' /\ RangesStayValid'
<1>1. overrides' \in [OverrideIds -> OverrideRows \cup {NoRow, Removed}]
  BY DEF HoursInv, RowsInv, CheckedOverride
<1>2. overrides'[i] = row /\ \A j \in OverrideIds \ {i} : overrides'[j] = overrides[j]
  BY DEF HoursInv, RowsInv
<1>3. \A j \in OverrideIds : Stored(overrides'[j]) =>
        /\ ValidOverride(overrides'[j])
        /\ overrides'[j].isUnavailable <=> overrides'[j].startMinute = Null
  BY <1>2 DEF HoursInv, RangesStayValid, CheckedOverride, Stored
<1>4. QED
  BY <1>1, <1>3 DEF HoursInv, RowsInv, RangesStayValid

\* Every step of the requests for the hours keeps their invariant.
LEMMA HoursStep ==
  ASSUME HoursInv, AvailabilityNext
  PROVE  HoursInv'
<1>0. /\ weekly \in [WeeklyIds -> WeeklyRows \cup {NoRow, Removed}]
      /\ overrides \in [OverrideIds -> OverrideRows \cup {NoRow, Removed}]
      /\ edit = [e \in Editors |-> edit[e]]
  BY DEF HoursInv, RowsInv, EditInv
<1>1. ASSUME NEW i \in WeeklyIds, CreateWeekly(i) PROVE HoursInv'
  <2>1. PICK dto \in WeeklyDtos : ValidWeekly(dto) /\ weekly' = [weekly EXCEPT ![i] = dto]
    BY <1>1 DEF CreateWeekly
  <2>2. CheckedWeekly(dto)
    BY <2>1, BodiesAssumption DEF CheckedWeekly
  <2>3. RowsInv' /\ RangesStayValid'
    BY <1>1, <2>1, <2>2, WeeklyWritten DEF CreateWeekly
  <2>4. QED
    BY <1>1, <2>3 DEF CreateWeekly, HoursInv, EditInv
<1>2. ASSUME NEW i \in OverrideIds, CreateOverride(i) PROVE HoursInv'
  <2>1. PICK dto \in OverrideDtos :
          /\ ValidOverride(dto)
          /\ overrides' = [overrides EXCEPT ![i] =
               [dto EXCEPT !.startMinute = IF dto.isUnavailable THEN Null ELSE @,
                           !.endMinute = IF dto.isUnavailable THEN Null ELSE @]]
    BY <1>2 DEF CreateOverride
  <2> DEFINE row == [dto EXCEPT !.startMinute = IF dto.isUnavailable THEN Null ELSE @,
                                !.endMinute = IF dto.isUnavailable THEN Null ELSE @]
  <2>2. dto \in OverrideRows
    BY BodiesAssumption
  <2>3. /\ row \in OverrideRows /\ row.isUnavailable = dto.isUnavailable
        /\ row.startMinute = IF dto.isUnavailable THEN Null ELSE dto.startMinute
        /\ row.endMinute = IF dto.isUnavailable THEN Null ELSE dto.endMinute
    BY <2>2 DEF OverrideRows
  <2>4. CheckedOverride(row)
    BY <2>1, <2>2, <2>3 DEF CheckedOverride, ValidOverride, OverrideRows
  <2>5. RowsInv' /\ RangesStayValid'
    BY <1>2, <2>1, <2>4, OverrideWritten DEF CreateOverride
  <2>6. QED
    BY <1>2, <2>5 DEF CreateOverride, HoursInv, EditInv
<1>3. ASSUME NEW i \in WeeklyIds, RemoveWeekly(i) PROVE HoursInv'
  BY <1>3, WeeklyWritten DEF RemoveWeekly, HoursInv, EditInv
<1>4. ASSUME NEW i \in OverrideIds, RemoveOverride(i) PROVE HoursInv'
  BY <1>4, OverrideWritten DEF RemoveOverride, HoursInv, EditInv
<1>5. ASSUME NEW e \in Editors, StartUpdate(e) PROVE HoursInv'
  <2>1. RowsInv' /\ RangesStayValid'
    BY <1>5 DEF StartUpdate, HoursInv, RowsInv, RangesStayValid
  <2>2. ASSUME NEW i \in WeeklyIds, NEW p \in WeeklyPatches, Stored(weekly[i]),
               ValidWeekly(MergeWeekly(weekly[i], p)),
               edit' = [edit EXCEPT ![e] =
                 [table |-> "weekly", id |-> i, existing |-> weekly[i], patch |-> p]]
        PROVE  EditInv'
    <3>1. CheckedWeekly(MergeWeekly(weekly[i], p))
      BY <1>0, <2>2, MergeWeeklyType DEF CheckedWeekly, Stored
    <3>2. edit' = [d \in Editors |-> edit'[d]] /\ \A d \in Editors \ {e} : edit'[d] = edit[d]
      BY <1>0, <2>2
    <3>3. /\ edit'[e].table = "weekly" /\ edit'[e].id = i /\ edit'[e].existing = weekly[i]
          /\ edit'[e].patch = p
      BY <1>0, <2>2
    <3>4. QED
      BY <3>1, <3>2, <3>3 DEF HoursInv, EditInv
  <2>3. ASSUME NEW i \in OverrideIds, NEW p \in OverridePatches, Stored(overrides[i]),
               ValidOverride(MergeOverride(overrides[i], p)),
               edit' = [edit EXCEPT ![e] =
                 [table |-> "override", id |-> i, existing |-> overrides[i], patch |-> p]]
        PROVE  EditInv'
    <3>1. CheckedOverride(MergeOverride(overrides[i], p))
      BY <1>0, <2>3, MergeOverrideType DEF Stored
    <3>2. edit' = [d \in Editors |-> edit'[d]] /\ \A d \in Editors \ {e} : edit'[d] = edit[d]
      BY <1>0, <2>3
    <3>3. /\ edit'[e].table = "override" /\ edit'[e].id = i /\ edit'[e].existing = overrides[i]
          /\ edit'[e].patch = p
      BY <1>0, <2>3
    <3>4. QED
      BY <3>1, <3>2, <3>3 DEF HoursInv, EditInv
  <2>4. QED
    BY <1>5, <2>1, <2>2, <2>3 DEF StartUpdate, HoursInv
<1>6. ASSUME NEW e \in Editors, FinishUpdate(e) PROVE HoursInv'
  <2> DEFINE i == edit[e].id
  <2>1. EditInv'
    <3>1. /\ edit' = [d \in Editors |-> edit'[d]] /\ edit'[e] = NoEdit
          /\ \A d \in Editors \ {e} : edit'[d] = edit[d]
      BY <1>0, <1>6 DEF FinishUpdate
    <3>2. QED
      BY <3>1 DEF HoursInv, EditInv
  <2>2. ASSUME UNCHANGED <<weekly, overrides>> PROVE RowsInv' /\ RangesStayValid'
    BY <2>2 DEF HoursInv, RowsInv, RangesStayValid
  <2>3. CASE edit[e].table = "weekly"
    <3>1. i \in WeeklyIds /\ CheckedWeekly(MergeWeekly(edit[e].existing, edit[e].patch))
      BY <2>3 DEF HoursInv, EditInv, NoEdit
    <3>2. \/ UNCHANGED <<weekly, overrides>>
          \/ /\ weekly' = [weekly EXCEPT ![i] = MergeWeekly(edit[e].existing, edit[e].patch)]
             /\ UNCHANGED overrides
      BY <1>6, <2>3 DEF FinishUpdate, Written, Merge
    <3>3. QED
      BY <2>1, <2>2, <3>1, <3>2, WeeklyWritten DEF HoursInv
  <2>4. CASE edit[e].table = "override"
    <3>1. i \in OverrideIds /\ CheckedOverride(MergeOverride(edit[e].existing, edit[e].patch))
      BY <2>4 DEF HoursInv, EditInv, NoEdit
    <3>2. \/ UNCHANGED <<weekly, overrides>>
          \/ /\ overrides' = [overrides EXCEPT ![i] = MergeOverride(edit[e].existing, edit[e].patch)]
             /\ UNCHANGED weekly
      BY <1>6, <2>4 DEF FinishUpdate, Written, Merge
    <3>3. QED
      BY <2>1, <2>2, <3>1, <3>2, OverrideWritten DEF HoursInv
  <2>5. QED
    BY <1>6, <2>3, <2>4 DEF FinishUpdate
<1>7. QED
  BY <1>1, <1>2, <1>3, <1>4, <1>5, <1>6 DEF AvailabilityNext

\* The other steps of Slots leave the hours alone.
LEMMA HoursInvNext ==
  ASSUME HoursInv, [Next]_vars
  PROVE  HoursInv'
<1>1. ASSUME UNCHANGED availabilityVars PROVE HoursInv'
  BY <1>1 DEF availabilityVars, HoursInv, RowsInv, EditInv, RangesStayValid
<1>2. QED
  BY <1>1, HoursStep DEF Next, vars, Book, Reschedule, Cancel, Tick

\* Every row of the hours is valid in every state, although an update checks the
\* row it has read and writes it later, over what another has written meanwhile:
\* it writes all of the row it checked (AvailabilityService's update methods).
THEOREM HoursStayValid == Spec => []RangesStayValid
<1>1. ASSUME Init PROVE HoursInv
  <2>1. \A i : ~ Stored(NoRow)
    BY DEF Stored
  <2>2. QED
    BY <1>1, <2>1 DEF Init, AvailabilityInit, HoursInv, RowsInv, EditInv, RangesStayValid
<1>2. HoursInv /\ [Next]_vars => HoursInv'
  BY HoursInvNext
<1>3. HoursInv => RangesStayValid
  BY DEF HoursInv
<1>4. QED
  BY <1>1, <1>2, <1>3, PTL DEF Spec

-------------------------------------------------------------------------------
(* The settings *)

\* A record of settings is not the marker of a missing one.
LEMMA SettingsArePresent ==
  ASSUME NEW row, DOMAIN row = SettingFields
  PROVE  row # NoSettings
<1>1. DOMAIN NoSettings = {"state"} /\ "state" \notin SettingFields
  BY DEF NoSettings, SettingFields
<1>2. QED
  BY <1>1

\* A get leaves the row as it is, or with the defaults.
LEMMA EnsuredEffect ==
  ASSUME Ensured
  PROVE  settings' # NoSettings /\ Present' = Present
BY DefaultsAssumption, SettingsArePresent DEF Ensured, Present

\* What the steps of Slots do to the settings: a get, or the start or the write of
\* a PATCH.
LEMMA SettingsEffect ==
  ASSUME [Next]_vars
  PROVE  \/ UNCHANGED settingsVars
         \/ Ensured /\ UNCHANGED patching
         \/ \E e \in Patchers : StartPatch(e) \/ FinishPatch(e)
BY DEF Next, vars, SettingsNext, GetSettings, Book, Reschedule, Cancel, Tick, settingsVars

\* One PATCH being answered gives every setting that changes its new value.
OnePatchWrites ==
    \A f \in SettingFields : Present'[f] # Present[f] =>
        \E e \in Patchers : /\ patching[e] # NoPatch
                            /\ patching'[e] = NoPatch
                            /\ patching[e][f] = Present'[f]

LEMMA SettingsInvNext ==
  ASSUME SettingsInv, [Next]_vars
  PROVE  SettingsInv' /\ [OnePatchWrites]_settingsVars
<1>0. patching = [e \in Patchers |-> patching[e]]
  BY DEF SettingsInv
<1>1. CASE UNCHANGED settingsVars
  BY <1>1 DEF settingsVars, SettingsInv
<1>2. CASE Ensured /\ UNCHANGED patching
  BY <1>2, EnsuredEffect DEF SettingsInv, OnePatchWrites
<1>3. ASSUME NEW e \in Patchers, StartPatch(e) PROVE SettingsInv' /\ OnePatchWrites
  <2>1. settings' # NoSettings /\ Present' = Present
    BY <1>3, EnsuredEffect DEF StartPatch
  <2>2. patching' = [d \in Patchers |-> patching'[d]]
    BY <1>0, <1>3 DEF StartPatch
  <2>3. QED
    BY <2>1, <2>2 DEF SettingsInv, OnePatchWrites
<1>4. ASSUME NEW e \in Patchers, FinishPatch(e) PROVE SettingsInv' /\ OnePatchWrites
  <2>1. patching[e] # NoPatch /\ settings # NoSettings
    BY <1>4 DEF FinishPatch, SettingsInv
  <2>2. settings' = Patched(settings, e) /\ settings' # NoSettings
    BY <1>4, SettingsArePresent DEF FinishPatch, Patched
  <2>3. patching' = [d \in Patchers |-> patching'[d]] /\ patching'[e] = NoPatch
    BY <1>0, <1>4 DEF FinishPatch
  <2>4. Present = settings /\ Present' = Patched(settings, e)
    BY <2>1, <2>2 DEF Present
  <2>5. \A f \in SettingFields : Present'[f] # Present[f] => patching[e][f] = Present'[f]
    BY <2>4 DEF Patched
  <2>6. QED
    BY <2>1, <2>2, <2>3, <2>5 DEF SettingsInv, OnePatchWrites
<1>5. QED
  BY <1>1, <1>2, <1>3, <1>4, SettingsEffect

\* The value of a setting changes only to one that a PATCH being answered gives
\* it, however reads, first reads and other PATCHes overlap (SettingsService).
THEOREM SettingsAreKept == Spec => SettingsChangeByPatch
<1>1. Init => SettingsInv
  BY DEF Init, SettingsInit, SettingsInv
<1>2. SettingsInv /\ [Next]_vars => SettingsInv' /\ [OnePatchWrites]_settingsVars
  BY SettingsInvNext
<1>3. QED
  BY <1>1, <1>2, PTL DEF Spec, SettingsChangeByPatch, OnePatchWrites

-------------------------------------------------------------------------------
(* Ranges of many dates *)

\* The ranges computed for many dates at once, which the slots are offered from,
\* are those of each date by itself, which a booking is checked against
\* (getEffectiveRangesForDateRange, getEffectiveRangesForDate).
THEOREM RangesAgree ==
  ASSUME NEW from \in Int, NEW to \in Int, NEW date \in from .. to
  PROVE  EffectiveRangesForDateRange(from, to)[date] = EffectiveRangesForDate(date)
<1>1. Weekday(date) \in 1 .. 7
  BY DEF Weekday
<1>2. CASE OverridesOn(date) = {}
  BY <1>1, <1>2 DEF EffectiveRangesForDateRange, EffectiveRangesForDate
<1>3. CASE OverridesOn(date) # {} /\ \E o \in OverridesOn(date) : o.isUnavailable
  BY <1>3 DEF EffectiveRangesForDateRange, EffectiveRangesForDate
<1>4. CASE OverridesOn(date) # {} /\ \A o \in OverridesOn(date) : ~ o.isUnavailable
  BY <1>4 DEF EffectiveRangesForDateRange, EffectiveRangesForDate
<1>5. QED
  BY <1>2, <1>3, <1>4

-------------------------------------------------------------------------------
(* What the state of Slots is made of *)

LEMMA PresentType ==
  ASSUME PatchInv
  PROVE  Present \in SettingsRows
BY SlotsAssumption DEF PatchInv, Present

\* The instants do not depend on the zone.
LEMMA SameInstants ==
  ASSUME Present \in SettingsRows, Present' \in SettingsRows
  PROVE  Instants' = Instants /\ Instants \subseteq Int
<1>1. Present.businessTimezone \in Zones /\ Present'.businessTimezone \in Zones
  BY DEF SettingsRows
<1>2. QED
  BY <1>1, SlotsAssumption DEF Instants, Wall

\* The settings that a PATCH writes are settings.
LEMMA PatchInvStep ==
  ASSUME SettingsInv, PatchInv, [Next]_vars
  PROVE  PatchInv'
<1>0. patching = [e \in Patchers |-> patching[e]] /\ Present \in SettingsRows
  BY PresentType DEF SettingsInv
<1>1. CASE UNCHANGED settingsVars
  BY <1>1 DEF settingsVars, PatchInv
<1>2. CASE Ensured /\ UNCHANGED patching
  BY <1>0, <1>2 DEF Ensured, PatchInv
<1>3. ASSUME NEW e \in Patchers, StartPatch(e) PROVE PatchInv'
  <2>1. PICK body \in SettingsPatches : patching' = [patching EXCEPT ![e] = body]
    BY <1>3 DEF StartPatch
  <2>2. patching'[e] = body /\ \A d \in Patchers \ {e} : patching'[d] = patching[d]
    BY <1>0, <2>1
  <2>3. settings' \in SettingsRows
    BY <1>0, <1>3 DEF StartPatch, Ensured
  <2>4. QED
    BY <2>2, <2>3 DEF PatchInv
<1>4. ASSUME NEW e \in Patchers, FinishPatch(e) PROVE PatchInv'
  <2>1. patching[e] # NoPatch /\ settings # NoSettings
    BY <1>4 DEF FinishPatch, SettingsInv
  <2>2. settings \in SettingsRows /\ patching[e] \in SettingsPatches
    BY <2>1 DEF PatchInv
  <2>3. Patched(settings, e) \in SettingsRows
    <3> DEFINE body == patching[e]
    <3>1. /\ body.businessTimezone \in Zones \cup {NotGiven}
          /\ body.cancellationNoticeHours \in Nat \cup {NotGiven}
      BY <2>2, SlotsAssumption
    <3>2. settings.businessTimezone \in Zones /\ settings.cancellationNoticeHours \in Nat
      BY <2>2 DEF SettingsRows
    <3>3. Patched(settings, e) =
            [businessTimezone |->
               IF body.businessTimezone = NotGiven THEN settings.businessTimezone
               ELSE body.businessTimezone,
             cancellationNoticeHours |->
               IF body.cancellationNoticeHours = NotGiven THEN settings.cancellationNoticeHours
               ELSE body.cancellationNoticeHours]
      BY DEF Patched, SettingFields
    <3>4. QED
      BY <3>1, <3>2, <3>3 DEF SettingsRows
  <2>4. patching'[e] = NoPatch /\ \A d \in Patchers \ {e} : patching'[d] = patching[d]
    BY <1>0, <1>4 DEF FinishPatch
  <2>5. QED
    BY <1>4, <2>3, <2>4 DEF FinishPatch, PatchInv
<1>5. QED
  BY <1>1, <1>2, <1>3, <1>4, SettingsEffect

\* Bookings are made of instants and end after they start.
LEMMA BookedInvStep ==
  ASSUME PatchInv, PatchInv', BookedInv, [Next]_vars
  PROVE  BookedInv'
<1>0. Present \in SettingsRows /\ Present' \in SettingsRows
  BY SlotsAssumption DEF PatchInv, Present
<1>1. Instants' = Instants /\ Instants \subseteq Int
  BY <1>0, SameInstants
<1>2. ASSUME NEW s \in Slots
      PROVE  s.startAt \in Instants /\ s.endAt \in Instants /\ s.startAt <= s.endAt
  <2>1. PICK t \in Instants, d \in Durations : s = [startAt |-> t, endAt |-> t + d]
    BY DEF Slots
  <2>2. t \in Int /\ d \in Nat
    BY <1>1, SlotsAssumption
  <2>3. QED
    BY <2>1, <2>2 DEF Slots
<1>3. CASE UNCHANGED <<confirmed, now>>
  BY <1>1, <1>3 DEF BookedInv
<1>4. ASSUME NEW s \in Slots,
             Book(s) \/ \E b \in confirmed : s = MovedTo(b, s.startAt) /\ Reschedule(b, s.startAt)
      PROVE  BookedInv'
  <2>1. confirmed' \subseteq confirmed \cup {s} /\ UNCHANGED now
    BY <1>4 DEF Book, Reschedule
  <2>2. QED
    BY <1>1, <1>2, <2>1 DEF BookedInv
<1>5. ASSUME NEW b \in confirmed, Cancel(b) PROVE BookedInv'
  BY <1>1, <1>5 DEF Cancel, BookedInv
<1>6. CASE Tick
  BY <1>1, <1>6 DEF Tick, BookedInv
<1>7. QED
  BY <1>3, <1>4, <1>5, <1>6 DEF Next, vars

-------------------------------------------------------------------------------
(* The clock *)

\* The zone in force is one of the given ones.
LEMMA WallIsCalendar ==
  ASSUME PatchInv, CalendarClocks
  PROVE  /\ CalendarClock(Wall) /\ Instants = DOMAIN Wall /\ Instants \subseteq Int
         /\ Notice \in Nat
<1>1. Present.businessTimezone \in Zones /\ Present.cancellationNoticeHours \in Nat
  BY PresentType DEF SettingsRows
<1>2. QED
  BY <1>1, SlotsAssumption DEF CalendarClocks, Wall, Instants, Notice

\* startOf('day') is the first instant of the date.
LEMMA DayBegins ==
  ASSUME CalendarClock(Wall), Instants \subseteq Int, NEW date \in Int, NEW t, Begins(Wall, date, t)
  PROVE  StartOfDay(date) = t
<1> DEFINE P(x) == DateOf(x) = date /\ (x - 1 \in Instants => DateOf(x - 1) # date)
<1>1. t \in Instants /\ t \in Int /\ DateOf(t) = date
  BY DEF Begins, Instants, DateOf
<1>2. \A u \in Instants : DateOf(u) = date => t <= u
  BY DEF Begins, Instants, DateOf
<1>3. P(t)
  <2>1. t - 1 \in Instants => ~ (t <= t - 1)
    BY <1>1
  <2>2. QED
    BY <1>1, <1>2, <2>1
<1>4. ASSUME NEW x \in Instants, P(x) PROVE x = t
  <2>1. t <= x /\ x \in Int
    BY <1>2, <1>4
  <2>2. ASSUME t < x PROVE FALSE
    <3>1. x - 1 \in t .. x
      BY <1>1, <2>1, <2>2
    <3>2. x - 1 \in Instants
      BY <1>1, <2>1, <3>1 DEF CalendarClock, Instants
    <3>3. t <= x - 1 /\ x - 1 <= x
      BY <1>1, <2>1, <2>2
    <3>4. DateOf(t) <= DateOf(x - 1) /\ DateOf(x - 1) <= DateOf(x)
      BY <1>1, <1>4, <3>2, <3>3 DEF CalendarClock, Instants, DateOf
    <3>5. DateOf(x - 1) \in Int
      BY <3>2 DEF CalendarClock, Instants, DateOf
    <3>6. DateOf(x - 1) = date
      BY <1>1, <1>4, <3>4, <3>5
    <3>7. QED
      BY <1>4, <3>2, <3>6
  <2>3. QED
    BY <1>1, <2>1, <2>2
<1>5. StartOfDay(date) = CHOOSE x \in Instants : P(x)
  BY DEF StartOfDay, Instants, DateOf
<1>6. QED
  BY <1>1, <1>3, <1>4, <1>5

\* Every date between two that the clock shows begins somewhere, and all earlier
\* dates are over then.
LEMMA DatesInOrder ==
  ASSUME CalendarClock(Wall), Instants \subseteq Int,
         NEW t \in Instants, NEW u \in Instants,
         NEW date \in DateOf(t) .. DateOf(u)
  PROVE  /\ Begins(Wall, date, StartOfDay(date)) /\ StartOfDay(date) \in Instants
         /\ \A v \in Instants : v < StartOfDay(date) <=> DateOf(v) < date
<1>1. DateOf(t) \in Int /\ DateOf(u) \in Int /\ date \in Int
  BY DEF CalendarClock, Instants, DateOf
<1>2. PICK v \in Instants : Begins(Wall, date, v)
  <2>1. CASE t <= u
    BY <2>1 DEF CalendarClock, Instants, DateOf
  <2>2. CASE u < t
    <3>1. DateOf(u) <= DateOf(t)
      BY <2>2 DEF CalendarClock, Instants, DateOf
    <3>2. date = DateOf(u)
      BY <1>1, <3>1
    <3>3. u <= u
      OBVIOUS
    <3>4. \E v \in Instants : Begins(Wall, DateOf(u), v)
      BY <1>1, <3>3 DEF CalendarClock, Instants, DateOf
    <3>5. QED
      BY <3>2, <3>4
  <2>3. QED
    BY <2>1, <2>2
<1>3. v = StartOfDay(date)
  BY <1>1, <1>2, DayBegins
<1>4. ASSUME NEW w \in Instants PROVE w < v <=> DateOf(w) < date
  <2>1. DateOf(v) = date /\ (DateOf(w) = date => v <= w) /\ DateOf(w) \in Int
    BY <1>2 DEF Begins, Instants, DateOf, CalendarClock
  <2>2. w <= v => DateOf(w) <= DateOf(v)
    BY DEF CalendarClock, Instants, DateOf
  <2>3. v <= w => DateOf(v) <= DateOf(w)
    BY DEF CalendarClock, Instants, DateOf
  <2>4. v \in Int /\ w \in Int
    OBVIOUS
  <2>5. QED
    BY <1>1, <2>1, <2>2, <2>3, <2>4
<1>5. QED
  BY <1>2, <1>3, <1>4

\* An asked date, and the one after it, begin where startOf('day') says.
LEMMA AskedDatesBegin ==
  ASSUME CalendarClock(Wall), Instants \subseteq Int, NEW date \in AskedDates, date \in Int
  PROVE  /\ StartOfDay(date) \in Instants /\ StartOfDay(date + 1) \in Instants
         /\ \A v \in Instants : v < StartOfDay(date) <=> DateOf(v) < date
         /\ \A v \in Instants : v < StartOfDay(date + 1) <=> DateOf(v) < date + 1
<1>1. PICK t \in Instants, u \in Instants : DateOf(t) = date /\ DateOf(u) = date + 1
  BY DEF CalendarClock, Begins, Instants, DateOf
<1>2. date \in DateOf(t) .. DateOf(u) /\ date + 1 \in DateOf(t) .. DateOf(u)
  BY <1>1
<1>3. QED
  BY <1>2, DatesInOrder

\* A set of integers with a lower bound has a least member.
LEMMA LeastMember ==
  ASSUME NEW S, S \subseteq Int, S # {}, NEW low \in Int, \A t \in S : low <= t
  PROVE  \E t \in S : \A u \in S : t <= u
<1> DEFINE Less == {p \in Nat \X Nat : p[1] < p[2]}
           T == {t - low : t \in S}
<1>1. IsWellFoundedOn(Less, Nat)
  BY NatLessThanWellFounded, Zenon DEF OpToRel
<1>2. T \subseteq Nat /\ T # {}
  <2>1. \A t \in S : t - low \in Nat
    OBVIOUS
  <2>2. PICK t \in S : TRUE
    OBVIOUS
  <2>3. t - low \in T
    BY <2>2
  <2>4. QED
    BY <2>1, <2>3, Zenon
<1>3. PICK x \in T : \A y \in T : ~ (<<y, x>> \in Less)
  <2> HIDE DEF Less, T
  <2>1. QED
    BY <1>1, <1>2, WFMin
<1>4. PICK t \in S : x = t - low
  OBVIOUS
<1>5. ASSUME NEW u \in S PROVE t <= u
  <2>1. u - low \in T /\ x \in Nat /\ u - low \in Nat
    BY <1>2
  <2>2. ~ (u - low < x)
    BY <1>3, <2>1
  <2>3. QED
    BY <1>4, <2>1, <2>2
<1>6. QED
  BY <1>5

\* day.set({hour, minute}) stays on the date, at the minute or after it; unless
\* the clock was set back before it, no more than the minute has elapsed since
\* midnight.
LEMMA SetMinuteBounds ==
  ASSUME CalendarClock(Wall), Instants \subseteq Int, NEW date \in AskedDates, date \in Int,
         NEW m \in 0 .. (MinutesPerDay - 1)
  PROVE  LET t == SetMinute(date, m) IN
         /\ t \in Instants /\ DateOf(t) = date /\ StartOfDay(date) <= t
         /\ MinuteOf(t) >= m /\ MinuteOf(t) \in Nat
         /\ ~ ClockWentBack(t) => t <= StartOfDay(date) + m
         /\ t .. (t + MinutesPerDay) \subseteq Instants
<1> DEFINE shown == {t \in Instants : Wall[t] = [date |-> date, minute |-> m]}
<1>0. MinutesPerDay \in Nat /\ m \in Nat /\ m < MinutesPerDay
  BY BodiesAssumption
<1>1. PICK t0 \in Instants :
        /\ Begins(Wall, date, t0)
        /\ \A k \in 0 .. (MinutesPerDay - 1) :
             \/ Wall[t0 + k].date = date /\ Wall[t0 + k].minute >= k
             \/ \E u \in Instants : Wall[u] = [date |-> date, minute |-> k]
  BY DEF CalendarClock, Instants
<1>2. StartOfDay(date) = t0 /\ t0 \in Int /\ DateOf(t0) = date
  BY <1>1, DayBegins DEF Begins, DateOf
<1>3. ASSUME NEW t \in Instants, DateOf(t) = date
      PROVE  /\ t0 <= t /\ t \in Int /\ MinuteOf(t) \in Nat
             /\ t .. (t + MinutesPerDay) \subseteq Instants
  <2>1. t0 <= t /\ t \in Int
    BY <1>1, <1>3 DEF Begins, Instants, DateOf
  <2>2. MinuteOf(t) \in Nat
    BY DEF CalendarClock, Instants, MinuteOf
  <2>3. t + MinutesPerDay \in Instants
    BY <1>3 DEF CalendarClock, Instants, DateOf
  <2>4. t <= t + MinutesPerDay
    BY <1>0, <2>1
  <2>5. QED
    BY <2>1, <2>2, <2>3, <2>4 DEF CalendarClock, Instants
<1>4. CASE shown # {}
  <2>1. \A t \in shown : t \in Instants /\ DateOf(t) = date /\ MinuteOf(t) = m
    BY DEF DateOf, MinuteOf
  <2>2. SetMinute(date, m) = CHOOSE t \in shown : \A u \in shown : t <= u
    BY <1>4 DEF SetMinute, Instants
  <2>3. \E t \in shown : \A u \in shown : t <= u
    <3>1. shown \subseteq Int /\ \A t \in shown : t0 <= t
      BY <1>3, <2>1
    <3> HIDE DEF shown
    <3>2. QED
      BY <1>2, <1>4, <3>1, LeastMember
  <2>4. SetMinute(date, m) \in shown
    <3> HIDE DEF shown
    <3>1. QED
      BY <2>2, <2>3
  <2> DEFINE t == SetMinute(date, m)
  <2>5. t \in Instants /\ DateOf(t) = date /\ MinuteOf(t) = m
    BY <2>1, <2>4
  <2> HIDE DEF t
  <2>6. /\ t0 <= t /\ t \in Int /\ t .. (t + MinutesPerDay) \subseteq Instants
    BY <1>3, <2>5
  <2>7. ~ ClockWentBack(t) => t <= t0 + m
    BY <1>0, <1>2, <2>5, <2>6 DEF ClockWentBack
  <2>8. QED
    BY <1>0, <1>2, <2>5, <2>6, <2>7 DEF t
<1>5. CASE shown = {}
  <2>1. SetMinute(date, m) = t0 + m
    BY <1>2, <1>5 DEF SetMinute, Instants
  <2>2. DateOf(t0 + m) = date /\ MinuteOf(t0 + m) >= m
    BY <1>1, <1>5 DEF DateOf, MinuteOf
  <2>3. t0 + m \in Instants
    <3>1. t0 + m \in t0 .. (t0 + MinutesPerDay)
      BY <1>0, <1>2
    <3>2. QED
      BY <1>2, <1>3, <3>1
  <2>4. /\ t0 <= t0 + m /\ MinuteOf(t0 + m) \in Nat
        /\ (t0 + m) .. (t0 + m + MinutesPerDay) \subseteq Instants
    BY <1>3, <2>2, <2>3
  <2>5. t0 + m <= t0 + m
    BY <1>0, <1>2
  <2>6. QED
    BY <1>2, <2>1, <2>2, <2>3, <2>4, <2>5
<1>6. QED
  BY <1>4, <1>5

-------------------------------------------------------------------------------
(* Offers and checks *)

\* The ranges of a date are made of minutes: a day off leaves none.
LEMMA RangeType ==
  ASSUME HoursInv, NEW date, NEW g \in EffectiveRangesForDate(date)
  PROVE  g.startMinute \in Minutes /\ g.endMinute \in Minutes
<1>1. CASE OverridesOn(date) = {}
  <2>1. PICK i \in WeeklyIds : Stored(weekly[i]) /\ g = RangeOf(weekly[i])
    BY <1>1 DEF EffectiveRangesForDate, WeeklyOn
  <2>2. weekly[i] \in WeeklyRows
    BY <2>1 DEF HoursInv, RowsInv, Stored
  <2>3. weekly[i].startMinute \in Minutes /\ weekly[i].endMinute \in Minutes
    BY <2>2 DEF WeeklyRows
  <2>4. QED
    BY <2>1, <2>3 DEF RangeOf
<1>2. CASE OverridesOn(date) # {}
  <2>1. PICK o \in OverridesOn(date) : g = RangeOf(o) /\ ~ o.isUnavailable
    BY <1>2 DEF EffectiveRangesForDate
  <2>2. PICK i \in OverrideIds : Stored(overrides[i]) /\ o = overrides[i]
    BY DEF OverridesOn
  <2>3. o \in OverrideRows /\ ValidOverride(o)
    BY <2>2 DEF HoursInv, RowsInv, RangesStayValid, Stored
  <2>4. /\ o.startMinute \in Minutes \cup {Null} /\ o.endMinute \in Minutes \cup {Null}
        /\ o.startMinute # Null /\ o.endMinute # Null
    BY <2>1, <2>3 DEF OverrideRows, ValidOverride
  <2>5. QED
    BY <2>1, <2>4 DEF RangeOf
<1>3. QED
  BY <1>1, <1>2

\* A slot that is offered starts at a step of a range of an asked date.
LEMMA CandidateOrigin ==
  ASSUME NEW from \in Int, NEW to \in Int, NEW duration,
         NEW s \in CandidateSlots(from, to, duration)
  PROVE  \E date \in from .. to : \E g \in EffectiveRangesForDate(date) :
           \E m \in StartMinutes(g, duration) :
             s.startAt = SetMinute(date, m) /\ s.endAt = SetMinute(date, m) + duration
<1> DEFINE ranges == EffectiveRangesForDateRange(from, to)
           starts(date) == UNION {{SetMinute(date, m) : m \in StartMinutes(g, duration)} :
                                    g \in ranges[date]}
<1>1. PICK t \in UNION {starts(date) : date \in from .. to} :
        s = [startAt |-> t, endAt |-> t + duration]
  BY DEF CandidateSlots
<1>2. PICK date \in from .. to : t \in starts(date)
  OBVIOUS
<1>3. PICK g \in ranges[date] : t \in {SetMinute(date, m) : m \in StartMinutes(g, duration)}
  BY <1>2
<1>4. PICK m \in StartMinutes(g, duration) : t = SetMinute(date, m)
  BY <1>3
<1>5. g \in EffectiveRangesForDate(date)
  BY <1>3, RangesAgree
<1>6. QED
  BY <1>1, <1>4, <1>5

\* A booking that does not run across midnight and that the query for the asked
\* dates does not find is over before they begin or begins after them.
LEMMA MissedBookings ==
  ASSUME CalendarClock(Wall), Instants \subseteq Int,
         NEW from \in AskedDates, NEW to \in AskedDates, from \in Int, to \in Int,
         NEW b, b.startAt \in Instants, b.endAt \in Instants, ~ Straddles(b),
         ~ (b.startAt >= StartOfDay(from) /\ b.endAt <= StartOfDay(to + 1))
  PROVE  b.endAt <= StartOfDay(from) \/ b.startAt >= StartOfDay(to + 1)
<1> DEFINE day == DateOf(b.startAt)
<1>1. /\ StartOfDay(from) \in Instants /\ StartOfDay(to + 1) \in Instants
      /\ \A v \in Instants : v < StartOfDay(from) <=> DateOf(v) < from
      /\ \A v \in Instants : v < StartOfDay(to + 1) <=> DateOf(v) < to + 1
  BY AskedDatesBegin
<1>2. day \in Int /\ b.startAt \in Int /\ b.endAt \in Int
  BY DEF DateOf, CalendarClock, Instants
<1>0. StartOfDay(from) \in Int /\ StartOfDay(to + 1) \in Int
  BY <1>1
<1>3. ASSUME NEW next \in Int, day < next, NEW u \in Instants, DateOf(u) = next,
             StartOfDay(next) \in Int,
             \A v \in Instants : v < StartOfDay(next) <=> DateOf(v) < next
      PROVE  b.endAt <= StartOfDay(next)
  <2>1. day + 1 \in DateOf(b.startAt) .. DateOf(u)
    BY <1>2, <1>3
  <2>2. /\ Begins(Wall, day + 1, StartOfDay(day + 1)) /\ StartOfDay(day + 1) \in Instants
        /\ \A v \in Instants : v < StartOfDay(day + 1) <=> DateOf(v) < day + 1
    BY <2>1, DatesInOrder
  <2>0. StartOfDay(day + 1) \in Int
    BY <2>2
  <2>3. b.endAt <= StartOfDay(day + 1)
    BY <1>2, <2>0 DEF Straddles
  <2>4. StartOfDay(day + 1) <= StartOfDay(next)
    <3>1. CASE day + 1 = next
      BY <1>3, <2>0, <3>1
    <3>2. CASE day + 1 < next
      <4>1. DateOf(StartOfDay(day + 1)) = day + 1
        BY <2>2 DEF Begins, DateOf
      <4>2. StartOfDay(day + 1) < StartOfDay(next)
        BY <1>3, <2>2, <3>2, <4>1
      <4>3. QED
        BY <1>3, <2>0, <4>2
    <3>3. QED
      BY <1>2, <1>3, <3>1, <3>2
  <2>5. QED
    BY <1>2, <1>3, <2>0, <2>3, <2>4
<1>4. /\ \E u \in Instants : DateOf(u) = from
      /\ \E u \in Instants : DateOf(u) = to + 1
  BY DEF CalendarClock, Begins, DateOf, Instants
<1>5. CASE b.startAt < StartOfDay(from)
  <2>1. day < from
    BY <1>1, <1>5
  <2>2. b.endAt <= StartOfDay(from)
    BY <1>0, <1>1, <1>3, <1>4, <2>1
  <2>3. QED
    BY <2>2
<1>6. CASE b.endAt > StartOfDay(to + 1)
  <2>1. ASSUME day < to + 1 PROVE FALSE
    <3>1. to + 1 \in Int
      OBVIOUS
    <3>2. b.endAt <= StartOfDay(to + 1)
      BY <1>0, <1>1, <1>3, <1>4, <2>1, <3>1
    <3>3. QED
      BY <1>0, <1>2, <1>6, <3>2
  <2>2. ~ (b.startAt < StartOfDay(to + 1))
    BY <1>1, <2>1
  <2>3. QED
    BY <1>0, <1>2, <2>2
<1>7. QED
  BY <1>0, <1>2, <1>5, <1>6

\* The dates of a request are asked dates.
LEMMA AskedRange ==
  ASSUME NEW from \in Dates, NEW to \in Dates
  PROVE  from .. to \subseteq AskedDates
<1>1. from .. to \subseteq UNION {from .. t : t \in Dates}
  BY Zenon
<1>2. UNION {from .. t : t \in Dates} \in {UNION {f .. t : t \in Dates} : f \in Dates}
  BY Zenon
<1>3. QED
  BY <1>1, <1>2, Zenon DEF AskedDates

\* What is known of a slot that is offered: its date, its range and its minute.
LEMMA OfferOrigin ==
  ASSUME SlotsInv, CalendarClocks,
         NEW from \in Dates, NEW to \in Dates, NEW duration \in Durations, NEW excluded,
         ValidDateRange(from, to), NEW s \in ComputeSlots(from, to, duration, excluded)
  PROVE  \E date \in from .. to : \E g \in EffectiveRangesForDate(date) :
           \E m \in 0 .. (MinutesPerDay - 1) :
             /\ g.startMinute \in Int /\ g.endMinute \in Int /\ g.endMinute <= MinutesPerDay
             /\ g.startMinute <= m /\ m + duration <= g.endMinute
             /\ s.startAt = SetMinute(date, m) /\ s.endAt = SetMinute(date, m) + duration
<1>0. HoursInv
  BY DEF SlotsInv
<1>1. from \in Int /\ to \in Int /\ duration \in Nat /\ duration > 0
  BY SlotsAssumption
<1>2. s \in CandidateSlots(from, to, duration)
  BY DEF ComputeSlots
<1>3. PICK date \in from .. to : \E g \in EffectiveRangesForDate(date) :
        \E m \in StartMinutes(g, duration) :
          s.startAt = SetMinute(date, m) /\ s.endAt = SetMinute(date, m) + duration
  BY <1>1, <1>2, CandidateOrigin
<1>4. PICK g \in EffectiveRangesForDate(date) :
        \E m \in StartMinutes(g, duration) :
          s.startAt = SetMinute(date, m) /\ s.endAt = SetMinute(date, m) + duration
  BY <1>3
<1>5. PICK m \in StartMinutes(g, duration) :
        s.startAt = SetMinute(date, m) /\ s.endAt = SetMinute(date, m) + duration
  BY <1>4
<1>6. g.startMinute \in Minutes /\ g.endMinute \in Minutes
  BY <1>0, RangeType
<1>7. /\ g.startMinute <= m /\ m + duration <= g.endMinute
      /\ m \in 0 .. (MinutesPerDay - 1) /\ g.startMinute \in Int /\ g.endMinute \in Int
      /\ g.endMinute <= MinutesPerDay
  BY <1>1, <1>5, <1>6, BodiesAssumption DEF StartMinutes, Minutes
<1>8. QED
  BY <1>5, <1>7

\* From the start of a slot that is offered, whatever ends with it or before it on
\* that date is not past, is within the hours unless the clock was set back, and
\* overlaps bookings across midnight only.
LEMMA OfferHolds ==
  ASSUME SlotsInv, CalendarClocks,
         NEW from \in Dates, NEW to \in Dates, NEW duration \in Durations, NEW excluded,
         ValidDateRange(from, to), NEW s \in ComputeSlots(from, to, duration, excluded)
  PROVE  /\ s.startAt \in Int /\ s.endAt \in Int /\ s.startAt <= s.endAt
         /\ \A part :
              /\ part.startAt = s.startAt /\ part.endAt \in Int
              /\ part.startAt <= part.endAt /\ part.endAt <= s.endAt
              /\ SameCalendarDay(part)
              => /\ Unhindered(part, excluded)
                 /\ ClockWentBack(part.startAt) \/ WithinSchedule(part)
<1>1. /\ CalendarClock(Wall) /\ Instants = DOMAIN Wall /\ Instants \subseteq Int /\ Notice \in Nat
      /\ BookedInv
  BY WallIsCalendar DEF SlotsInv
<1>2. /\ from \in Int /\ to \in Int /\ from <= to /\ duration \in Nat /\ duration > 0
      /\ MinutesPerDay \in Nat
  BY SlotsAssumption, BodiesAssumption DEF ValidDateRange
<1>3. s.startAt >= now + Notice
  BY DEF ComputeSlots
<1>4. PICK date \in from .. to : \E g \in EffectiveRangesForDate(date) :
        \E m \in 0 .. (MinutesPerDay - 1) :
          /\ g.startMinute \in Int /\ g.endMinute \in Int /\ g.endMinute <= MinutesPerDay
          /\ g.startMinute <= m /\ m + duration <= g.endMinute
          /\ s.startAt = SetMinute(date, m) /\ s.endAt = SetMinute(date, m) + duration
  BY OfferOrigin
<1>5. PICK g \in EffectiveRangesForDate(date) : \E m \in 0 .. (MinutesPerDay - 1) :
          /\ g.startMinute \in Int /\ g.endMinute \in Int /\ g.endMinute <= MinutesPerDay
          /\ g.startMinute <= m /\ m + duration <= g.endMinute
          /\ s.startAt = SetMinute(date, m) /\ s.endAt = SetMinute(date, m) + duration
  BY <1>4
<1>6. PICK m \in 0 .. (MinutesPerDay - 1) :
          /\ g.startMinute \in Int /\ g.endMinute \in Int /\ g.endMinute <= MinutesPerDay
          /\ g.startMinute <= m /\ m + duration <= g.endMinute
          /\ s.startAt = SetMinute(date, m) /\ s.endAt = SetMinute(date, m) + duration
  BY <1>5
<1>7. m \in Int /\ date \in Int /\ from <= date /\ date <= to
  BY <1>2
<1>8. from \in AskedDates /\ to \in AskedDates /\ date \in AskedDates
  <2>1. from \in from .. to /\ to \in from .. to
    BY <1>2
  <2>2. QED
    BY <2>1, AskedRange
<1> DEFINE t == SetMinute(date, m)
           midnight == StartOfDay(date)
<1>9. /\ t \in Instants /\ DateOf(t) = date /\ midnight <= t
      /\ MinuteOf(t) >= m /\ MinuteOf(t) \in Nat
      /\ ~ ClockWentBack(t) => t <= midnight + m
      /\ t .. (t + MinutesPerDay) \subseteq Instants
  BY <1>1, <1>7, <1>8, SetMinuteBounds
<1>10. midnight \in Instants /\ midnight \in Int
  BY <1>1, <1>8, AskedDatesBegin
<1> HIDE DEF t, midnight
<1>11. s.startAt = t /\ s.endAt = t + duration /\ t \in Int
  BY <1>1, <1>6, <1>9 DEF t
<1>12. s.startAt \in Int /\ s.endAt \in Int /\ s.startAt <= s.endAt
  BY <1>2, <1>11
<1>13. ASSUME NEW part, part.startAt = s.startAt, part.endAt \in Int,
              part.startAt <= part.endAt, part.endAt <= s.endAt, SameCalendarDay(part)
       PROVE  /\ Unhindered(part, excluded)
              /\ ClockWentBack(part.startAt) \/ WithinSchedule(part)
  <2>1. part.startAt = t /\ t <= part.endAt /\ part.endAt <= t + duration
    BY <1>11, <1>13
  <2>2. part.startAt >= now
    BY <1>1, <1>3, <1>11, <2>1 DEF BookedInv
  <2>3. ASSUME ~ ClockWentBack(part.startAt) PROVE WithinSchedule(part)
    <3>1. /\ Candidate(part).startMinute = MinuteOf(t)
          /\ Candidate(part).endMinute = part.endAt - midnight
      <4>1. DateOf(part.startAt) = date
        BY <1>9, <2>1
      <4>2. MinuteOf(part.startAt) = MinuteOf(t) /\ StartOfDay(DateOf(part.startAt)) = midnight
        BY <2>1, <4>1, Zenon DEF midnight
      <4>3. /\ Candidate(part).startMinute = MinuteOf(part.startAt)
            /\ Candidate(part).endMinute = part.endAt - StartOfDay(DateOf(part.startAt))
        BY Zenon DEF Candidate
      <4>4. QED
        BY <4>2, <4>3, Zenon
    <3>2. g.startMinute <= MinuteOf(t) /\ g.endMinute >= part.endAt - midnight
      <4>1. t <= midnight + m
        BY <1>9, <2>1, <2>3
      <4>2. QED
        BY <1>2, <1>6, <1>7, <1>9, <1>10, <1>11, <1>13, <2>1, <4>1
    <3>3. QED
      BY <1>5, <1>9, <2>1, <3>1, <3>2 DEF WithinSchedule, IsWithinEffectiveRange
  <2>4. ASSUME NEW b \in confirmed \ excluded, ~ Straddles(b) PROVE ~ Overlap(b, part)
    <3>1. /\ b.startAt \in Instants /\ b.endAt \in Instants
          /\ b.startAt \in Int /\ b.endAt \in Int
      BY <1>1 DEF BookedInv
    <3>2. CASE b.startAt >= StartOfDay(from) /\ b.endAt <= StartOfDay(to + 1)
      <4>1. ~ Overlap(b, s)
        BY <3>2 DEF ComputeSlots, ExistingBookings
      <4>2. QED
        BY <1>2, <1>11, <1>13, <2>1, <3>1, <4>1 DEF Overlap
    <3>3. CASE ~ (b.startAt >= StartOfDay(from) /\ b.endAt <= StartOfDay(to + 1))
      <4>1. b.endAt <= StartOfDay(from) \/ b.startAt >= StartOfDay(to + 1)
        BY <1>1, <1>2, <1>8, <2>4, <3>1, <3>3, MissedBookings
      <4>2. /\ StartOfDay(from) \in Int /\ StartOfDay(to + 1) \in Int
            /\ \A v \in Instants : v < StartOfDay(from) <=> DateOf(v) < from
            /\ \A v \in Instants : v < StartOfDay(to + 1) <=> DateOf(v) < to + 1
        BY <1>1, <1>2, <1>8, AskedDatesBegin
      <4>3. part.startAt >= StartOfDay(from)
        BY <1>2, <1>7, <1>9, <1>11, <2>1, <4>2
      <4>4. part.endAt \in Instants
        <5>1. part.endAt \in t .. (t + MinutesPerDay)
          <6>1. duration <= MinutesPerDay
            BY <1>2, <1>6, <1>7
          <6>2. QED
            BY <1>2, <1>11, <1>13, <2>1, <6>1
        <5>2. QED
          BY <1>9, <5>1
      <4>5. DateOf(part.endAt) = date
        BY <1>9, <1>13, <2>1 DEF SameCalendarDay
      <4>6. part.endAt < StartOfDay(to + 1)
        BY <1>2, <1>7, <4>2, <4>4, <4>5
      <4>7. QED
        BY <1>11, <1>13, <2>1, <3>1, <4>1, <4>2, <4>3, <4>6 DEF Overlap
    <3>4. QED
      BY <3>2, <3>3
  <2>5. QED
    BY <2>2, <2>3, <2>4 DEF Unhindered
<1>14. QED
  BY <1>12, <1>13

\* A slot that is offered passes the checks of create, except for what is not seen.
LEMMA OfferIsAccepted ==
  ASSUME SlotsInv, CalendarClocks,
         NEW from \in Dates, NEW to \in Dates, NEW duration \in Durations,
         ValidDateRange(from, to), NEW s \in ComputeSlots(from, to, duration, {}),
         SameCalendarDay(s)
  PROVE  Unhindered(s, {}) /\ (Unseen(s, {}) \/ CreateAccepts(s))
<1>1. s.startAt \in Int /\ s.endAt \in Int /\ s.startAt <= s.endAt
  BY OfferHolds
<1>2. s.endAt <= s.endAt
  BY <1>1
<1>3. Unhindered(s, {}) /\ (ClockWentBack(s.startAt) \/ WithinSchedule(s))
  BY <1>1, <1>2, OfferHolds
<1>4. QED
  BY <1>3 DEF Unhindered, Unseen, CreateAccepts, Admissible, SlotIsBookable

\* The start of a slot that is offered for moving a booking no longer than the slot
\* passes the checks of rescheduleByClient, once the booking itself does.
LEMMA OfferIsReachable ==
  ASSUME SlotsInv, CalendarClocks,
         NEW from \in Dates, NEW to \in Dates, NEW duration \in Durations,
         ValidDateRange(from, to), NEW b \in confirmed,
         NEW s \in ComputeSlots(from, to, duration, {b}),
         MovedTo(b, s.startAt).endAt <= s.endAt, SameCalendarDay(MovedTo(b, s.startAt))
  PROVE  /\ Unhindered(MovedTo(b, s.startAt), {b})
         /\ WithinNoticeWindow(b) =>
              Unseen(MovedTo(b, s.startAt), {b}) \/ MoveAccepts(b, s.startAt)
<1> DEFINE moved == MovedTo(b, s.startAt)
<1>1. s.startAt \in Int
  BY OfferHolds
<1>2. b.startAt \in Int /\ b.endAt \in Int /\ b.startAt <= b.endAt
  BY WallIsCalendar DEF SlotsInv, BookedInv
<1>3. /\ moved.startAt = s.startAt /\ moved.endAt = s.startAt + (b.endAt - b.startAt)
      /\ moved.endAt \in Int /\ moved.startAt <= moved.endAt
  BY <1>1, <1>2 DEF MovedTo
<1>4. moved.endAt <= s.endAt /\ SameCalendarDay(moved)
  OBVIOUS
<1> HIDE DEF moved
<1>5. Unhindered(moved, {b}) /\ (ClockWentBack(moved.startAt) \/ WithinSchedule(moved))
  BY <1>3, <1>4, OfferHolds
<1>6. WithinNoticeWindow(b) => Unseen(moved, {b}) \/ MoveAccepts(b, s.startAt)
  BY <1>4, <1>5 DEF Unhindered, Unseen, MoveAccepts, Admissible, SlotIsBookable, moved
<1>7. QED
  BY <1>5, <1>6 DEF moved

\* A slot that passes the checks at a step of the hours is a candidate of
\* computeSlots, and no booking that it finds is in the way.
LEMMA OpenTimeIsOffered ==
  ASSUME SlotsInv, CalendarClocks, NEW from \in Dates, NEW to \in Dates, ValidDateRange(from, to),
         NEW s \in Steps, NEW excluded,
         DateOf(s.startAt) \in from .. to, Admissible(s, excluded)
  PROVE  s \in ComputeSlots(from, to, s.endAt - s.startAt, excluded)
<1> DEFINE date == DateOf(s.startAt)
           m == MinuteOf(s.startAt)
           ranges == EffectiveRangesForDateRange(from, to)
           starts(day, d) == UNION {{SetMinute(day, k) : k \in StartMinutes(g, d)} : g \in ranges[day]}
<1>0. /\ s \in Slots /\ OnStep(s) /\ ~ ClockWentForward(s.startAt) /\ date \in AskedDates
      /\ s.startAt >= now + Notice /\ s.startAt = SetMinute(date, m)
  BY DEF Steps
<1>1. /\ CalendarClock(Wall) /\ Instants = DOMAIN Wall /\ Instants \subseteq Int /\ HoursInv
      /\ from \in Int /\ to \in Int
  BY WallIsCalendar, SlotsAssumption DEF SlotsInv
<1>2. PICK t \in Instants, d \in Durations : s = [startAt |-> t, endAt |-> t + d]
  BY <1>0 DEF Slots
<1>3. /\ t \in Int /\ d \in Nat \ {0} /\ s.startAt = t /\ s.endAt = t + d
      /\ s.endAt - s.startAt = d
  <2>1. t \in Int /\ d \in Nat \ {0}
    BY <1>1, SlotsAssumption
  <2>2. QED
    BY <1>2, <2>1
<1>4. date \in Int /\ m \in Nat
  BY <1>1, <1>3 DEF CalendarClock, DateOf, MinuteOf
<1>5. StartOfDay(date) \in Int
  BY <1>0, <1>1, <1>4, AskedDatesBegin
<1>6. PICK g \in EffectiveRangesForDate(date) :
        /\ g.startMinute <= Candidate(s).startMinute
        /\ Candidate(s).endMinute <= g.endMinute
        /\ (Candidate(s).startMinute - g.startMinute) % (s.endAt - s.startAt) = 0
  BY <1>0 DEF OnStep
<1>7. /\ Candidate(s).startMinute = m
      /\ Candidate(s).endMinute = s.endAt - StartOfDay(date)
  BY Zenon DEF Candidate
<1>8. g.startMinute \in Int /\ g.endMinute \in Int
  BY <1>1, RangeType, BodiesAssumption DEF Minutes
<1>9. m + d <= g.endMinute
  <2>1. ~ (s.startAt - StartOfDay(date) < m)
    BY <1>0, Zenon DEF ClockWentForward
  <2>2. s.endAt - StartOfDay(date) <= g.endMinute
    BY <1>6, <1>7, Zenon
  <2> HIDE DEF date, m
  <2>3. QED
    BY <1>3, <1>4, <1>5, <1>8, <2>1, <2>2
<1> HIDE DEF date, m
<1>10. m \in StartMinutes(g, d)
  <2>1. g.startMinute <= m /\ (m - g.startMinute) % d = 0
    BY <1>3, <1>6, <1>7
  <2>2. m \in g.startMinute .. (g.endMinute - d)
    BY <1>3, <1>4, <1>8, <1>9, <2>1
  <2>3. QED
    BY <2>1, <2>2 DEF StartMinutes
<1>11. t \in starts(date, d)
  <2>1. g \in ranges[date]
    <3>1. date \in from .. to
      BY DEF date
    <3>2. ranges[date] = EffectiveRangesForDate(date)
      BY <1>1, <3>1, RangesAgree
    <3>3. QED
      BY <1>6, <3>2
  <2>2. t = SetMinute(date, m)
    BY <1>0, <1>3
  <2>3. t \in {SetMinute(date, k) : k \in StartMinutes(g, d)}
    BY <1>10, <2>2
  <2>4. QED
    BY <2>1, <2>3, Zenon
<1>12. t \in UNION {starts(day, d) : day \in from .. to}
  <2>1. date \in from .. to
    BY DEF date
  <2> HIDE DEF starts
  <2>2. QED
    BY <1>11, <2>1
<1>13. s \in CandidateSlots(from, to, d)
  <2>1. CandidateSlots(from, to, d) =
          {[startAt |-> u, endAt |-> u + d] : u \in UNION {starts(day, d) : day \in from .. to}}
    BY Zenon DEF CandidateSlots
  <2> DEFINE times == UNION {starts(day, d) : day \in from .. to}
  <2>2. t \in times
    BY <1>12
  <2>3. CandidateSlots(from, to, d) = {[startAt |-> u, endAt |-> u + d] : u \in times}
    BY <2>1
  <2> HIDE DEF times
  <2>4. QED
    BY <1>2, <2>2, <2>3
<1>14. \A b \in ExistingBookings(from, to, excluded) : ~ Overlap(b, s)
  BY DEF Admissible, SlotIsBookable, Free, ExistingBookings
<1>15. s \in ComputeSlots(from, to, d, excluded)
  BY <1>0, <1>13, <1>14 DEF ComputeSlots
<1>16. QED
  BY <1>3, <1>15

LEMMA SlotsInvInit == Init => SlotsInv
<1> SUFFICES ASSUME Init PROVE SlotsInv
  OBVIOUS
<1>1. HoursInv
  <2>1. ~ Stored(NoRow)
    BY DEF Stored
  <2>2. QED
    BY <2>1 DEF Init, AvailabilityInit, HoursInv, RowsInv, EditInv, RangesStayValid
<1>2. SettingsInv /\ PatchInv /\ BookedInv
  BY DEF Init, SettingsInit, SettingsInv, PatchInv, BookedInv
<1>3. QED
  BY <1>1, <1>2 DEF SlotsInv

LEMMA SlotsInvNext == SlotsInv /\ [Next]_vars => SlotsInv'
<1> SUFFICES ASSUME SlotsInv, [Next]_vars PROVE SlotsInv'
  OBVIOUS
<1>1. HoursInv'
  BY HoursInvNext DEF SlotsInv
<1>2. SettingsInv'
  BY SettingsInvNext DEF SlotsInv
<1>3. PatchInv'
  BY PatchInvStep DEF SlotsInv
<1>4. BookedInv'
  BY <1>3, BookedInvStep DEF SlotsInv
<1>5. QED
  BY <1>1, <1>2, <1>3, <1>4 DEF SlotsInv

\* What computeSlots offers, create accepts at that moment, and rescheduleByClient
\* for a booking that may still be moved and is no longer than the offer, for any
\* hours, overrides, settings, bookings and lengths, on all dates: refused for the
\* hours between a change of the clock back and the end of its date only, or for a
\* booking across midnight that the query misses (SlotsService,
\* assertWithinNoticeWindow, assertSlotIsBookable).
THEOREM OffersAreBookable ==
  ASSUME CalendarClocks
  PROVE  Spec => []OfferedIsBookable
<1>1. SlotsInv => OfferedIsBookable
  BY OfferIsAccepted, OfferIsReachable DEF OfferedIsBookable
<1>2. QED
  BY <1>1, SlotsInvInit, SlotsInvNext, PTL DEF Spec

\* What passes the checks of create and rescheduleByClient outside the notice, at a
\* step of the hours, computeSlots offers, for any hours, overrides, settings,
\* bookings and lengths: the two ways to look at a calendar differ only where the
\* clock changes.
THEOREM NothingIsWithheld ==
  ASSUME CalendarClocks
  PROVE  Spec => []OpenTimesAreOffered
<1>1. SlotsInv => OpenTimesAreOffered
  BY OpenTimeIsOffered DEF OpenTimesAreOffered
<1>2. QED
  BY <1>1, SlotsInvInit, SlotsInvNext, PTL DEF Spec

===============================================================================
