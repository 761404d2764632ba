------------------------------- MODULE Settings -------------------------------
(***************************************************************************)
(* The Settings row of one coach (settings/settings.service.ts): created   *)
(* by the first request that asks for it, changed by PATCH requests that   *)
(* read it first and write in a second query.                              *)
(*                                                                         *)
(* Of its fields two decide something: the timezone the hours are meant    *)
(* in and the notice a client has to give.  Branding, address and sender   *)
(* only show in mails.                                                     *)
(***************************************************************************)

CONSTANTS
    Patchers,            \* PATCH requests that may be in flight at a time
    SettingsPatches,     \* their bodies, NotGiven where a field is not given
    DefaultSettings,     \* the column defaults of the schema
    NotGiven

SettingFields == {"businessTimezone", "cancellationNoticeHours"}

ASSUME DefaultsAssumption == DOMAIN DefaultSettings = SettingFields

VARIABLES
    settings,            \* the coach's row, NoSettings before it is asked for
    patching             \* per PATCH: the body it will write

settingsVars == <<settings, patching>>

-------------------------------------------------------------------------------

NoSettings == [state |-> "none"]
NoPatch == [state |-> "none"]

SettingsInit ==
    /\ settings = NoSettings
    /\ patching = [e \in Patchers |-> NoPatch]

\* get: upsert with an empty update returns the row, or a new one.
Present == IF settings = NoSettings THEN DefaultSettings ELSE settings

\* The row after a get.  The coach exists: an unknown id is answered 404 first.
Ensured == settings' = Present

\* Mutant: fields that are not given take the defaults of the body's class.
PatchedWithDefaults(row, e) ==
    [f \in SettingFields |-> IF patching[e][f] = NotGiven THEN DefaultSettings[f]
                             ELSE patching[e][f]]

\* settings.update writes the given fields over the row as it is by then.
Patched(row, e) ==
    [f \in SettingFields |-> IF patching[e][f] = NotGiven THEN row[f] ELSE patching[e][f]]

\* GET /settings, and a PATCH whose palette isValidEmailBrandPalette refuses.
GetSettings == Ensured /\ UNCHANGED patching

\* update, up to the write.
StartPatch(e) ==
    /\ patching[e] = NoPatch
    /\ Ensured
    /\ \E body \in SettingsPatches :
         patching' = [patching EXCEPT ![e] = body]

FinishPatch(e) ==
    /\ patching[e] # NoPatch
    /\ settings' = Patched(settings, e)
    /\ patching' = [patching EXCEPT ![e] = NoPatch]

SettingsNext ==
    \/ GetSettings
    \/ \E e \in Patchers : StartPatch(e) \/ FinishPatch(e)

\* The value of a setting changes only to one that a PATCH being answered gives
\* it: a read that creates the row resets nothing, and a PATCH of one field does
\* not write back what another PATCH has changed since (get, update).
SettingsChangeByPatch ==
    [][\A f \in SettingFields : Present'[f] # Present[f] =>
          \E e \in Patchers : /\ patching[e] # NoPatch
                              /\ patching'[e] = NoPatch
                              /\ patching[e][f] = Present'[f]]_settingsVars

\* A PATCH that is to be written has found the row or made it, and the row stays.
SettingsInv ==
    /\ patching = [e \in Patchers |-> patching[e]]
    /\ \A e \in Patchers : patching[e] # NoPatch => settings # NoSettings

===============================================================================
