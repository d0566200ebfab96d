--------------------------- MODULE ComposerSettings ---------------------------
(***************************************************************************)
(* The settings drafted in a composer and sent with the next message. A    *)
(* composer is of one thread: another one is mounted when another thread   *)
(* is shown. The draft is taken from the thread's settings when it is      *)
(* mounted, and is compared with those it has by then when a message is    *)
(* sent; the thread's change meanwhile leaves it alone.                    *)
(***************************************************************************)
EXTENDS Naturals, FiniteSets

CONSTANTS
  MaxDraftEdits \* bound on the choices made and on the changes made by others, together

VARIABLES
  draftCommitted, \* the settings of the thread shown, as its detail has them
  draftState,     \* settingsDraftState
  draftChosen,    \* history: for each setting what the user chose in this composer
  draftModels,    \* modelsState, and the listings in flight: the effect's and one asked for by Retry
  draftSends,     \* messages in flight: what is overridden
  draftEdits      \* number of edits made

draftVars == <<draftCommitted, draftState, draftChosen, draftModels, draftSends, draftEdits>>

Fields == {"model", "effort", "preset"}
Models == {"large", "small"}
Unknown == "null"
Same == "as it is"

\* supportedReasoningEfforts: those of the small model do not hold the other's.
supportedEfforts(model) ==
  CASE model = "large" -> {"low", "high"} [] model = "small" -> {"low"} [] OTHER -> {}
defaultEffort(model) == "low"

Known == [model : Models, effort : {"low", "high"}, preset : {"ask", "full"}]
Values == [model : Models \cup {Unknown}, effort : {"low", "high", Unknown},
           preset : {"ask", "full", Unknown}]
Overrides == [model : Models \cup {Unknown, Same}, effort : {"low", "high", Unknown, Same},
              preset : {"ask", "full", Unknown, Same}]
Choices == {"large", "small", "low", "high", "ask", "full"}

DraftTypeOK ==
  /\ {draftCommitted, draftState} \subseteq Values
  /\ draftChosen \in [Fields -> SUBSET Choices]
  /\ draftModels \in [kind : {"loading", "ready", "error"}, listed : BOOLEAN, effect : BOOLEAN, reload : BOOLEAN]
  /\ draftSends \subseteq Overrides
  /\ draftEdits \in 0 .. MaxDraftEdits

Plain == [model |-> "small", effort |-> "low", preset |-> "ask"]
Unsaid == [model |-> Unknown, effort |-> Unknown, preset |-> Unknown]
NoModels == [kind |-> "loading", listed |-> FALSE, effect |-> TRUE, reload |-> FALSE]
NothingChosen == [f \in Fields |-> {}]

DraftInit ==
  /\ draftCommitted \in {Plain, Unsaid} /\ draftState = draftCommitted
  /\ draftChosen = NothingChosen /\ draftModels = NoModels
  /\ draftSends = {} /\ draftEdits = 0

-----------------------------------------------------------------------------
(* The draft                                                               *)

updateSettingsDraft(value, chosen) ==
  /\ draftEdits < MaxDraftEdits /\ draftEdits' = draftEdits + 1
  /\ draftState' = value
  /\ draftChosen' = [f \in Fields |-> draftChosen[f] \cup IF f \in chosen THEN {value[f]} ELSE {}]
  /\ UNCHANGED <<draftCommitted, draftModels, draftSends>>

normalizeReasoningEffortSelection(model, current) ==
  IF current \in supportedEfforts(model) THEN current ELSE defaultEffort(model)

\* A model is chosen with an effort it supports.
SelectModel(model) ==
  /\ draftModels.listed
  /\ updateSettingsDraft([draftState EXCEPT
       !.model = model, !.effort = normalizeReasoningEffortSelection(model, draftState.effort)],
       {"model", "effort"})

SelectEffort(effort) ==
  /\ draftModels.listed /\ effort \in supportedEfforts(draftState.model)
  /\ updateSettingsDraft([draftState EXCEPT !.effort = effort], {"effort"})

SelectPreset(preset) == updateSettingsDraft([draftState EXCEPT !.preset = preset], {"preset"})

\* Another thread is shown, by a composer of its own.
Remounts(value) ==
  /\ draftCommitted' = value /\ draftState' = value
  /\ draftChosen' = NothingChosen /\ draftModels' = NoModels /\ draftSends' = {}
  /\ UNCHANGED draftEdits

-----------------------------------------------------------------------------
(* The models, listed when the composer is mounted                         *)

reloadModels ==
  /\ draftModels.kind = "error" /\ ~draftModels.reload
  /\ draftModels' = [draftModels EXCEPT !.kind = "loading", !.reload = TRUE]
  /\ UNCHANGED <<draftCommitted, draftState, draftChosen, draftSends, draftEdits>>

ModelsListed(by) ==
  /\ draftModels[by]
  /\ \E listed \in BOOLEAN :
       draftModels' = [draftModels EXCEPT ![by] = FALSE, !.listed = listed,
                                          !.kind = IF listed THEN "ready" ELSE "error"]
  /\ UNCHANGED <<draftCommitted, draftState, draftChosen, draftSends, draftEdits>>

-----------------------------------------------------------------------------
(* Messages                                                                *)

buildTurnSettingsOverrides(current, draft) ==
  [f \in Fields |-> IF draft[f] = current[f] THEN Same ELSE draft[f]]

Submit ==
  /\ draftSends' = draftSends \cup {buildTurnSettingsOverrides(draftCommitted, draftState)}
  /\ UNCHANGED <<draftCommitted, draftState, draftChosen, draftModels, draftEdits>>

\* External: the turn is started with what was overridden, or refused; the
\* draft stays as it is either way.
SendEnds ==
  /\ \E s \in draftSends :
       LET after(f) == IF s[f] = Same THEN draftCommitted[f] ELSE s[f]
       IN  /\ draftSends' = draftSends \ {s}
           /\ \/ UNCHANGED draftCommitted
              \/ draftCommitted' = [model |-> after("model"), effort |-> after("effort"),
                                    preset |-> after("preset")]
  /\ UNCHANGED <<draftState, draftChosen, draftModels, draftEdits>>

\* External: another client of the thread changes its settings, or its resume
\* tells them.
SettingsUpdated(value) ==
  /\ draftEdits < MaxDraftEdits /\ draftEdits' = draftEdits + 1
  /\ draftCommitted' = value
  /\ UNCHANGED <<draftState, draftChosen, draftModels, draftSends>>

DraftNext ==
  \/ reloadModels \/ ModelsListed("effect") \/ ModelsListed("reload") \/ Submit \/ SendEnds
  \/ \E model \in Models : SelectModel(model)
  \/ \E effort \in {"low", "high"} : SelectEffort(effort)
  \/ \E preset \in {"ask", "full"} : SelectPreset(preset)
  \/ \E value \in Known \cup {Unsaid} : Remounts(value)
  \/ \E value \in Known : SettingsUpdated(value)

-----------------------------------------------------------------------------
\* A message overrides what the user chose in its composer and nothing else.
\* This is what the specification of the composer's controls says ("applying
\* user-selected overrides on turn/start"); it fails, as every field of the
\* draft that differs from the thread's settings is sent, also one that only
\* they have changed.
OverridesAreChosen ==
  \A s \in draftSends, f \in Fields : s[f] # Same => s[f] \in draftChosen[f]
=============================================================================
