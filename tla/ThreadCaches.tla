---------------------------- MODULE ThreadCaches ----------------------------
(***************************************************************************)
(* What the thread service of the bridge remembers of a thread: its        *)
(* settings and its context usage, and the calls of the app-server that    *)
(* change them when they return.  The app-server answers calls in any      *)
(* order and has other clients.  A setting is "a" or "b", "none" where the *)
(* bridge does not know it or a request does not set it.                   *)
(***************************************************************************)
EXTENDS Naturals, FiniteSets

CONSTANTS
  SvcCalls,  \* calls that can be under way
  SvcFields  \* the settings of a thread

VARIABLES
  svcActual,    \* the settings at the app-server
  svcSettings,  \* #threadSettingsCache
  svcUsage,     \* #contextUsageCache: none, read from the rollout, or live
  svcRuns,      \* the calls under way
  svcHistory    \* what happened to the settings and the usage

svcVars == <<svcActual, svcSettings, svcUsage, svcRuns, svcHistory>>

Settings == [SvcFields -> {"a", "b"}]
PartialSettings == [SvcFields -> {"a", "b", "none"}]
Unset == [f \in SvcFields |-> "none"]
Phases == {"idle", "turn", "turned", "resume", "resumed", "scanning", "unsubscribe", "unsubscribed"}

SvcTypeOK ==
  /\ svcActual \in Settings /\ svcSettings \in PartialSettings
  /\ svcUsage \in {"none", "rollout", "live"}
  /\ svcRuns \in [SvcCalls -> [phase : Phases, settings : PartialSettings, sets : PartialSettings,
                               alone : BOOLEAN]]
  /\ svcHistory \in [strayed : BOOLEAN, live : BOOLEAN]

Idle == [phase |-> "idle", settings |-> Unset, sets |-> Unset, alone |-> FALSE]

SvcInit ==
  /\ svcActual = [f \in SvcFields |-> "a"] /\ svcSettings = Unset /\ svcUsage = "none"
  /\ svcRuns = [c \in SvcCalls |-> Idle]
  /\ svcHistory = [strayed |-> FALSE, live |-> FALSE]

Touching == {c \in SvcCalls : svcRuns[c].phase \in {"turn", "turned", "resume", "resumed"}}

\* A call that changes settings begins; those under way are no longer alone.
Begins(c, run) ==
  /\ svcRuns[c].phase = "idle"
  /\ svcRuns' = [d \in SvcCalls |-> IF d = c THEN [run EXCEPT !.alone = (Touching = {})]
                                    ELSE [svcRuns[d] EXCEPT !.alone = FALSE]]
  /\ svcHistory' = [svcHistory EXCEPT !.strayed = @ \/ Touching # {}]
  /\ UNCHANGED <<svcActual, svcSettings, svcUsage>>

-----------------------------------------------------------------------------
(* startTurn                                                               *)

\* The settings merged in the end are those cached now.
StartTurn(c, sets) ==
  Begins(c, [Idle EXCEPT !.phase = "turn", !.settings = svcSettings, !.sets = sets])

Merged(current, sets) == [f \in SvcFields |-> IF sets[f] # "none" THEN sets[f] ELSE current[f]]

TurnStarts(c) ==
  /\ svcRuns[c].phase = "turn"
  /\ svcActual' = Merged(svcActual, svcRuns[c].sets)
  /\ svcRuns' = [svcRuns EXCEPT ![c].phase = "turned"]
  /\ UNCHANGED <<svcSettings, svcUsage, svcHistory>>

\* Faulty: what is cached already is kept.
mergeThreadSettingsKept(current, sets) ==
  [f \in SvcFields |-> IF current[f] # "none" THEN current[f] ELSE sets[f]]

mergeThreadSettings(current, sets) == Merged(current, sets)

StartTurnReturns(c) ==
  /\ svcRuns[c].phase = "turned"
  /\ svcSettings' = mergeThreadSettings(svcRuns[c].settings, svcRuns[c].sets)
  /\ svcRuns' = [svcRuns EXCEPT ![c] = Idle]
  /\ UNCHANGED <<svcActual, svcUsage, svcHistory>>

-----------------------------------------------------------------------------
(* resumeThread                                                            *)

ResumeThread(c) == Begins(c, [Idle EXCEPT !.phase = "resume"])

Resumes(c) ==
  /\ svcRuns[c].phase = "resume"
  /\ svcRuns' = [svcRuns EXCEPT ![c].phase = "resumed", ![c].settings = svcActual]
  /\ UNCHANGED <<svcActual, svcSettings, svcUsage, svcHistory>>

\* A call is refused; the resume of a thread without a rollout counts as done.
CallFails(c) ==
  /\ svcRuns[c].phase \in {"turn", "resume", "unsubscribe"}
  /\ svcRuns' = [svcRuns EXCEPT ![c] = Idle]
  /\ UNCHANGED <<svcActual, svcSettings, svcUsage, svcHistory>>

\* Usage that is known spares the look at the rollout.
ResumeReturns(c) ==
  /\ svcRuns[c].phase = "resumed"
  /\ svcSettings' = svcRuns[c].settings
  /\ svcRuns' = [svcRuns EXCEPT ![c] = IF svcUsage = "none" THEN [Idle EXCEPT !.phase = "scanning"]
                                       ELSE Idle]
  /\ svcHistory' = [svcHistory EXCEPT !.strayed = @ /\ ~svcRuns[c].alone]
  /\ UNCHANGED <<svcActual, svcUsage>>

\* Faulty: the cache is not looked at again.
RolloutReadUnchecked(c) ==
  /\ svcRuns[c].phase = "scanning"
  /\ svcUsage' = "rollout"
  /\ svcRuns' = [svcRuns EXCEPT ![c] = Idle]
  /\ UNCHANGED <<svcActual, svcSettings, svcHistory>>

\* The rollout may hold no usage.
RolloutRead(c) ==
  /\ svcRuns[c].phase = "scanning"
  /\ svcUsage' \in IF svcUsage = "none" THEN {"none", "rollout"} ELSE {svcUsage}
  /\ svcRuns' = [svcRuns EXCEPT ![c] = Idle]
  /\ UNCHANGED <<svcActual, svcSettings, svcHistory>>

-----------------------------------------------------------------------------
(* Context usage                                                           *)

Clears == svcUsage' = "none" /\ svcHistory' = [svcHistory EXCEPT !.live = FALSE]

UnsubscribeThread(c) ==
  /\ svcRuns[c].phase = "idle"
  /\ svcRuns' = [svcRuns EXCEPT ![c] = [Idle EXCEPT !.phase = "unsubscribe"]]
  /\ UNCHANGED <<svcActual, svcSettings, svcUsage, svcHistory>>

Unsubscribes(c) ==
  /\ svcRuns[c].phase = "unsubscribe"
  /\ svcRuns' = [svcRuns EXCEPT ![c].phase = "unsubscribed"]
  /\ UNCHANGED <<svcActual, svcSettings, svcUsage, svcHistory>>

UnsubscribeReturns(c) ==
  /\ svcRuns[c].phase = "unsubscribed"
  /\ svcRuns' = [svcRuns EXCEPT ![c] = Idle]
  /\ Clears
  /\ UNCHANGED <<svcActual, svcSettings>>

ThreadClosed == Clears /\ UNCHANGED <<svcActual, svcSettings, svcRuns>>

TokenUsageUpdated ==
  /\ svcUsage' = "live"
  /\ svcHistory' = [svcHistory EXCEPT !.live = TRUE]
  /\ UNCHANGED <<svcActual, svcSettings, svcRuns>>

-----------------------------------------------------------------------------
(* The app-server                                                          *)

\* Another client of the app-server changes the settings.
SettingsChange(settings) ==
  /\ svcActual' = settings
  /\ svcHistory' = [svcHistory EXCEPT !.strayed = TRUE]
  /\ svcRuns' = [c \in SvcCalls |-> [svcRuns[c] EXCEPT !.alone = FALSE]]
  /\ UNCHANGED <<svcSettings, svcUsage>>

SvcNext ==
  \/ \E c \in SvcCalls :
       \/ \E sets \in PartialSettings : StartTurn(c, sets)
       \/ TurnStarts(c) \/ StartTurnReturns(c) \/ ResumeThread(c) \/ Resumes(c) \/ CallFails(c)
       \/ ResumeReturns(c) \/ RolloutRead(c)
       \/ UnsubscribeThread(c) \/ Unsubscribes(c) \/ UnsubscribeReturns(c)
  \/ ThreadClosed \/ TokenUsageUpdated
  \/ \E settings \in Settings : SettingsChange(settings)

-----------------------------------------------------------------------------
(* Properties                                                              *)

\* When no call is under way, the bridge tells the clients the settings that
\* the app-server has, unless calls overlapped or somebody else changed them
\* and no resume has come since.
SettingsAgree ==
  Touching = {} /\ ~svcHistory.strayed =>
    \A f \in SvcFields : svcSettings[f] \in {"none", svcActual[f]}

\* Live usage always wins over what a rollout holds, whenever its scan ends.
LiveUsageWins == svcHistory.live => svcUsage = "live"
=============================================================================
