--------------------------- MODULE SessionRefresh ---------------------------
(***************************************************************************)
(* The session credentials that the tabs of a browser share in             *)
(* localStorage: each tab refreshes them on its own, one refresh at a      *)
(* time, and signs in when they appear.  The bridge takes a refresh token  *)
(* once and gives another.  Tokens are numbers, drawn in order; 0 is none. *)
(***************************************************************************)
EXTENDS Naturals, FiniteSets

CONSTANTS
  Tabs,
  MaxSessions  \* bound on the refresh tokens the bridge gives

VARIABLES
  sessStore,    \* the token in localStorage
  sessValid,    \* the tokens the bridge takes
  sessGiven,    \* number of tokens given
  sessTabs,     \* the tabs
  sessTroubles  \* history: a reply was lost, the user left, a device was revoked,
                \* a tab missed credentials before it was told they are gone

sessVars == <<sessStore, sessValid, sessGiven, sessTabs, sessTroubles>>

Sessions == 0 .. MaxSessions

SessTypeOK ==
  /\ sessStore \in Sessions
  /\ sessValid \subseteq Sessions \ {0}
  /\ sessGiven \in Sessions
  /\ sessTabs \in [Tabs -> [refresh : Sessions,     \* the token the refresh started from
                            reply : {"none", "posted", "given", "refused", "lost"},
                            brings : Sessions,      \* the token given
                            pairing : Sessions,     \* the token that completePairing brings
                            seen : BOOLEAN,         \* credentials were there when last rendered
                            checking : BOOLEAN,     \* the version is checked before a bootstrap
                            phase : {"out", "in", "failed"}]]
  /\ sessTroubles \subseteq {"lost", "left", "revoked", "missed"}

SessInit ==
  /\ sessStore = 1 /\ sessValid = {1} /\ sessGiven = 1
  /\ sessTabs = [t \in Tabs |-> [refresh |-> 0, reply |-> "none", brings |-> 0, pairing |-> 0, seen |-> TRUE,
                                 checking |-> FALSE, phase |-> "in"]]
  /\ sessTroubles = {}

-----------------------------------------------------------------------------
(* The store and its listeners                                             *)

\* The effect of the provider: credentials that appear start a version check,
\* and the cleanup of the last effect cancels one that is under way.
credentialPresence(tab, present) ==
  IF tab.seen = present THEN tab ELSE [tab EXCEPT !.seen = present, !.checking = present]

\* save and clear tell the tab that calls them at once; the others get a
\* storage event.
Stores(token, t, tab) ==
  /\ sessStore' = token
  /\ sessTabs' = [sessTabs EXCEPT ![t] = credentialPresence(tab, token # 0)]

StorageEvent(t) ==
  /\ sessTabs[t].seen # (sessStore # 0)
  /\ sessTabs' = [sessTabs EXCEPT ![t] = credentialPresence(@, sessStore # 0)]
  /\ UNCHANGED <<sessStore, sessValid, sessGiven, sessTroubles>>

Missed(t) == IF sessStore = 0 /\ sessTabs[t].seen THEN {"missed"} ELSE {}

Bootstraps(t, phase) ==
  /\ sessTabs' = [sessTabs EXCEPT ![t].checking = FALSE, ![t].phase = phase]
  /\ sessTroubles' = sessTroubles \cup Missed(t)
  /\ UNCHANGED <<sessStore, sessValid, sessGiven>>

VersionChecked(t) == sessTabs[t].checking /\ Bootstraps(t, IF sessStore = 0 THEN "out" ELSE "in")
VersionCheckFails(t) == sessTabs[t].checking /\ Bootstraps(t, "failed")

\* The focus of the window, or the button of the settings.
RetryConnection(t) ==
  /\ sessTabs[t].phase # "in" /\ sessStore # 0
  /\ ~sessTabs[t].checking
  /\ Bootstraps(t, "in")

-----------------------------------------------------------------------------
(* A refresh                                                               *)

\* A token that is about to expire, or a response with status 401.
RefreshCredentials(t) ==
  /\ sessTabs[t].phase = "in"
  /\ sessTabs[t].refresh = 0
  /\ sessTabs' = [sessTabs EXCEPT ![t] = IF sessStore = 0 THEN [@ EXCEPT !.phase = "out"]
                                         ELSE [@ EXCEPT !.refresh = sessStore, !.reply = "posted"]]
  /\ sessTroubles' = sessTroubles \cup Missed(t)
  /\ UNCHANGED <<sessStore, sessValid, sessGiven>>

Gives == sessGiven < MaxSessions /\ sessGiven' = sessGiven + 1

RefreshHandled(t) ==
  /\ sessTabs[t].reply = "posted"
  /\ IF sessTabs[t].refresh \in sessValid
     THEN /\ Gives
          /\ sessValid' = (sessValid \ {sessTabs[t].refresh}) \cup {sessGiven'}
          /\ sessTabs' = [sessTabs EXCEPT ![t].reply = "given", ![t].brings = sessGiven']
     ELSE /\ sessTabs' = [sessTabs EXCEPT ![t].reply = "refused"]
          /\ UNCHANGED <<sessValid, sessGiven>>
  /\ UNCHANGED <<sessStore, sessTroubles>>

\* A request that never arrives, a reply that is lost, a timeout.
RefreshLost(t) ==
  /\ sessTabs[t].reply \in {"posted", "given", "refused"}
  /\ sessTroubles' = IF sessTabs[t].reply = "given" THEN sessTroubles \cup {"lost"}
                     ELSE sessTroubles
  /\ sessTabs' = [sessTabs EXCEPT ![t].reply = "lost", ![t].brings = 0]
  /\ UNCHANGED <<sessStore, sessValid, sessGiven>>

Settled(t) == [sessTabs[t] EXCEPT !.refresh = 0, !.reply = "none", !.brings = 0]

RefreshSucceeds(t) ==
  /\ sessTabs[t].reply = "given"
  /\ Stores(sessTabs[t].brings, t, Settled(t))
  /\ UNCHANGED <<sessValid, sessGiven, sessTroubles>>

\* Another tab may have saved credentials meanwhile.
recoverConcurrentCredentials(t) == sessStore \notin {0, sessTabs[t].refresh}

\* Faulty: a refused token ends the session, whatever the store holds.
RefreshFailsUnrecovered(t) ==
  /\ sessTabs[t].reply \in {"refused", "lost"}
  /\ IF sessTabs[t].reply = "lost"
     THEN sessTabs' = [sessTabs EXCEPT ![t] = Settled(t)] /\ UNCHANGED sessStore
     ELSE Stores(0, t, [Settled(t) EXCEPT !.phase = "out"])
  /\ UNCHANGED <<sessValid, sessGiven, sessTroubles>>

\* Faulty: the credentials are removed, but nobody is told.
RefreshFailsSilently(t) ==
  /\ sessTabs[t].reply \in {"refused", "lost"}
  /\ IF sessTabs[t].reply = "lost" \/ recoverConcurrentCredentials(t)
     THEN sessTabs' = [sessTabs EXCEPT ![t] = Settled(t)] /\ UNCHANGED sessStore
     ELSE /\ sessStore' = 0
          /\ sessTabs' = [sessTabs EXCEPT ![t] = [Settled(t) EXCEPT !.phase = "out"]]
  /\ UNCHANGED <<sessValid, sessGiven, sessTroubles>>

RefreshFails(t) ==
  /\ sessTabs[t].reply \in {"refused", "lost"}
  /\ IF sessTabs[t].reply = "lost" \/ recoverConcurrentCredentials(t)
     THEN sessTabs' = [sessTabs EXCEPT ![t] = Settled(t)] /\ UNCHANGED sessStore
     ELSE Stores(0, t, [Settled(t) EXCEPT !.phase = "out"])
  /\ UNCHANGED <<sessValid, sessGiven, sessTroubles>>

-----------------------------------------------------------------------------
(* Pairing, logout and revocation                                          *)

\* Each pairing makes a device of its own; the screen is there for a tab that
\* is not signed in.
DoPair(t) ==
  /\ sessTabs[t].phase = "out" /\ sessTabs[t].pairing = 0 /\ ~sessTabs[t].checking
  /\ Gives
  /\ sessValid' = sessValid \cup {sessGiven'}
  /\ sessTabs' = [sessTabs EXCEPT ![t].pairing = sessGiven']
  /\ UNCHANGED <<sessStore, sessTroubles>>

PairReturns(t) ==
  /\ sessTabs[t].pairing # 0
  /\ Stores(sessTabs[t].pairing, t, [sessTabs[t] EXCEPT !.pairing = 0])
  /\ UNCHANGED <<sessValid, sessGiven, sessTroubles>>

PairLost(t) ==
  /\ sessTabs[t].pairing # 0
  /\ sessTabs' = [sessTabs EXCEPT ![t].pairing = 0]
  /\ UNCHANGED <<sessStore, sessValid, sessGiven, sessTroubles>>

Logout(t) ==
  /\ sessTabs[t].phase # "out"
  /\ Stores(0, t, [sessTabs[t] EXCEPT !.phase = "out"])
  /\ sessTroubles' = sessTroubles \cup {"left"}
  /\ UNCHANGED <<sessValid, sessGiven>>

\* The tab that revokes its own device forgets the credentials; it may also be
\* revoked from elsewhere.
RevokeSelf(t) ==
  /\ sessTabs[t].phase = "in" /\ sessStore \in sessValid
  /\ sessValid' = sessValid \ {sessStore}
  /\ Stores(0, t, [sessTabs[t] EXCEPT !.phase = "out"])
  /\ sessTroubles' = sessTroubles \cup {"revoked"}
  /\ UNCHANGED sessGiven

Revoked ==
  /\ sessValid # {}
  /\ \E token \in sessValid : sessValid' = sessValid \ {token}
  /\ sessTroubles' = sessTroubles \cup {"revoked"}
  /\ UNCHANGED <<sessStore, sessGiven, sessTabs>>

SessNext ==
  \/ \E t \in Tabs :
       \/ StorageEvent(t) \/ VersionChecked(t) \/ VersionCheckFails(t) \/ RetryConnection(t)
       \/ RefreshCredentials(t) \/ RefreshHandled(t) \/ RefreshLost(t)
       \/ RefreshSucceeds(t) \/ RefreshFails(t)
       \/ DoPair(t) \/ PairReturns(t) \/ PairLost(t) \/ Logout(t) \/ RevokeSelf(t)
  \/ Revoked

-----------------------------------------------------------------------------
(* Properties                                                              *)

\* However the refreshes of several tabs overlap, once they have settled the
\* store holds a token the bridge takes, unless a reply was lost after the
\* bridge had rotated the token, the user left, a device was revoked, or a tab
\* missed credentials. From the first of these on nothing is claimed, pairing
\* again included.
StoreIsCurrent ==
  (\A t \in Tabs : sessTabs[t].refresh = 0) /\ sessTroubles = {} => sessStore \in sessValid

\* A tab whose session was lost comes back as soon as another tab, or a new
\* pairing, brings credentials: no loss goes unnoticed by the effect that
\* waits for them, unless a request missed the credentials before the event
\* that tells so.
TabsSignIn ==
  "missed" \notin sessTroubles => \A t \in Tabs :
    sessTabs[t].phase = "out" /\ sessStore # 0 /\ sessTabs[t].seen => sessTabs[t].checking
=============================================================================
